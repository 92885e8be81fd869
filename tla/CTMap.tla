------------------------------- MODULE CTMap -------------------------------
(***************************************************************************)
(* The template class CTMap of cht/spamfilter.cpp: a sparse map from 32-bit *)
(* keys to small counters of tokens.  A key that is not stored has a full   *)
(* counter, so withdraw inserts a key and replenish erases it again when    *)
(* its counter is full.                                                     *)
(*                                                                          *)
(* A map is a function whose domain is the set of stored keys.  MAX_TOKENS  *)
(* and the two DELTA template parameters are arguments, so that the three   *)
(* instances of the source share these operators.  The call of map.rehash   *)
(* every 256 replenishments changes no entry and is left out, and so is the *)
(* size that replenish reports to the statistics.                           *)
(***************************************************************************)
EXTENDS Integers

\* The constructor's empty unordered_map.
EmptyMap == [key \in {} |-> 0]

\* The maps over a set of keys whose stored counters are below max.
Maps(Key, max) == UNION {[S -> 0..(max - 1)] : S \in SUBSET Key}

\* Mutation: withdraw asks for more tokens than it takes.
CanWithdrawStrict(m, key, delta) == key \in DOMAIN m => m[key] > delta

\* What withdraw<delta>(key) returns.
CanWithdraw(m, key, delta) == key \in DOMAIN m => m[key] >= delta

\* Mutation: the request that inserts a key is not charged.
WithdrawnFree(m, key, max, delta) ==
    [k \in DOMAIN m \cup {key} |->
        IF k # key THEN m[k]
        ELSE IF key \notin DOMAIN m THEN max - 1
        ELSE IF m[key] < delta THEN m[key] ELSE m[key] - delta]

\* The map withdraw<delta>(key) leaves behind.
Withdrawn(m, key, max, delta) ==
    IF key \notin DOMAIN m
    THEN [k \in DOMAIN m \cup {key} |-> IF k = key THEN max - delta ELSE m[k]]
    ELSE IF m[key] < delta THEN m
    ELSE [m EXCEPT ![key] = m[key] - delta]

\* Mutation: an entry that is exactly full is kept.
ReplenishedKeep(m, max, delta) ==
    [k \in {j \in DOMAIN m : m[j] + delta <= max} |-> m[k] + delta]

\* The map replenish<delta>() leaves behind: entries that fill up are erased.
Replenished(m, max, delta) ==
    [k \in {j \in DOMAIN m : m[j] + delta < max} |-> m[k] + delta]

=============================================================================
