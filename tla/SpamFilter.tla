----------------------------- MODULE SpamFilter -----------------------------
(***************************************************************************)
(* cht/spamfilter.cpp as a state machine: a family of CTMaps, asked once    *)
(* per datagram or query and replenished once per statistics rollover       *)
(* (spam_run_epoch, called from st_rollover).  Every call runs inside one   *)
(* callback of the event loop and is one step.                              *)
(***************************************************************************)
EXTENDS CTMap

CONSTANTS Table,        \* g_rx_spamtable, g_pg_spamtable, getpeers_spamtable
          Key,          \* the u32 keys: an address, or checksum XOR address
          MAX_TOKENS,   \* table -> its MAX_TOKENS template parameter
          WITHDRAW,     \* table -> DELTA of its withdraw calls
          REPLENISH,    \* table -> DELTA of its replenish call
          NoAnswer,     \* no request answered by the last step
          MaxEpochs     \* bound on the epochs of a behaviour

\* The static_asserts of withdraw and replenish, and MAX_TOKENS being a u8.
ASSUME TableAssumption ==
    /\ MAX_TOKENS \in [Table -> 1..255]
    /\ WITHDRAW \in [Table -> 1..255]
    /\ REPLENISH \in [Table -> 1..255]
    /\ \A t \in Table : /\ WITHDRAW[t] <= MAX_TOKENS[t]
                        /\ REPLENISH[t] + MAX_TOKENS[t] <= 255

ASSUME MaxEpochsAssumption == MaxEpochs \in Nat

VARIABLES map,      \* table -> its CTMap
          out,      \* the last request with its answer
          spent,    \* history: table -> key -> tokens paid for granted requests
          epochs    \* history: epochs run so far

vars == <<map, out, spent, epochs>>

Init ==
    /\ map = [t \in Table |-> EmptyMap]
    /\ out = NoAnswer
    /\ spent = [t \in Table |-> [k \in Key |-> 0]]
    /\ epochs = 0

\* spam_check_rx, spam_check_tx_pg and spam_check_tx_q_gp.
SpamCheck(t, key) ==
    LET ok == CanWithdraw(map[t], key, WITHDRAW[t])
    IN  /\ map' = [map EXCEPT ![t] = Withdrawn(map[t], key, MAX_TOKENS[t], WITHDRAW[t])]
        /\ out' = <<t, key, ok>>
        /\ spent' = [spent EXCEPT ![t][key] = IF ok THEN @ + WITHDRAW[t] ELSE @]
        /\ UNCHANGED epochs

SpamRunEpoch ==
    /\ epochs < MaxEpochs
    /\ epochs' = epochs + 1
    /\ map' = [t \in Table |-> Replenished(map[t], MAX_TOKENS[t], REPLENISH[t])]
    /\ out' = NoAnswer
    /\ UNCHANGED spent

Next ==
    \/ \E t \in Table, key \in Key : SpamCheck(t, key)
    \/ SpamRunEpoch

Spec == Init /\ [][Next]_vars

-----------------------------------------------------------------------------
\* The level of the bucket that a sparse map stands for.
Level(t, k) == IF k \in DOMAIN map[t] THEN map[t][k] ELSE MAX_TOKENS[t]

\* Types; a stored counter is never full, so a quiet key leaves the map.
TypeOK ==
    /\ map \in [Table -> UNION {Maps(Key, MAX_TOKENS[t]) : t \in Table}]
    /\ \A t \in Table : map[t] \in Maps(Key, MAX_TOKENS[t])
    /\ out \in (Table \X Key \X BOOLEAN) \cup {NoAnswer}
    /\ spent \in [Table -> [Key -> Nat]]
    /\ epochs \in Nat

\* Over any behaviour, what a key was granted never exceeds one full bucket
\* and the refills of the epochs run since: withdraw and replenish between
\* them lend no token, although an erased entry comes back as a full bucket.
Budget ==
    \A t \in Table, k \in Key :
        spent[t][k] + Level(t, k) <= MAX_TOKENS[t] + epochs * REPLENISH[t]

\* The sparse, self-erasing maps answer every request as full-size token
\* buckets would: CTMap implements TokenBucket.
Bucket == INSTANCE TokenBucket
          WITH level <- [t \in Table |-> [k \in Key |-> Level(t, k)]]

ImplementsBuckets == Bucket!Spec

=============================================================================
