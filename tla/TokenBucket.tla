---------------------------- MODULE TokenBucket ----------------------------
(***************************************************************************)
(* What the spam filter promises: every key of every table owns a bucket    *)
(* that starts full.  A request is granted exactly when the bucket holds    *)
(* the price of a request, which it then pays; an epoch adds the table's    *)
(* refill to every bucket, up to the size of the bucket.  Nothing is said   *)
(* about how buckets are stored.                                            *)
(***************************************************************************)
EXTENDS Integers

CONSTANTS Table,        \* the tables
          Key,          \* the keys of a table
          MAX_TOKENS,   \* table -> size of its buckets
          WITHDRAW,     \* table -> price of a request
          REPLENISH,    \* table -> refill of an epoch
          NoAnswer      \* no request answered by the last step

VARIABLES level,        \* table -> key -> tokens in the bucket
          out           \* the last request with its answer

vars == <<level, out>>

Init ==
    /\ level = [t \in Table |-> [k \in Key |-> MAX_TOKENS[t]]]
    /\ out = NoAnswer

Grant(t, k) ==
    /\ level[t][k] >= WITHDRAW[t]
    /\ level' = [level EXCEPT ![t][k] = @ - WITHDRAW[t]]
    /\ out' = <<t, k, TRUE>>

Refuse(t, k) ==
    /\ level[t][k] < WITHDRAW[t]
    /\ out' = <<t, k, FALSE>>
    /\ UNCHANGED level

Refill ==
    /\ level' = [t \in Table |-> [k \in Key |->
                    IF level[t][k] + REPLENISH[t] >= MAX_TOKENS[t]
                    THEN MAX_TOKENS[t]
                    ELSE level[t][k] + REPLENISH[t]]]
    /\ out' = NoAnswer

Next ==
    \/ \E t \in Table, k \in Key : Grant(t, k) \/ Refuse(t, k)
    \/ Refill

Spec == Init /\ [][Next]_vars

=============================================================================
