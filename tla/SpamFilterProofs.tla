-------------------------- MODULE SpamFilterProofs --------------------------
(***************************************************************************)
(* Theorems about the spam filter, for every family of tables that meets    *)
(* the static_asserts of the source: its maps stay well-formed, it never    *)
(* grants more than its budget, and it implements TokenBucket.              *)
(***************************************************************************)
EXTENDS SpamFilter, TLAPS

-----------------------------------------------------------------------------
\* Lemmas about the operators of CTMap.

\* The bucket that map m stands for at key k.
Bucketed(m, k, max) == IF k \in DOMAIN m THEN m[k] ELSE max

\* The constructor's map is a well-formed map with full buckets.
LEMMA EmptyMapFacts ==
    ASSUME NEW K, NEW max \in 1..255
    PROVE  /\ EmptyMap \in Maps(K, max)
           /\ \A k \in K : Bucketed(EmptyMap, k, max) = max
  BY DEF EmptyMap, Maps, Bucketed

\* A well-formed map is a function on some of the keys.
LEMMA MapsFacts ==
    ASSUME NEW K, NEW max \in 1..255, NEW m \in Maps(K, max)
    PROVE  /\ DOMAIN m \subseteq K
           /\ m \in [DOMAIN m -> 0..(max - 1)]
           /\ \A k \in K : Bucketed(m, k, max) \in 0..max
  BY DEF Maps, Bucketed

\* The numbers of one table, from the static_asserts.
LEMMA TableFacts ==
    ASSUME NEW t \in Table
    PROVE  /\ MAX_TOKENS[t] \in 1..255
           /\ WITHDRAW[t] \in 1..MAX_TOKENS[t]
           /\ REPLENISH[t] \in 1..255
<1>1. /\ MAX_TOKENS[t] \in 1..255
      /\ WITHDRAW[t] \in 1..255
      /\ REPLENISH[t] \in 1..255
      /\ WITHDRAW[t] <= MAX_TOKENS[t]
  BY TableAssumption
<1>2. QED
  BY <1>1

\* withdraw keeps a map well-formed, takes delta from the key's bucket when
\* it answers TRUE, and touches no other bucket.
LEMMA WithdrawnFacts ==
    ASSUME NEW t \in Table, NEW m \in Maps(Key, MAX_TOKENS[t]),
           NEW key \in Key, NEW k \in Key
    PROVE  /\ Withdrawn(m, key, MAX_TOKENS[t], WITHDRAW[t]) \in Maps(Key, MAX_TOKENS[t])
           /\ CanWithdraw(m, key, WITHDRAW[t])
                <=> Bucketed(m, key, MAX_TOKENS[t]) >= WITHDRAW[t]
           /\ Bucketed(Withdrawn(m, key, MAX_TOKENS[t], WITHDRAW[t]), k, MAX_TOKENS[t])
                = IF k = key /\ CanWithdraw(m, key, WITHDRAW[t])
                  THEN Bucketed(m, k, MAX_TOKENS[t]) - WITHDRAW[t]
                  ELSE Bucketed(m, k, MAX_TOKENS[t])
<1> DEFINE max == MAX_TOKENS[t]
           delta == WITHDRAW[t]
           w == Withdrawn(m, key, max, delta)
<1>a. max \in 1..255 /\ delta \in 1..max /\ m \in Maps(Key, max)
  BY TableFacts
<1> HIDE DEF max, delta
<1>0. /\ w \in Maps(Key, max)
      /\ CanWithdraw(m, key, delta) <=> Bucketed(m, key, max) >= delta
      /\ Bucketed(w, k, max) = IF k = key /\ CanWithdraw(m, key, delta)
                               THEN Bucketed(m, k, max) - delta
                               ELSE Bucketed(m, k, max)
  <2>1. /\ DOMAIN m \subseteq Key
        /\ m \in [DOMAIN m -> 0..(max - 1)]
    BY <1>a, MapsFacts
  <2>2. CASE key \notin DOMAIN m
    <3>1. w = [j \in DOMAIN m \cup {key} |-> IF j = key THEN max - delta ELSE m[j]]
      BY <1>a, <2>2 DEF Withdrawn
    <3>2. w \in [DOMAIN m \cup {key} -> 0..(max - 1)]
      BY <1>a, <2>1, <3>1
    <3>3. w \in Maps(Key, max)
      BY <1>a, <2>1, <3>2 DEF Maps
    <3>4. QED
      BY <1>a, <2>1, <2>2, <3>1, <3>3 DEF CanWithdraw, Bucketed
  <2>3. CASE key \in DOMAIN m /\ m[key] < delta
    BY <1>a, <2>1, <2>3 DEF Withdrawn, CanWithdraw, Bucketed
  <2>4. CASE key \in DOMAIN m /\ ~ (m[key] < delta)
    <3>1. w = [m EXCEPT ![key] = m[key] - delta]
      BY <1>a, <2>4 DEF Withdrawn
    <3>2. w \in [DOMAIN m -> 0..(max - 1)]
      BY <1>a, <2>1, <2>4, <3>1
    <3>3. w \in Maps(Key, max)
      BY <1>a, <2>1, <3>2 DEF Maps
    <3>4. QED
      BY <1>a, <2>1, <2>4, <3>1, <3>3 DEF CanWithdraw, Bucketed
  <2>5. QED
    BY <1>a, <2>2, <2>3, <2>4
<1>b. QED
  BY <1>0 DEF max, delta

\* replenish keeps a map well-formed and adds delta to every bucket, up to max.
LEMMA ReplenishedFacts ==
    ASSUME NEW t \in Table, NEW m \in Maps(Key, MAX_TOKENS[t]), NEW k
    PROVE  /\ Replenished(m, MAX_TOKENS[t], REPLENISH[t]) \in Maps(Key, MAX_TOKENS[t])
           /\ k \in Key =>
                Bucketed(Replenished(m, MAX_TOKENS[t], REPLENISH[t]), k, MAX_TOKENS[t])
                  = IF Bucketed(m, k, MAX_TOKENS[t]) + REPLENISH[t] >= MAX_TOKENS[t]
                    THEN MAX_TOKENS[t]
                    ELSE Bucketed(m, k, MAX_TOKENS[t]) + REPLENISH[t]
<1> DEFINE max == MAX_TOKENS[t]
           delta == REPLENISH[t]
           r == Replenished(m, max, delta)
           S == {j \in DOMAIN m : m[j] + delta < max}
<1>a. max \in 1..255 /\ delta \in 1..255 /\ m \in Maps(Key, max)
  BY TableFacts
<1> HIDE DEF max, delta
<1>0. /\ r \in Maps(Key, max)
      /\ k \in Key => Bucketed(r, k, max) = IF Bucketed(m, k, max) + delta >= max
                                            THEN max ELSE Bucketed(m, k, max) + delta
  <2>1. /\ DOMAIN m \subseteq Key
        /\ m \in [DOMAIN m -> 0..(max - 1)]
    BY <1>a, MapsFacts
  <2>2. r = [j \in S |-> m[j] + delta]
    BY DEF Replenished
  <2>3. r \in [S -> 0..(max - 1)]
    <3>1. ASSUME NEW j \in S PROVE m[j] + delta \in 0..(max - 1)
      <4>1. j \in DOMAIN m /\ m[j] + delta < max
        OBVIOUS
      <4>2. m[j] \in 0..(max - 1)
        BY <1>a, <2>1, <4>1
      <4>3. QED
        BY <1>a, <4>1, <4>2
    <3> HIDE DEF r, S
    <3>2. QED
      BY <1>a, <2>2, <3>1
  <2>4. r \in Maps(Key, max)
    BY <1>a, <2>1, <2>3 DEF Maps
  <2>5. ASSUME k \in Key
        PROVE  Bucketed(r, k, max)
                 = IF Bucketed(m, k, max) + delta >= max
                   THEN max ELSE Bucketed(m, k, max) + delta
    <3>1. CASE k \in DOMAIN m
      <4>1. m[k] \in 0..(max - 1)
        BY <1>a, <2>1, <3>1
      <4>2. CASE m[k] + delta < max
        <5>1. k \in S
          BY <1>a, <3>1, <4>2
        <5>2. k \in DOMAIN r /\ r[k] = m[k] + delta
          BY <1>a, <2>2, <5>1
        <5> HIDE DEF r, S
        <5>3. QED
          BY <1>a, <3>1, <4>1, <4>2, <5>2 DEF Bucketed
      <4>3. CASE ~ (m[k] + delta < max)
        <5>1. k \notin S
          BY <1>a, <4>3
        <5>2. k \notin DOMAIN r
          BY <1>a, <2>2, <5>1
        <5> HIDE DEF r, S
        <5>3. QED
          BY <1>a, <3>1, <4>1, <4>3, <5>2 DEF Bucketed
      <4>4. QED
        BY <1>a, <4>2, <4>3
    <3>2. CASE k \notin DOMAIN m
      BY <1>a, <2>2, <3>2 DEF Bucketed
    <3>3. QED
      BY <1>a, <3>1, <3>2
  <2>6. QED
    BY <1>a, <2>4, <2>5
<1>b. QED
  BY <1>0 DEF max, delta

-----------------------------------------------------------------------------
\* What a check does to the state: only the asked key's bucket and its
\* account of granted tokens can change, and they change together.
LEMMA SpamCheckFacts ==
    ASSUME TypeOK, NEW t \in Table, NEW key \in Key, SpamCheck(t, key)
    PROVE  LET ok == CanWithdraw(map[t], key, WITHDRAW[t])
           IN  /\ map' \in [Table -> UNION {Maps(Key, MAX_TOKENS[s]) : s \in Table}]
               /\ \A s \in Table : map'[s] \in Maps(Key, MAX_TOKENS[s])
               /\ spent' \in [Table -> [Key -> Nat]]
               /\ ok <=> Level(t, key) >= WITHDRAW[t]
               /\ out' = <<t, key, ok>>
               /\ Level(t, key)' = IF ok THEN Level(t, key) - WITHDRAW[t] ELSE Level(t, key)
               /\ spent'[t][key] = IF ok THEN spent[t][key] + WITHDRAW[t] ELSE spent[t][key]
               /\ \A s \in Table, k \in Key : <<s, k>> # <<t, key>> =>
                      /\ Level(s, k)' = Level(s, k)
                      /\ spent'[s][k] = spent[s][k]
               /\ epochs' = epochs
<1> DEFINE w == Withdrawn(map[t], key, MAX_TOKENS[t], WITHDRAW[t])
           ok == CanWithdraw(map[t], key, WITHDRAW[t])
           paid == IF ok THEN spent[t][key] + WITHDRAW[t] ELSE spent[t][key]
<1>1. /\ MAX_TOKENS[t] \in 1..255
      /\ WITHDRAW[t] \in 1..MAX_TOKENS[t]
      /\ map[t] \in Maps(Key, MAX_TOKENS[t])
  BY TableFacts DEF TypeOK
<1>2. /\ w \in Maps(Key, MAX_TOKENS[t])
      /\ ok <=> Bucketed(map[t], key, MAX_TOKENS[t]) >= WITHDRAW[t]
      /\ Bucketed(w, key, MAX_TOKENS[t])
           = IF ok THEN Bucketed(map[t], key, MAX_TOKENS[t]) - WITHDRAW[t]
                   ELSE Bucketed(map[t], key, MAX_TOKENS[t])
      /\ \A k \in Key \ {key} :
           Bucketed(w, k, MAX_TOKENS[t]) = Bucketed(map[t], k, MAX_TOKENS[t])
  <2>1. ASSUME NEW k \in Key
        PROVE  Bucketed(w, k, MAX_TOKENS[t])
                 = IF k = key /\ ok THEN Bucketed(map[t], k, MAX_TOKENS[t]) - WITHDRAW[t]
                   ELSE Bucketed(map[t], k, MAX_TOKENS[t])
    BY <1>1, WithdrawnFacts
  <2>2. /\ w \in Maps(Key, MAX_TOKENS[t])
        /\ ok <=> Bucketed(map[t], key, MAX_TOKENS[t]) >= WITHDRAW[t]
    BY <1>1, WithdrawnFacts
  <2> HIDE DEF w, ok
  <2>3. QED
    BY <2>1, <2>2
<1>3. /\ map' = [map EXCEPT ![t] = w]
      /\ out' = <<t, key, ok>>
      /\ spent' = [spent EXCEPT ![t] = [spent[t] EXCEPT ![key] = paid]]
      /\ epochs' = epochs
  BY DEF SpamCheck, TypeOK
<1>4. paid \in Nat
  BY <1>1 DEF TypeOK
<1> HIDE DEF w, ok, paid
<1>5. /\ map' \in [Table -> UNION {Maps(Key, MAX_TOKENS[s]) : s \in Table}]
      /\ \A s \in Table : map'[s] \in Maps(Key, MAX_TOKENS[s])
      /\ map'[t] = w
      /\ \A s \in Table \ {t} : map'[s] = map[s]
  BY <1>2, <1>3 DEF TypeOK
<1>6. /\ spent' \in [Table -> [Key -> Nat]]
      /\ spent'[t][key] = paid
      /\ \A s \in Table, k \in Key : <<s, k>> # <<t, key>> => spent'[s][k] = spent[s][k]
  <2>1. [spent[t] EXCEPT ![key] = paid] \in [Key -> Nat]
    BY <1>4 DEF TypeOK
  <2>2. QED
    BY <1>3, <1>4, <2>1 DEF TypeOK
<1>7. /\ \A s \in Table, k \in Key : Level(s, k) = Bucketed(map[s], k, MAX_TOKENS[s])
      /\ \A s \in Table, k \in Key : Level(s, k)' = Bucketed(map'[s], k, MAX_TOKENS[s])
  BY DEF Level, Bucketed
<1>8. \A s \in Table, k \in Key : <<s, k>> # <<t, key>> => Level(s, k)' = Level(s, k)
  BY <1>2, <1>5, <1>7
<1>9. QED
  BY <1>2, <1>3, <1>5, <1>6, <1>7, <1>8 DEF ok, paid

\* What an epoch does to the state: every bucket gains its refill, up to full.
LEMMA SpamRunEpochFacts ==
    ASSUME TypeOK, SpamRunEpoch
    PROVE  /\ map' \in [Table -> UNION {Maps(Key, MAX_TOKENS[s]) : s \in Table}]
           /\ \A s \in Table : map'[s] \in Maps(Key, MAX_TOKENS[s])
           /\ \A s \in Table, k \in Key :
                Level(s, k)' = IF Level(s, k) + REPLENISH[s] >= MAX_TOKENS[s]
                               THEN MAX_TOKENS[s] ELSE Level(s, k) + REPLENISH[s]
           /\ spent' = spent
           /\ epochs' = epochs + 1
           /\ out' = NoAnswer
<1> DEFINE r(s) == Replenished(map[s], MAX_TOKENS[s], REPLENISH[s])
<1>1. /\ map' = [s \in Table |-> r(s)]
      /\ spent' = spent
      /\ epochs' = epochs + 1
      /\ out' = NoAnswer
  BY DEF SpamRunEpoch
<1>2. ASSUME NEW s \in Table
      PROVE  /\ r(s) \in Maps(Key, MAX_TOKENS[s])
             /\ \A k \in Key :
                  Bucketed(r(s), k, MAX_TOKENS[s])
                    = IF Bucketed(map[s], k, MAX_TOKENS[s]) + REPLENISH[s] >= MAX_TOKENS[s]
                      THEN MAX_TOKENS[s]
                      ELSE Bucketed(map[s], k, MAX_TOKENS[s]) + REPLENISH[s]
  <2>1. /\ MAX_TOKENS[s] \in 1..255
        /\ REPLENISH[s] \in 1..255
        /\ map[s] \in Maps(Key, MAX_TOKENS[s])
    BY TableFacts DEF TypeOK
  <2>2. r(s) \in Maps(Key, MAX_TOKENS[s])
    BY <2>1, ReplenishedFacts
  <2>3. ASSUME NEW k \in Key
        PROVE  Bucketed(r(s), k, MAX_TOKENS[s])
                 = IF Bucketed(map[s], k, MAX_TOKENS[s]) + REPLENISH[s] >= MAX_TOKENS[s]
                   THEN MAX_TOKENS[s]
                   ELSE Bucketed(map[s], k, MAX_TOKENS[s]) + REPLENISH[s]
    BY <2>1, ReplenishedFacts
  <2>4. QED
    BY <2>2, <2>3
<1> HIDE DEF r
<1>3. \A s \in Table, k \in Key :
        /\ Level(s, k) = Bucketed(map[s], k, MAX_TOKENS[s])
        /\ Level(s, k)' = Bucketed(map'[s], k, MAX_TOKENS[s])
  BY DEF Level, Bucketed
<1>4. QED
  BY <1>1, <1>2, <1>3

-----------------------------------------------------------------------------
\* Type correctness: stored counters stay below the size of their bucket.
THEOREM SpamTypeCorrect == Spec => []TypeOK
<1>1. Init => TypeOK
  <2> SUFFICES ASSUME Init PROVE TypeOK
    OBVIOUS
  <2>1. \A t \in Table : EmptyMap \in Maps(Key, MAX_TOKENS[t])
    BY EmptyMapFacts, TableFacts
  <2>2. QED
    BY <2>1 DEF Init, TypeOK
<1>2. TypeOK /\ [Next]_vars => TypeOK'
  <2> SUFFICES ASSUME TypeOK, [Next]_vars PROVE TypeOK'
    OBVIOUS
  <2>1. ASSUME NEW t \in Table, NEW key \in Key, SpamCheck(t, key)
        PROVE  TypeOK'
    <3>1. CanWithdraw(map[t], key, WITHDRAW[t]) \in BOOLEAN
      BY DEF CanWithdraw
    <3>2. out' \in (Table \X Key \X BOOLEAN) \cup {NoAnswer}
      BY <2>1, <3>1, SpamCheckFacts
    <3>3. /\ map' \in [Table -> UNION {Maps(Key, MAX_TOKENS[s]) : s \in Table}]
          /\ \A s \in Table : map'[s] \in Maps(Key, MAX_TOKENS[s])
          /\ spent' \in [Table -> [Key -> Nat]]
          /\ epochs' = epochs
      BY <2>1, SpamCheckFacts
    <3>4. epochs' \in Nat
      BY <3>3 DEF TypeOK
    <3>5. QED
      BY <3>2, <3>3, <3>4, Zenon DEF TypeOK
  <2>2. CASE SpamRunEpoch
    <3>1. /\ map' \in [Table -> UNION {Maps(Key, MAX_TOKENS[s]) : s \in Table}]
          /\ \A s \in Table : map'[s] \in Maps(Key, MAX_TOKENS[s])
          /\ spent' = spent /\ epochs' = epochs + 1 /\ out' = NoAnswer
      BY <2>2, SpamRunEpochFacts
    <3>2. spent \in [Table -> [Key -> Nat]] /\ epochs + 1 \in Nat
      BY DEF TypeOK
    <3>3. QED
      BY <3>1, <3>2, Zenon DEF TypeOK
  <2>3. CASE UNCHANGED vars
    BY <2>3 DEF vars, TypeOK
  <2>4. QED
    BY <2>1, <2>2, <2>3 DEF Next
<1>3. QED
  BY <1>1, <1>2, PTL DEF Spec

\* Budget: a key is never granted more than a full bucket and the refills of
\* the epochs run so far.  Budget is inductive together with TypeOK.
THEOREM SpamBudget == Spec => []Budget
<1>1. Init => Budget
  <2> SUFFICES ASSUME Init, NEW t \in Table, NEW k \in Key
               PROVE  spent[t][k] + Level(t, k) <= MAX_TOKENS[t] + epochs * REPLENISH[t]
    BY DEF Budget
  <2>1. MAX_TOKENS[t] \in 1..255 /\ REPLENISH[t] \in 1..255
    BY TableFacts
  <2>2. spent[t][k] = 0 /\ epochs = 0 /\ Level(t, k) = MAX_TOKENS[t]
    BY DEF Init, Level, EmptyMap
  <2>3. QED
    BY <2>1, <2>2
<1>2. TypeOK /\ Budget /\ [Next]_vars => Budget'
  <2> SUFFICES ASSUME TypeOK, Budget, [Next]_vars,
                      NEW s \in Table, NEW k \in Key
               PROVE  spent'[s][k] + Level(s, k)' <= MAX_TOKENS[s] + epochs' * REPLENISH[s]
    BY DEF Budget
  <2>1. /\ MAX_TOKENS[s] \in 1..255
        /\ REPLENISH[s] \in 1..255
        /\ WITHDRAW[s] \in 1..255
        /\ epochs \in Nat
        /\ spent[s][k] \in Nat
        /\ spent[s][k] + Level(s, k) <= MAX_TOKENS[s] + epochs * REPLENISH[s]
    BY TableAssumption DEF TypeOK, Budget
  <2>2. Level(s, k) \in 0..MAX_TOKENS[s]
    <3>1. Bucketed(map[s], k, MAX_TOKENS[s]) \in 0..MAX_TOKENS[s]
      BY <2>1, MapsFacts DEF TypeOK
    <3>2. QED
      BY <3>1 DEF Level, Bucketed
  <2> DEFINE owed == epochs * REPLENISH[s]
             was  == Level(s, k)
             is   == Level(s, k)'
  <2>3. owed \in Nat /\ (epochs + 1) * REPLENISH[s] = owed + REPLENISH[s]
    BY <2>1
  <2>4. ASSUME NEW t \in Table, NEW key \in Key, SpamCheck(t, key)
        PROVE  spent'[s][k] + Level(s, k)' <= MAX_TOKENS[s] + epochs' * REPLENISH[s]
    <3>1. epochs' = epochs
      BY <2>4 DEF SpamCheck
    <3>2. \/ /\ is = was - WITHDRAW[s]
             /\ spent'[s][k] = spent[s][k] + WITHDRAW[s]
          \/ /\ is = was
             /\ spent'[s][k] = spent[s][k]
      <4>1. CASE <<s, k>> = <<t, key>>
        BY <2>4, <4>1, SpamCheckFacts
      <4>2. CASE <<s, k>> # <<t, key>>
        BY <2>4, <4>2, SpamCheckFacts
      <4>3. QED
        BY <4>1, <4>2
    <3>3. /\ was \in 0..MAX_TOKENS[s]
          /\ spent[s][k] + was <= MAX_TOKENS[s] + owed
      BY <2>1, <2>2
    <3>4. spent'[s][k] + is <= MAX_TOKENS[s] + owed
      <4>1. /\ MAX_TOKENS[s] \in Int
            /\ WITHDRAW[s] \in Int
            /\ spent[s][k] \in Int
            /\ was \in Int
            /\ owed \in Int
        BY <2>1, <2>3, <3>3
      <4> HIDE DEF owed, was, is
      <4> QED
        BY <3>2, <3>3, <4>1
    <3>5. QED
      BY <3>1, <3>4
  <2>5. CASE SpamRunEpoch
    <3>1. /\ is = IF was + REPLENISH[s] >= MAX_TOKENS[s]
                  THEN MAX_TOKENS[s] ELSE was + REPLENISH[s]
          /\ spent'[s][k] = spent[s][k]
          /\ epochs' = epochs + 1
      BY <2>5, SpamRunEpochFacts
    <3>2. /\ was \in 0..MAX_TOKENS[s]
          /\ spent[s][k] + was <= MAX_TOKENS[s] + owed
      BY <2>1, <2>2
    <3>3. spent[s][k] + is <= MAX_TOKENS[s] + (owed + REPLENISH[s])
      <4>1. /\ MAX_TOKENS[s] \in Int
            /\ REPLENISH[s] \in Nat
            /\ spent[s][k] \in Int
            /\ was \in Int
            /\ owed \in Int
        <5>1. owed \in Int
          BY <2>3
        <5>2. was \in Int
          BY <2>1, <3>2
        <5> HIDE DEF owed, was, is
        <5>3. QED
          BY <2>1, <5>1, <5>2
      <4> HIDE DEF owed, was, is
      <4> QED
        BY <3>1, <3>2, <4>1
    <3>4. QED
      BY <2>3, <3>1, <3>3
  <2>6. CASE UNCHANGED vars
    BY <2>1, <2>6 DEF vars, Level
  <2>7. QED
    BY <2>4, <2>5, <2>6 DEF Next
<1>3. QED
  BY <1>1, <1>2, SpamTypeCorrect, PTL DEF Spec

\* Refinement: under the mapping of Level, every behaviour of the sparse maps
\* is a behaviour of TokenBucket, answers included.
THEOREM SpamImplementsBuckets == Spec => ImplementsBuckets
<1> DEFINE lev == [t \in Table |-> [k \in Key |-> Level(t, k)]]
<1>1. Init => Bucket!Init
  <2> SUFFICES ASSUME Init PROVE Bucket!Init
    OBVIOUS
  <2>1. \A t \in Table, k \in Key : Level(t, k) = MAX_TOKENS[t]
    BY DEF Init, Level, EmptyMap
  <2>2. QED
    BY <2>1 DEF Init, Bucket!Init
<1>2. TypeOK /\ [Next]_vars => [Bucket!Next]_(Bucket!vars)
  <2> SUFFICES ASSUME TypeOK, [Next]_vars PROVE [Bucket!Next]_(Bucket!vars)
    OBVIOUS
  <2>1. ASSUME NEW t \in Table, NEW key \in Key, SpamCheck(t, key)
        PROVE  Bucket!Next
    <3> DEFINE ok == CanWithdraw(map[t], key, WITHDRAW[t])
    <3>1. /\ ok <=> Level(t, key) >= WITHDRAW[t]
          /\ out' = <<t, key, ok>>
          /\ Level(t, key)' = IF ok THEN Level(t, key) - WITHDRAW[t] ELSE Level(t, key)
          /\ \A s \in Table, k \in Key : <<s, k>> # <<t, key>> => Level(s, k)' = Level(s, k)
      BY <2>1, SpamCheckFacts
    <3>2. Level(t, key) \in Int /\ WITHDRAW[t] \in Int
      <4>1. Bucketed(map[t], key, MAX_TOKENS[t]) \in 0..MAX_TOKENS[t]
        BY TableFacts, MapsFacts DEF TypeOK
      <4>2. QED
        BY <4>1, TableFacts DEF Level, Bucketed
    <3>3. ok \in BOOLEAN
      BY DEF CanWithdraw
    <3> HIDE DEF ok
    <3>4. CASE ok
      <4>1. lev' = [lev EXCEPT ![t] = [lev[t] EXCEPT ![key] = lev[t][key] - WITHDRAW[t]]]
        BY <3>1, <3>4
      <4>2. Bucket!Grant(t, key)
        BY <3>1, <3>3, <3>4, <4>1 DEF Bucket!Grant
      <4>3. QED
        BY <4>2 DEF Bucket!Next
    <3>5. CASE ~ ok
      <4>1. lev' = lev
        BY <3>1, <3>5
      <4>2. lev[t][key] < WITHDRAW[t]
        BY <3>1, <3>2, <3>5
      <4>3. out' = <<t, key, FALSE>>
        BY <3>1, <3>3, <3>5
      <4>4. Bucket!Refuse(t, key)
        BY <4>1, <4>2, <4>3 DEF Bucket!Refuse
      <4>5. QED
        BY <4>4 DEF Bucket!Next
    <3>6. QED
      BY <3>4, <3>5
  <2>2. CASE SpamRunEpoch
    <3>1. Bucket!Refill
      BY <2>2, SpamRunEpochFacts DEF Bucket!Refill
    <3>2. QED
      BY <3>1 DEF Bucket!Next
  <2>3. CASE UNCHANGED vars
    BY <2>3 DEF vars, Level, Bucket!vars
  <2>4. QED
    BY <2>1, <2>2, <2>3 DEF Next
<1>3. QED
  BY <1>1, <1>2, SpamTypeCorrect, PTL DEF Spec, ImplementsBuckets, Bucket!Spec

=============================================================================
