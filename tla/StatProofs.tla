----------------------------- MODULE StatProofs -----------------------------
(***************************************************************************)
(* The statistics keep their schedules and their periods, and their files   *)
(* what was counted in one life, for any periods, counters and number of    *)
(* lives, deaths and files that cannot be opened.                           *)
(***************************************************************************)
EXTENDS Stat, TLAPS

\* What a file consists of.
CsvNames == {<<"time", 0>>} \cup ({"stat"} \X (1..(ST_END - 2)))
AuxNames == ({"dkad"} \X Dkads) \cup ({"gp_hops"} \X Hops)
Headers == [kind : {"header"}, life : Nat, cols : {Columns("csv"), Columns("csv_aux")}]
Rows == [kind : {"row"}, life : Nat, cols : Seq(Nat), counted : [CsvNames -> Nat]]
RowsAux == [kind : {"row"}, life : Nat, cols : Seq(Nat), counted : [AuxNames -> Nat]]
Line == Headers \cup Rows \cup RowsAux

\* The types of everything.
Types ==
    /\ clock \in Nat /\ st_time_now \in Nat /\ st_time_old \in Nat
    /\ life \in Nat /\ rollovers \in Nat /\ beats \in Nat
    /\ opened \subseteq File /\ missed \in [File -> Nat]
    /\ summed \in [Ctr -> Int] /\ spanned \in Int /\ born \in Nat
    /\ csv \in Seq(Line) /\ csv_aux \in Seq(Line)
    /\ TypeOK

\* While no process runs, the counters and the history are as st_init finds
\* them.
Down ==
    ~ up => /\ spanned = 0 /\ rollovers = 0 /\ write_csv = 0
            /\ missed = [f \in File |-> 0]

\* The inductive invariant.
IInv == Types /\ Down /\ PeriodsAddUp /\ Schedule

-----------------------------------------------------------------------------
\* A schedule moves on by one, or starts over at the last of its steps.
LEMMA NextMultiple ==
    ASSUME NEW b \in Int, NEW e \in Int
    PROVE  (b + 1) * e = b * e + e
  OBVIOUS

\* No row is due at the start.
LEMMA NoRows ==
    ASSUME NEW n \in Int, n = 0, NEW e \in Int
    PROVE  n * e + 0 = 0
  OBVIOUS

\* What is counted and what is set are counters.
LEMMA CountersAreStats == Ctr \subseteq stat /\ Gauge \subseteq stat
  BY StatAssumption DEF stat

\* Types at the start.
LEMMA InitTypes == Init => IInv
<1> SUFFICES ASSUME Init PROVE IInv
  OBVIOUS
<1>1. Types
  <2>1. TypeOK
    BY StatAssumption DEF Init, TypeOK, Zero
  <2>2. csv \in Seq(Line) /\ csv_aux \in Seq(Line)
    BY DEF Init
  <2>3. missed \in [File -> Nat] /\ summed \in [Ctr -> Int]
    BY DEF Init
  <2> QED
    BY <2>1, <2>2, <2>3 DEF Init, Types
<1>2. Down /\ PeriodsAddUp /\ Schedule
  <2>1. Down
    BY DEF Init, Down
  <2>2. PeriodsAddUp
    BY CountersAreStats DEF Init, PeriodsAddUp, Zero
  <2>3. Schedule
    BY StatAssumption DEF Init, Schedule
  <2> QED
    BY <2>1, <2>2, <2>3
<1> QED
  BY <1>1, <1>2 DEF IInv

\* What st_rollover says of a row of the counters: its values, by position.
LEMMA CsvRow ==
    ASSUME NEW ctr \in [stat -> Nat], NEW t \in Nat
    PROVE  /\ Row(ctr, t).cols \in Seq(Nat) /\ Len(Row(ctr, t).cols) = ST_END - 1
           /\ Row(ctr, t).cols[1] = t
           /\ \A p \in 2..(ST_END - 1) : Row(ctr, t).cols[p] = ctr[p - 1]
           /\ Row(ctr, t).counted = Counted("csv", ctr, t)
           /\ Counted("csv", ctr, t) \in [CsvNames -> Nat]
<1> USE StatAssumption
<1>1. PICK s : s = [ix \in 1..(ST_END - 2) |-> ctr[ix]]
  OBVIOUS
<1>2. s \in Seq(Nat) /\ Len(s) = ST_END - 2
  <2>1. \A ix \in 1..(ST_END - 2) : ctr[ix] \in Nat
    BY DEF stat
  <2>2. ST_END - 2 \in Nat
    OBVIOUS
  <2>3. QED
    BY <1>1, <2>1, <2>2
<1>3. <<t>> \in Seq(Nat) /\ Len(<<t>>) = 1 /\ <<t>>[1] = t
  OBVIOUS
<1>4. PICK r : r = <<t>> \o s
  OBVIOUS
<1>5. /\ r \in Seq(Nat) /\ Len(r) = ST_END - 1 /\ r[1] = t
      /\ \A p \in 2..(ST_END - 1) : r[p] = s[p - 1]
  BY <1>2, <1>3, <1>4
<1>6. \A p \in 2..(ST_END - 1) : r[p] = ctr[p - 1]
  BY <1>1, <1>5
<1>7. Row(ctr, t).cols = r /\ Row(ctr, t).counted = Counted("csv", ctr, t)
  BY <1>1, <1>4 DEF Row
<1>8. Counted("csv", ctr, t) \in [CsvNames -> Nat]
  <2>1. Counted("csv", ctr, t) =
           [c \in CsvNames |-> IF c[1] = "time" THEN t ELSE ctr[c[2]]]
    BY DEF Counted, CsvNames
  <2>2. ASSUME NEW c \in CsvNames PROVE (IF c[1] = "time" THEN t ELSE ctr[c[2]]) \in Nat
    <3>1. CASE c = <<"time", 0>>
      BY <3>1
    <3>2. CASE c \in {"stat"} \X (1..(ST_END - 2))
      BY <3>2 DEF stat
    <3>3. QED
      BY <3>1, <3>2 DEF CsvNames
  <2>3. QED
    BY <2>1, <2>2
<1>9. QED
  BY <1>5, <1>6, <1>7, <1>8

\* And of a row of the distances and hops.
LEMMA AuxRow ==
    ASSUME g_dkad_ctr \in [Dkads -> Nat], g_n_hops_ctr \in [Hops -> Nat]
    PROVE  /\ RowAux.cols \in Seq(Nat) /\ Len(RowAux.cols) = DKAD_MAX + 1 + GP_MAX_HOPS
           /\ \A p \in 1..(DKAD_MAX + 1) : RowAux.cols[p] = g_dkad_ctr[p - 1]
           /\ \A p \in (DKAD_MAX + 2)..(DKAD_MAX + 1 + GP_MAX_HOPS) :
                 RowAux.cols[p] = g_n_hops_ctr[p - DKAD_MAX - 2]
           /\ RowAux.counted = Counted("csv_aux", g_ctr, 0)
           /\ \A ctr, t : Counted("csv_aux", ctr, t) \in [AuxNames -> Nat]
<1> USE StatAssumption
<1>1. PICK s : s = [i \in 1..(DKAD_MAX + 1) |-> g_dkad_ctr[i - 1]]
  OBVIOUS
<1>2. PICK u : u = [i \in 1..GP_MAX_HOPS |-> g_n_hops_ctr[i - 1]]
  OBVIOUS
<1>3. s \in Seq(Nat) /\ Len(s) = DKAD_MAX + 1
  <2>1. \A i \in 1..(DKAD_MAX + 1) : g_dkad_ctr[i - 1] \in Nat
    BY DEF Dkads
  <2>2. DKAD_MAX + 1 \in Nat
    OBVIOUS
  <2>3. QED
    BY <1>1, <2>1, <2>2
<1>4. u \in Seq(Nat) /\ Len(u) = GP_MAX_HOPS
  <2>1. \A i \in 1..GP_MAX_HOPS : g_n_hops_ctr[i - 1] \in Nat
    BY DEF Hops
  <2>2. QED
    BY <1>2, <2>1
<1>5. PICK r : r = s \o u
  OBVIOUS
<1>6. /\ r \in Seq(Nat) /\ Len(r) = DKAD_MAX + 1 + GP_MAX_HOPS
      /\ \A p \in 1..(DKAD_MAX + 1) : r[p] = s[p]
      /\ \A p \in (DKAD_MAX + 2)..(DKAD_MAX + 1 + GP_MAX_HOPS) : r[p] = u[p - (DKAD_MAX + 1)]
  <2>1. /\ r \in Seq(Nat) /\ Len(r) = Len(s) + Len(u)
        /\ \A p \in 1..Len(s) : r[p] = s[p]
        /\ \A p \in (Len(s) + 1)..(Len(s) + Len(u)) : r[p] = u[p - Len(s)]
    <3>1. s \in Seq(Nat) /\ u \in Seq(Nat)
      BY <1>3, <1>4
    <3>2. QED
      BY <1>5, <3>1
  <2>2. DKAD_MAX + 2 = Len(s) + 1 /\ DKAD_MAX + 1 + GP_MAX_HOPS = Len(s) + Len(u)
    BY <1>3, <1>4
  <2>3. QED
    BY <1>3, <2>1, <2>2
<1>7. \A p \in 1..(DKAD_MAX + 1) : r[p] = g_dkad_ctr[p - 1]
  BY <1>1, <1>6
<1>8. \A p \in (DKAD_MAX + 2)..(DKAD_MAX + 1 + GP_MAX_HOPS) :
         r[p] = g_n_hops_ctr[p - DKAD_MAX - 2]
  BY <1>2, <1>6
<1>9. RowAux.cols = r /\ RowAux.counted = Counted("csv_aux", g_ctr, 0)
  BY <1>1, <1>2, <1>5 DEF RowAux
<1>10. ASSUME NEW ctr, NEW t PROVE Counted("csv_aux", ctr, t) \in [AuxNames -> Nat]
  <2>1. Counted("csv_aux", ctr, t) =
           [c \in AuxNames |-> IF c[1] = "dkad" THEN g_dkad_ctr[c[2]] ELSE g_n_hops_ctr[c[2]]]
    BY DEF Counted, AuxNames
  <2>2. ASSUME NEW c \in AuxNames
        PROVE  (IF c[1] = "dkad" THEN g_dkad_ctr[c[2]] ELSE g_n_hops_ctr[c[2]]) \in Nat
    <3>1. CASE c \in {"dkad"} \X Dkads
      BY <3>1
    <3>2. CASE c \in {"gp_hops"} \X Hops
      BY <3>2
    <3>3. QED
      BY <3>1, <3>2 DEF AuxNames
  <2>3. QED
    BY <2>1, <2>2
<1>11. QED
  BY <1>6, <1>7, <1>8, <1>9, <1>10

\* The rows that st_rollover writes are lines.
LEMMA RowsAreLines ==
    ASSUME life \in Nat, g_dkad_ctr \in [Dkads -> Nat], g_n_hops_ctr \in [Hops -> Nat]
    PROVE  RowAux \in Line /\ \A ctr \in [stat -> Nat], t \in Nat : Row(ctr, t) \in Line
<1>1. RowAux \in Line
  <2>1. RowAux.cols \in Seq(Nat) /\ RowAux.counted \in [AuxNames -> Nat]
    BY AuxRow
  <2>2. RowAux = [kind |-> "row", life |-> life, cols |-> RowAux.cols,
                  counted |-> RowAux.counted]
    BY DEF RowAux
  <2>3. QED
    BY <2>1, <2>2 DEF RowsAux, Line
<1>2. ASSUME NEW ctr \in [stat -> Nat], NEW t \in Nat PROVE Row(ctr, t) \in Line
  <2>1. Row(ctr, t).cols \in Seq(Nat) /\ Row(ctr, t).counted \in [CsvNames -> Nat]
    BY CsvRow
  <2>2. Row(ctr, t) = [kind |-> "row", life |-> life, cols |-> Row(ctr, t).cols,
                       counted |-> Row(ctr, t).counted]
    BY DEF Row
  <2>3. QED
    BY <2>1, <2>2 DEF Rows, Line
<1>3. QED
  BY <1>1, <1>2

\* A start keeps the invariant.
LEMMA StInitKeeps == ASSUME IInv, NEW ok \in SUBSET File, StInit(ok) PROVE IInv'
<1>1. Types'
  <2>1. ASSUME NEW f \in File PROVE Header(f) \in Line
    <3>1. life' \in Nat
      BY DEF StInit, IInv, Types
    <3>2. Columns(f) \in {Columns("csv"), Columns("csv_aux")}
      BY DEF File
    <3>3. Header(f) \in Headers
      BY <3>1, <3>2 DEF Header, Headers
    <3> QED
      BY <3>3 DEF Line
  <2>2. csv' \in Seq(Line) /\ csv_aux' \in Seq(Line)
    BY <2>1 DEF StInit, Created, File, IInv, Types
  <2> QED
    BY <2>2 DEF StInit, IInv, Types, TypeOK, RolloverTime, counts, hooks
<1>2. Down'
  BY DEF StInit, Down
<1>3. PeriodsAddUp'
  BY DEF StInit, IInv, Types, Down, PeriodsAddUp, RolloverTime, counts, hooks
<1>4. Schedule'
  <2>1. rollovers' = beats' * STAT_HB_EVERY + next_heartbeat'
    BY DEF StInit, hooks, IInv, Schedule
  <2>2. rollovers' = 0 /\ write_csv' = 0 /\ missed' = [f \in File |-> 0]
    BY DEF StInit, hooks, IInv, Down
  <2>3. \A f \in File : missed'[f] = 0
    BY <2>2
  <2>4. "csv" \in opened' =>
           (Len(csv') - 1 + missed'["csv"]) * STAT_CSV_EVERY + write_csv' = rollovers'
    <3>1. "csv" \in opened' => Len(csv') = 1
      BY DEF StInit, Created
    <3>2. missed'["csv"] = 0
      BY <2>3 DEF File
    <3>3. "csv" \in opened' => Len(csv') - 1 + missed'["csv"] = 0
      BY <3>1, <3>2
    <3>4. STAT_CSV_EVERY \in Int
      BY StatAssumption
    <3> QED
      BY <2>2, <3>3, <3>4, NoRows
  <2>5. "csv_aux" \in opened' =>
           (Len(csv_aux') - 1 + missed'["csv_aux"]) * STAT_CSV_EVERY + write_csv' = rollovers'
    <3>1. "csv_aux" \in opened' => Len(csv_aux') = 1
      BY DEF StInit, Created
    <3>2. missed'["csv_aux"] = 0
      BY <2>3 DEF File
    <3>3. "csv_aux" \in opened' => Len(csv_aux') - 1 + missed'["csv_aux"] = 0
      BY <3>1, <3>2
    <3>4. STAT_CSV_EVERY \in Int
      BY StatAssumption
    <3> QED
      BY <2>2, <3>3, <3>4, NoRows
  <2> QED
    BY <2>1, <2>4, <2>5 DEF Schedule
<1> QED
  BY <1>1, <1>2, <1>3, <1>4 DEF IInv

\* Counting keeps the invariant.
LEMMA CountKeeps ==
    ASSUME IInv, \/ \E s \in Ctr : StInc(s)
                 \/ \E d \in Dkads : StClickDkad(d)
                 \/ \E n \in Hops : StClickGpNHops(n)
    PROVE  IInv'
<1>1. CASE \E s \in Ctr : StInc(s)
  <2>1. PICK s \in Ctr : StInc(s)
    BY <1>1
  <2>2. Types'
    BY <2>1, CountersAreStats DEF StInc, IInv, Types, TypeOK, clocks, hooks, files
  <2>3. Down' /\ Schedule'
    BY <2>1 DEF StInc, IInv, Down, Schedule, clocks, hooks, files
  <2>4. PeriodsAddUp'
    BY <2>1, CountersAreStats DEF StInc, IInv, Types, TypeOK, PeriodsAddUp, clocks, hooks, files
  <2> QED
    BY <2>2, <2>3, <2>4 DEF IInv
<1>2. CASE \E n \in Hops : StClickGpNHops(n)
  <2>1. PICK n \in Hops : StClickGpNHops(n)
    BY <1>2
  <2>2. Types'
    BY <2>1 DEF StClickGpNHops, IInv, Types, TypeOK, clocks, hooks, files
  <2>3. Down' /\ Schedule'
    BY <2>1 DEF StClickGpNHops, IInv, Down, Schedule, clocks, hooks, files
  <2>4. PeriodsAddUp'
    BY <2>1 DEF StClickGpNHops, IInv, PeriodsAddUp, clocks, hooks, files
  <2> QED
    BY <2>2, <2>3, <2>4 DEF IInv
<1>3. CASE \E d \in Dkads : StClickDkad(d)
  <2>1. PICK d \in Dkads : StClickDkad(d)
    BY <1>3
  <2>2. Types'
    BY <2>1 DEF StClickDkad, IInv, Types, TypeOK, clocks, hooks, files
  <2>3. Down' /\ Schedule'
    BY <2>1 DEF StClickDkad, IInv, Down, Schedule, clocks, hooks, files
  <2>4. PeriodsAddUp'
    BY <2>1 DEF StClickDkad, IInv, PeriodsAddUp, clocks, hooks, files
  <2> QED
    BY <2>2, <2>3, <2>4 DEF IInv
<1> QED
  BY <1>1, <1>2, <1>3

\* A death keeps the invariant, between callbacks or between rows.
LEMMA DeathKeeps ==
    ASSUME IInv, Lost, UNCHANGED <<life, opened>>,
           csv' \in Seq(Line), csv_aux' \in Seq(Line)
    PROVE  IInv'
<1>1. Types'
  <2>1. TypeOK'
    BY StatAssumption DEF Lost, TypeOK, Zero
  <2>2. (missed \in [File -> Nat] /\ summed \in [Ctr -> Int])'
    BY DEF Lost
  <2> QED
    BY <2>1, <2>2 DEF Lost, Types, IInv
<1>2. Down'
  BY DEF Lost, Down
<1>3. PeriodsAddUp'
  BY CountersAreStats DEF Lost, PeriodsAddUp, Zero
<1>4. Schedule'
  BY StatAssumption DEF Lost, Schedule
<1> QED
  BY <1>1, <1>2, <1>3, <1>4 DEF IInv

\* The spam filter leaves the counts as they are.
LEMMA EpochCounts ==
    ASSUME g_ctr \in [stat -> Nat], NEW sizes \in [Gauge -> 0..MaxSize]
    PROVE  Epoch(sizes) \in [stat -> Nat] /\ \A s \in Ctr : Epoch(sizes)[s] = g_ctr[s]
<1>1. \A s \in stat : (IF s \in Gauge THEN sizes[s] ELSE g_ctr[s]) \in Nat
  <2>1. \A s \in Gauge : sizes[s] \in Nat
    BY StatAssumption
  <2>2. QED
    BY <2>1
<1>2. Epoch(sizes) = [s \in stat |-> IF s \in Gauge THEN sizes[s] ELSE g_ctr[s]]
  BY DEF Epoch
<1>3. \A s \in Ctr : s \in stat /\ s \notin Gauge
  BY CountersAreStats, StatAssumption
<1>4. QED
  BY <1>1, <1>2, <1>3

\* The two ways to die.
LEMMA DiesKeep ==
    ASSUME IInv, \/ Die
                 \/ \E sizes \in [Gauge -> 0..MaxSize], t \in Wall, ok \in SUBSET File :
                       DieBetweenRows(sizes, t, ok)
    PROVE  IInv'
<1>1. CASE Die
  <2>1. Lost /\ UNCHANGED <<files, life, opened>>
    BY <1>1 DEF Die
  <2>2. csv' \in Seq(Line) /\ csv_aux' \in Seq(Line)
    BY <2>1 DEF files, IInv, Types
  <2> QED
    BY <2>1, <2>2, DeathKeeps
<1>2. ASSUME NEW sizes \in [Gauge -> 0..MaxSize], NEW t \in Wall, NEW ok \in SUBSET File,
             DieBetweenRows(sizes, t, ok)
      PROVE  IInv'
  <2>1. Lost /\ UNCHANGED <<csv_aux, life, opened>>
    BY <1>2 DEF DieBetweenRows
  <2>2. Epoch(sizes) \in [stat -> Nat] /\ t \in Nat
    BY EpochCounts, StatAssumption DEF IInv, Types, TypeOK
  <2>3. Row(Epoch(sizes), t) \in Line
    BY <2>2, RowsAreLines DEF IInv, Types, TypeOK
  <2>4. csv' \in Seq(Line) /\ csv_aux' \in Seq(Line)
    BY <1>2, <2>1, <2>3 DEF DieBetweenRows, Appended, IInv, Types
  <2> QED
    BY <2>1, <2>4, DeathKeeps
<1> QED
  BY <1>1, <1>2

\* A rollover keeps the types.
LEMMA RolloverTypes ==
    ASSUME IInv, NEW sizes \in [Gauge -> 0..MaxSize], NEW late \in 1..MaxLate,
           NEW t \in Wall, NEW ok \in SUBSET File, StRollover(sizes, late, t, ok)
    PROVE  Types'
<1> USE StatAssumption
<1>1. Roll(sizes, late)
  BY DEF StRollover
<1>2. clock' \in Nat /\ st_time_now' \in Nat /\ st_time_old' \in Nat
  BY <1>1 DEF Roll, RolloverTime, IInv, Types
<1>3. g_ctr' \in [stat -> Nat] /\ g_ctr_old' \in [stat -> Nat]
  <2>1. Epoch(sizes) \in [stat -> Nat]
    BY EpochCounts DEF IInv, Types, TypeOK
  <2> QED
    BY <1>1, <2>1 DEF Roll
<1>4. summed' \in [Ctr -> Int] /\ spanned' \in Int
  BY <1>1, <1>2, <1>3, CountersAreStats DEF Roll, HookSees, IInv, Types, TypeOK
<1>5. ctl_ping_window' \in 0..255
  BY <1>1 DEF Roll, Hook, IInv, Types, TypeOK
<1>6. /\ next_heartbeat' \in 0..(STAT_HB_EVERY - 1) /\ beats' \in Nat
      /\ write_csv' \in 0..(STAT_CSV_EVERY - 1)
  BY <1>1 DEF Roll, Heartbeat, Due, IInv, Types, TypeOK
<1>7. Row(g_ctr', t) \in Line /\ RowAux \in Line
  BY <1>3, RowsAreLines DEF IInv, Types, TypeOK
<1>8. csv' \in Seq(Line) /\ csv_aux' \in Seq(Line)
  BY <1>7 DEF StRollover, Appended, IInv, Types
<1>9. missed' \in [File -> Nat]
  BY DEF StRollover, Missed, IInv, Types
<1>10. UNCHANGED <<g_dkad_ctr, g_n_hops_ctr, life, opened, born>> /\ rollovers' \in Nat
  BY <1>1 DEF StRollover, Roll, IInv, Types
<1>11. TypeOK'
  BY <1>3, <1>5, <1>6, <1>10 DEF TypeOK, IInv, Types
<1> QED
  BY <1>2, <1>4, <1>6, <1>8, <1>9, <1>10, <1>11 DEF Types, IInv

\* What one rollover adds to a file and to what is missing in it is one when a
\* row is due, and nothing else.
LEMMA RowOrMiss ==
    ASSUME IInv, NEW sizes \in [Gauge -> 0..MaxSize], NEW late \in 1..MaxLate,
           NEW t \in Wall, NEW ok \in SUBSET File, StRollover(sizes, late, t, ok)
    PROVE  /\ Len(csv') + missed'["csv"] = Len(csv) + missed["csv"] + IF Due THEN 1 ELSE 0
           /\ Len(csv_aux') + missed'["csv_aux"] =
                 Len(csv_aux) + missed["csv_aux"] + IF Due THEN 1 ELSE 0
<1>1. Len(csv) \in Nat /\ Len(csv_aux) \in Nat /\ csv \in Seq(Line) /\ csv_aux \in Seq(Line)
  BY DEF IInv, Types
<1>2. \A f \in File : missed[f] \in Nat
  BY DEF IInv, Types
<1>3. \A f \in File : missed'[f] = missed[f] + IF Due /\ f \notin ok THEN 1 ELSE 0
  BY DEF StRollover, Missed
<1>4. Row(g_ctr', t) \in Line /\ RowAux \in Line
  <2>1. t \in Nat /\ g_ctr' \in [stat -> Nat]
    BY RolloverTypes, StatAssumption DEF Types, TypeOK
  <2> QED
    BY <2>1, RowsAreLines DEF IInv, Types, TypeOK
<1>5. Len(csv') = Len(csv) + IF Due /\ "csv" \in ok THEN 1 ELSE 0
  BY <1>1, <1>4 DEF StRollover, Appended
<1>6. Len(csv_aux') = Len(csv_aux) + IF Due /\ "csv_aux" \in ok THEN 1 ELSE 0
  BY <1>1, <1>4 DEF StRollover, Appended
<1>7. "csv" \in File /\ "csv_aux" \in File
  BY DEF File
<1>8. Len(csv') + missed'["csv"] = Len(csv) + missed["csv"] + IF Due THEN 1 ELSE 0
  <2>1. missed'["csv"] = missed["csv"] + IF Due /\ "csv" \notin ok THEN 1 ELSE 0
    BY <1>3, <1>7
  <2>2. missed["csv"] \in Nat
    BY <1>2, <1>7
  <2>3. CASE Due
    BY <1>1, <1>5, <2>1, <2>2, <2>3
  <2>4. CASE ~ Due
    BY <1>1, <1>5, <2>1, <2>2, <2>4
  <2> QED
    BY <2>3, <2>4
<1>9. Len(csv_aux') + missed'["csv_aux"] =
          Len(csv_aux) + missed["csv_aux"] + IF Due THEN 1 ELSE 0
  <2>1. missed'["csv_aux"] = missed["csv_aux"] + IF Due /\ "csv_aux" \notin ok THEN 1 ELSE 0
    BY <1>3, <1>7
  <2>2. missed["csv_aux"] \in Nat
    BY <1>2, <1>7
  <2>3. CASE Due
    BY <1>1, <1>6, <2>1, <2>2, <2>3
  <2>4. CASE ~ Due
    BY <1>1, <1>6, <2>1, <2>2, <2>4
  <2> QED
    BY <2>3, <2>4
<1> QED
  BY <1>8, <1>9

\* A rollover keeps the periods.
LEMMA RolloverPeriods ==
    ASSUME IInv, NEW sizes \in [Gauge -> 0..MaxSize], NEW late \in 1..MaxLate,
           NEW t \in Wall, NEW ok \in SUBSET File, StRollover(sizes, late, t, ok)
    PROVE  PeriodsAddUp'
<1>1. Roll(sizes, late) /\ up /\ UNCHANGED <<up, born>>
  BY DEF StRollover, Roll, Running
<1>2. ASSUME NEW s \in Ctr
      PROVE  summed'[s] = g_ctr_old'[s] /\ g_ctr_old'[s] <= g_ctr'[s]
  <2>1. s \in stat /\ s \notin Gauge
    BY StatAssumption DEF stat
  <2>2. g_ctr'[s] = g_ctr[s] /\ g_ctr_old'[s] = g_ctr[s]
    BY <1>1, EpochCounts DEF Roll, IInv, Types, TypeOK
  <2>3. summed'[s] = summed[s] + g_ctr'[s] - g_ctr_old[s]
    BY <1>1 DEF Roll, HookSees
  <2>4. summed[s] = g_ctr_old[s] /\ g_ctr_old[s] \in Nat /\ g_ctr[s] \in Nat
    BY <2>1 DEF IInv, Types, TypeOK, PeriodsAddUp
  <2> QED
    BY <2>2, <2>3, <2>4
<1>3. spanned' = st_time_now' - born'
  <2>1. spanned' = spanned + st_time_now' - st_time_now /\ born' = born
    BY <1>1 DEF Roll, HookSees, RolloverTime
  <2>2. spanned = st_time_now - born
    BY <1>1 DEF IInv, PeriodsAddUp
  <2>3. st_time_now \in Nat /\ born \in Nat /\ st_time_now' \in Nat
    BY RolloverTypes DEF IInv, Types
  <2> QED
    BY <2>1, <2>2, <2>3
<1> QED
  BY <1>2, <1>3 DEF PeriodsAddUp

\* The lines of a file and the writes it missed can be counted.
LEMMA LinesCounted ==
    ASSUME NEW lines \in Seq(Line), NEW miss \in [File -> Nat], NEW f \in File
    PROVE  Len(lines) \in Nat /\ miss[f] \in Nat
  OBVIOUS

\* A rollover keeps the schedules.
LEMMA RolloverSchedule ==
    ASSUME IInv, NEW sizes \in [Gauge -> 0..MaxSize], NEW late \in 1..MaxLate,
           NEW t \in Wall, NEW ok \in SUBSET File, StRollover(sizes, late, t, ok)
    PROVE  Schedule'
<1>1. Roll(sizes, late) /\ up /\ rollovers' = rollovers + 1 /\ opened' = opened
  BY DEF StRollover, Roll, Running
<1>2. Types /\ Types'
  BY RolloverTypes DEF IInv
<1>3. rollovers' = beats' * STAT_HB_EVERY + next_heartbeat'
  <2>1. beats' * STAT_HB_EVERY + next_heartbeat' = beats * STAT_HB_EVERY + next_heartbeat + 1
    <3>1. IF next_heartbeat = STAT_HB_EVERY - 1
          THEN next_heartbeat' = 0 /\ beats' = beats + 1
          ELSE next_heartbeat' = next_heartbeat + 1 /\ beats' = beats
      BY <1>1 DEF Roll, Heartbeat
    <3>2. /\ beats \in Int /\ next_heartbeat \in Int /\ STAT_HB_EVERY \in Int
          /\ beats' \in Int /\ next_heartbeat' \in Int
      BY <1>2, StatAssumption DEF Types, TypeOK
    <3>3. (beats + 1) * STAT_HB_EVERY = beats * STAT_HB_EVERY + STAT_HB_EVERY
      BY <3>2, NextMultiple
    <3>4. beats * STAT_HB_EVERY \in Int
      BY <3>2
    <3>5. CASE next_heartbeat = STAT_HB_EVERY - 1
      BY <3>1, <3>2, <3>3, <3>4, <3>5
    <3>6. CASE next_heartbeat # STAT_HB_EVERY - 1
      BY <3>1, <3>2, <3>4, <3>6
    <3> QED
      BY <3>5, <3>6
  <2> QED
    BY <1>1, <2>1 DEF IInv, Schedule
<1>4. ASSUME NEW k \in Int, NEW k2 \in Int, k2 = k + IF Due THEN 1 ELSE 0,
             k * STAT_CSV_EVERY + write_csv = rollovers
      PROVE  k2 * STAT_CSV_EVERY + write_csv' = rollovers'
  <2>1. IF write_csv = STAT_CSV_EVERY - 1
        THEN write_csv' = 0 /\ k2 = k + 1
        ELSE write_csv' = write_csv + 1 /\ k2 = k
    BY <1>1, <1>4 DEF Roll, Due
  <2>2. write_csv \in Int /\ write_csv' \in Int /\ STAT_CSV_EVERY \in Int
    BY <1>2, StatAssumption DEF Types, TypeOK
  <2>3. k2 * STAT_CSV_EVERY + write_csv' = k * STAT_CSV_EVERY + write_csv + 1
    <3>1. (k + 1) * STAT_CSV_EVERY = k * STAT_CSV_EVERY + STAT_CSV_EVERY
      BY <2>2, NextMultiple
    <3>2. k * STAT_CSV_EVERY \in Int
      BY <2>2
    <3>3. CASE write_csv = STAT_CSV_EVERY - 1
      BY <2>1, <2>2, <3>1, <3>2, <3>3
    <3>4. CASE write_csv # STAT_CSV_EVERY - 1
      BY <2>1, <2>2, <3>2, <3>4
    <3> QED
      BY <3>3, <3>4
  <2> QED
    BY <1>1, <1>4, <2>3
<1>5. "csv" \in opened =>
         (Len(csv') - 1 + missed'["csv"]) * STAT_CSV_EVERY + write_csv' = rollovers'
  <2> DEFINE more == IF Due THEN 1 ELSE 0
             lines == Len(csv)
             lines2 == Len(csv')
             lost == missed["csv"]
             lost2 == missed'["csv"]
  <2>1. /\ csv \in Seq(Line) /\ csv' \in Seq(Line)
        /\ missed \in [File -> Nat] /\ missed' \in [File -> Nat] /\ "csv" \in File
    BY <1>2 DEF Types, File
  <2>2. lines \in Nat /\ lost \in Nat
    BY <2>1, LinesCounted, Zenon
  <2>3. lines2 \in Nat /\ lost2 \in Nat
    BY <2>1, LinesCounted, Zenon
  <2>4. more \in Int
    OBVIOUS
  <2>5. lines2 + lost2 = lines + lost + more
    BY RowOrMiss, Zenon
  <2>6. "csv" \in opened => (lines - 1 + lost) * STAT_CSV_EVERY + write_csv = rollovers
    BY <1>1, Zenon DEF IInv, Schedule
  <2> HIDE DEF more, lines, lines2, lost, lost2
  <2>7. /\ lines - 1 + lost \in Int /\ lines2 - 1 + lost2 \in Int
        /\ lines2 - 1 + lost2 = (lines - 1 + lost) + more
    BY <2>2, <2>3, <2>4, <2>5
  <2>8. "csv" \in opened => (lines2 - 1 + lost2) * STAT_CSV_EVERY + write_csv' = rollovers'
    BY <2>6, <2>7, <1>4, Zenon DEF more
  <2> QED
    BY <2>8 DEF lines2, lost2
<1>6. "csv_aux" \in opened =>
         (Len(csv_aux') - 1 + missed'["csv_aux"]) * STAT_CSV_EVERY + write_csv' = rollovers'
  <2> DEFINE more == IF Due THEN 1 ELSE 0
             lines == Len(csv_aux)
             lines2 == Len(csv_aux')
             lost == missed["csv_aux"]
             lost2 == missed'["csv_aux"]
  <2>1. /\ csv_aux \in Seq(Line) /\ csv_aux' \in Seq(Line)
        /\ missed \in [File -> Nat] /\ missed' \in [File -> Nat] /\ "csv_aux" \in File
    BY <1>2 DEF Types, File
  <2>2. lines \in Nat /\ lost \in Nat
    BY <2>1, LinesCounted, Zenon
  <2>3. lines2 \in Nat /\ lost2 \in Nat
    BY <2>1, LinesCounted, Zenon
  <2>4. more \in Int
    OBVIOUS
  <2>5. lines2 + lost2 = lines + lost + more
    BY RowOrMiss, Zenon
  <2>6. "csv_aux" \in opened => (lines - 1 + lost) * STAT_CSV_EVERY + write_csv = rollovers
    BY <1>1, Zenon DEF IInv, Schedule
  <2> HIDE DEF more, lines, lines2, lost, lost2
  <2>7. /\ lines - 1 + lost \in Int /\ lines2 - 1 + lost2 \in Int
        /\ lines2 - 1 + lost2 = (lines - 1 + lost) + more
    BY <2>2, <2>3, <2>4, <2>5
  <2>8. "csv_aux" \in opened => (lines2 - 1 + lost2) * STAT_CSV_EVERY + write_csv' = rollovers'
    BY <2>6, <2>7, <1>4, Zenon DEF more
  <2> QED
    BY <2>8 DEF lines2, lost2
<1> QED
  BY <1>1, <1>3, <1>5, <1>6 DEF Schedule

\* A rollover keeps the invariant.
LEMMA RolloverKeeps ==
    ASSUME IInv, NEW sizes \in [Gauge -> 0..MaxSize], NEW late \in 1..MaxLate,
           NEW t \in Wall, NEW ok \in SUBSET File, StRollover(sizes, late, t, ok)
    PROVE  IInv'
<1>1. Types' /\ PeriodsAddUp' /\ Schedule'
  BY RolloverTypes, RolloverPeriods, RolloverSchedule
<1>2. up'
  BY DEF StRollover, Roll, Running
<1> QED
  BY <1>1, <1>2 DEF IInv, Down

-----------------------------------------------------------------------------
(* The files.                                                              *)

\* What the columns tell now.
CsvNow == Counted("csv", g_ctr, 0)
AuxNow == Counted("csv_aux", g_ctr, 0)

\* A row of life n that is w values long, each what was counted of the name at
\* its position.
Fits(row, names, w, n) ==
    /\ row.kind = "row" /\ row.life = n
    /\ DOMAIN row.cols = 1..w /\ Len(row.cols) = w
    /\ \A p \in 1..w : row.cols[p] \in Nat /\ row.cols[p] = row.counted[names[p]]

\* A row that tells what is counted now.
Tells(row, names, w, now) ==
    \A p \in 1..w : names[p] \in Growing => row.cols[p] = now[names[p]]

\* A header with these names, and rows that fit it and never shrink.
KeptFile(file, names, w, n) ==
    /\ file # << >> /\ file[1].kind = "header" /\ file[1].cols = names
    /\ \A i \in 2..Len(file) : Fits(file[i], names, w, n)
    /\ \A i \in 3..Len(file) : \A p \in 1..w :
          names[p] \in Growing => file[i - 1].cols[p] <= file[i].cols[p]

\* The rows do not exceed the counters, so the next row will not shrink.
Below(file, names, w, now) ==
    \A i \in 2..Len(file) : \A p \in 1..w :
        names[p] \in Growing => file[i].cols[p] <= now[names[p]]

CsvFile == KeptFile(csv, Columns("csv"), ST_END - 1, life)
AuxFile == KeptFile(csv_aux, Columns("csv_aux"), DKAD_MAX + 1 + GP_MAX_HOPS, life)

\* CleanFile, with what the last rows are to the counters.
Files ==
    /\ "csv" \in opened =>
          CsvFile /\ (up => Below(csv, Columns("csv"), ST_END - 1, CsvNow))
    /\ "csv_aux" \in opened =>
          /\ AuxFile
          /\ up => Below(csv_aux, Columns("csv_aux"), DKAD_MAX + 1 + GP_MAX_HOPS, AuxNow)

\* A file with a line more.
LEMMA LineFacts ==
    ASSUME NEW file \in Seq(Line), NEW line \in Line
    PROVE  /\ Len(file) \in Nat /\ Len(Append(file, line)) = Len(file) + 1
           /\ \A i \in 1..Len(file) : Append(file, line)[i] = file[i]
           /\ Append(file, line)[Len(file) + 1] = line
           /\ Append(file, line) # << >>
  OBVIOUS

\* A row of what the counters are keeps a file as it should be.
LEMMA RowKeepsFile ==
    ASSUME NEW file \in Seq(Line), NEW names, NEW w \in Nat, NEW n, NEW now,
           KeptFile(file, names, w, n), Below(file, names, w, now), NEW row \in Line,
           Fits(row, names, w, n), Tells(row, names, w, now)
    PROVE  KeptFile(Append(file, row), names, w, n) /\ Below(Append(file, row), names, w, now)
<1>1. PICK more : more = Append(file, row)
  OBVIOUS
<1>2. PICK last : last = Len(file)
  OBVIOUS
<1>3. /\ last \in Nat /\ last >= 1 /\ Len(more) = last + 1
      /\ \A i \in 1..last : more[i] = file[i]
      /\ more[last + 1] = row /\ more # << >>
  <2>1. Len(file) >= 1
    <3>1. file # << >>
      BY DEF KeptFile
    <3>2. QED
      BY <3>1
  <2>2. QED
    BY <1>1, <1>2, <2>1, LineFacts
<1> DEFINE Under(line) ==
             \A p \in 1..w : names[p] \in Growing => line.cols[p] <= now[names[p]]
           After(line, next) ==
             \A p \in 1..w : names[p] \in Growing => line.cols[p] <= next.cols[p]
<1>4. /\ file[1].kind = "header" /\ file[1].cols = names
      /\ \A i \in 2..last : Fits(file[i], names, w, n) /\ Under(file[i])
      /\ \A i \in 3..last : After(file[i - 1], file[i])
  BY <1>2 DEF KeptFile, Below
<1>5. Fits(row, names, w, n) /\ Under(row)
  <2>1. Fits(row, names, w, n)
    OBVIOUS
  <2>2. ASSUME NEW p \in 1..w, names[p] \in Growing PROVE row.cols[p] <= now[names[p]]
    <3>1. row.cols[p] \in Nat /\ row.cols[p] = now[names[p]]
      BY <2>2 DEF Fits, Tells
    <3>2. QED
      BY <3>1
  <2>3. QED
    BY <2>1, <2>2
<1>6. ASSUME NEW line, Under(line) PROVE After(line, row)
  BY <1>6 DEF Tells
<1> HIDE DEF Under, After
<1>7. ASSUME NEW i \in 2..(last + 1) PROVE Fits(more[i], names, w, n) /\ Under(more[i])
  <2>1. CASE i \in 2..last
    BY <1>3, <1>4, <2>1
  <2>2. CASE i = last + 1
    BY <1>3, <1>5, <2>2
  <2>3. QED
    BY <1>3, <2>1, <2>2
<1>8. ASSUME NEW i \in 3..(last + 1) PROVE After(more[i - 1], more[i])
  <2>1. CASE i \in 3..last
    <3>1. i \in 1..last /\ i - 1 \in 1..last
      BY <1>3, <2>1
    <3>2. more[i] = file[i] /\ more[i - 1] = file[i - 1]
      BY <1>3, <3>1
    <3>3. QED
      BY <1>4, <2>1, <3>2
  <2>2. CASE i = last + 1
    <3>1. last \in 2..last /\ last \in 1..last
      BY <1>3, <2>2
    <3>2. more[i] = row /\ more[i - 1] = file[last]
      BY <1>3, <2>2, <3>1
    <3>3. Under(file[last])
      BY <1>4, <3>1
    <3>4. QED
      BY <1>6, <3>2, <3>3
  <2>3. QED
    BY <1>3, <2>1, <2>2
<1>9. more[1].kind = "header" /\ more[1].cols = names
  BY <1>3, <1>4
<1>10. KeptFile(more, names, w, n)
  BY <1>3, <1>7, <1>8, <1>9 DEF KeptFile, After
<1>11. Below(more, names, w, now)
  BY <1>3, <1>7 DEF Below, Under
<1>12. QED
  BY <1>1, <1>10, <1>11

\* As the counters grow the rows stay below them.
LEMMA StaysBelow ==
    ASSUME NEW file, NEW names, NEW w, NEW n, NEW old, NEW now,
           KeptFile(file, names, w, n), Below(file, names, w, old),
           \A p \in 1..w : names[p] \in Growing =>
               /\ old[names[p]] \in Nat /\ now[names[p]] \in Nat
               /\ old[names[p]] <= now[names[p]]
    PROVE  Below(file, names, w, now)
<1>1. ASSUME NEW i \in 2..Len(file), NEW p \in 1..w, names[p] \in Growing
      PROVE  file[i].cols[p] <= now[names[p]]
  <2>1. PICK v : v = file[i].cols[p]
    OBVIOUS
  <2>2. v \in Nat
    BY <1>1, <2>1 DEF KeptFile, Fits
  <2>3. v <= old[names[p]]
    BY <1>1, <2>1 DEF Below
  <2>4. old[names[p]] \in Nat /\ now[names[p]] \in Nat /\ old[names[p]] <= now[names[p]]
    BY <1>1
  <2>5. v <= now[names[p]]
    BY <2>2, <2>3, <2>4
  <2>6. QED
    BY <2>1, <2>5
<1>2. QED
  BY <1>1 DEF Below

\* The names by their positions.
LEMMA CsvColumns ==
    /\ Len(Columns("csv")) = ST_END - 1
    /\ Columns("csv")[1] = <<"time", 0>>
    /\ \A p \in 2..(ST_END - 1) : Columns("csv")[p] = <<"stat", p - 1>>
<1> USE StatAssumption
<1>1. PICK s : s = Named("stat", 1, ST_END - 2)
  OBVIOUS
<1>2. s = [i \in 1..(ST_END - 2) |-> <<"stat", i>>]
  <2>1. (ST_END - 2) - 1 + 1 = ST_END - 2
    OBVIOUS
  <2>2. \A i \in 1..(ST_END - 2) : 1 + i - 1 = i
    OBVIOUS
  <2>3. s = [i \in 1..((ST_END - 2) - 1 + 1) |-> <<"stat", 1 + i - 1>>]
    BY <1>1 DEF Named
  <2>4. QED
    BY <2>1, <2>2, <2>3
<1>3. s \in Seq({"stat"} \X Nat) /\ Len(s) = ST_END - 2
  <2>1. ST_END - 2 \in Nat /\ \A i \in 1..(ST_END - 2) : <<"stat", i>> \in {"stat"} \X Nat
    OBVIOUS
  <2>2. QED
    BY <1>2, <2>1
<1>4. PICK S : S = {"time", "stat"} \X Nat
  OBVIOUS
<1>5. s \in Seq(S) /\ <<<<"time", 0>>>> \in Seq(S)
  BY <1>3, <1>4
<1>6. PICK r : r = <<<<"time", 0>>>> \o s
  OBVIOUS
<1>7. /\ Len(r) = ST_END - 1 /\ r[1] = <<"time", 0>>
      /\ \A p \in 2..(ST_END - 1) : r[p] = s[p - 1]
  BY <1>3, <1>5, <1>6
<1>8. \A p \in 2..(ST_END - 1) : r[p] = <<"stat", p - 1>>
  BY <1>2, <1>7
<1>9. Columns("csv") = r
  BY <1>1, <1>6 DEF Columns
<1>10. QED
  BY <1>7, <1>8, <1>9

LEMMA AuxColumns ==
    /\ Len(Columns("csv_aux")) = DKAD_MAX + 1 + GP_MAX_HOPS + 1
    /\ \A p \in 1..(DKAD_MAX + 1) : Columns("csv_aux")[p] = <<"dkad", p - 1>>
    /\ \A p \in (DKAD_MAX + 2)..(DKAD_MAX + 1 + GP_MAX_HOPS + 1) :
          Columns("csv_aux")[p] = <<"gp_hops", p - DKAD_MAX - 2>>
<1> USE StatAssumption
<1>1. ASSUME NEW what \in {"dkad", "gp_hops"}, NEW to \in Nat
      PROVE  /\ Named(what, 0, to) \in Seq({"dkad", "gp_hops"} \X Nat)
             /\ Len(Named(what, 0, to)) = to + 1
             /\ \A i \in 1..(to + 1) : Named(what, 0, to)[i] = <<what, i - 1>>
  <2>1. PICK s : s = [i \in 1..(to + 1) |-> <<what, i - 1>>]
    OBVIOUS
  <2>2. to - 0 + 1 = to + 1 /\ \A i \in 1..(to + 1) : 0 + i - 1 = i - 1
    OBVIOUS
  <2>3. Named(what, 0, to) = [i \in 1..(to - 0 + 1) |-> <<what, 0 + i - 1>>]
    BY DEF Named
  <2>4. Named(what, 0, to) = s
    BY <2>1, <2>2, <2>3
  <2>5. \A i \in 1..(to + 1) : <<what, i - 1>> \in {"dkad", "gp_hops"} \X Nat
    OBVIOUS
  <2>6. s \in Seq({"dkad", "gp_hops"} \X Nat) /\ Len(s) = to + 1
    BY <2>1, <2>5
  <2>7. QED
    BY <2>1, <2>4, <2>6
<1>2. PICK s : s = Named("dkad", 0, DKAD_MAX)
  OBVIOUS
<1>3. PICK u : u = Named("gp_hops", 0, GP_MAX_HOPS)
  OBVIOUS
<1>4. PICK S : S = {"dkad", "gp_hops"} \X Nat
  OBVIOUS
<1>5. /\ s \in Seq(S) /\ Len(s) = DKAD_MAX + 1
      /\ \A i \in 1..(DKAD_MAX + 1) : s[i] = <<"dkad", i - 1>>
  BY <1>1, <1>2, <1>4
<1>6. /\ u \in Seq(S) /\ Len(u) = GP_MAX_HOPS + 1
      /\ \A i \in 1..(GP_MAX_HOPS + 1) : u[i] = <<"gp_hops", i - 1>>
  BY <1>1, <1>3, <1>4
<1>7. PICK r : r = s \o u
  OBVIOUS
<1>8. /\ Len(r) = DKAD_MAX + 1 + GP_MAX_HOPS + 1
      /\ \A p \in 1..(DKAD_MAX + 1) : r[p] = s[p]
      /\ \A p \in (DKAD_MAX + 2)..(DKAD_MAX + 1 + GP_MAX_HOPS + 1) :
            r[p] = u[p - (DKAD_MAX + 1)]
  <2>1. /\ Len(r) = Len(s) + Len(u)
        /\ \A p \in 1..Len(s) : r[p] = s[p]
        /\ \A p \in (Len(s) + 1)..(Len(s) + Len(u)) : r[p] = u[p - Len(s)]
    <3>1. s \in Seq(S) /\ u \in Seq(S)
      BY <1>5, <1>6
    <3>2. QED
      BY <1>7, <3>1
  <2>2. DKAD_MAX + 2 = Len(s) + 1 /\ DKAD_MAX + 1 + GP_MAX_HOPS + 1 = Len(s) + Len(u)
    BY <1>5, <1>6
  <2>3. QED
    BY <1>5, <2>1, <2>2
<1>9. \A p \in 1..(DKAD_MAX + 1) : r[p] = <<"dkad", p - 1>>
  BY <1>5, <1>8
<1>10. ASSUME NEW p \in (DKAD_MAX + 2)..(DKAD_MAX + 1 + GP_MAX_HOPS + 1)
       PROVE  r[p] = <<"gp_hops", p - DKAD_MAX - 2>>
  <2>1. PICK i : i = p - (DKAD_MAX + 1)
    OBVIOUS
  <2>2. i \in 1..(GP_MAX_HOPS + 1) /\ i - 1 = p - DKAD_MAX - 2
    BY <2>1
  <2>3. r[p] = u[i]
    BY <1>8, <2>1
  <2>4. QED
    BY <1>6, <2>2, <2>3
<1>11. Columns("csv_aux") = r
  BY <1>2, <1>3, <1>7 DEF Columns
<1>12. QED
  BY <1>8, <1>9, <1>10, <1>11

\* What a name stands for.
LEMMA CsvCounted ==
    ASSUME NEW ctr, NEW t
    PROVE  /\ Counted("csv", ctr, t)[<<"time", 0>>] = t
           /\ \A ix \in 1..(ST_END - 2) : Counted("csv", ctr, t)[<<"stat", ix>>] = ctr[ix]
<1>1. Counted("csv", ctr, t) = [c \in CsvNames |-> IF c[1] = "time" THEN t ELSE ctr[c[2]]]
  BY DEF Counted, CsvNames
<1>2. <<"time", 0>> \in CsvNames
  BY DEF CsvNames
<1>3. \A ix \in 1..(ST_END - 2) : <<"stat", ix>> \in CsvNames
  BY DEF CsvNames
<1>4. QED
  BY <1>1, <1>2, <1>3

LEMMA AuxCounted ==
    ASSUME NEW ctr, NEW t
    PROVE  /\ \A d \in Dkads : Counted("csv_aux", ctr, t)[<<"dkad", d>>] = g_dkad_ctr[d]
           /\ \A n \in Hops : Counted("csv_aux", ctr, t)[<<"gp_hops", n>>] = g_n_hops_ctr[n]
<1>1. Counted("csv_aux", ctr, t) =
         [c \in AuxNames |-> IF c[1] = "dkad" THEN g_dkad_ctr[c[2]] ELSE g_n_hops_ctr[c[2]]]
  BY DEF Counted, AuxNames
<1>2. \A d \in Dkads : <<"dkad", d>> \in AuxNames
  BY DEF AuxNames
<1>3. \A n \in Hops : <<"gp_hops", n>> \in AuxNames
  BY DEF AuxNames
<1>4. QED
  BY <1>1, <1>2, <1>3

\* A row of the counters stands under the header.
LEMMA CsvRowFits ==
    ASSUME NEW ctr \in [stat -> Nat], NEW t \in Nat, NEW p \in 1..(ST_END - 1)
    PROVE  Row(ctr, t).cols[p] = Row(ctr, t).counted[Columns("csv")[p]]
<1>1. CASE p = 1
  <2>1. Row(ctr, t).cols[p] = t /\ Row(ctr, t).counted = Counted("csv", ctr, t)
    BY <1>1, CsvRow
  <2>2. Columns("csv")[p] = <<"time", 0>>
    BY <1>1, CsvColumns
  <2>3. Counted("csv", ctr, t)[<<"time", 0>>] = t
    BY CsvCounted
  <2>4. QED
    BY <2>1, <2>2, <2>3
<1>2. CASE p \in 2..(ST_END - 1)
  <2>1. PICK ix : ix = p - 1
    OBVIOUS
  <2>2. ix \in 1..(ST_END - 2)
    BY <1>2, <2>1, StatAssumption
  <2>3. Columns("csv")[p] = <<"stat", ix>>
    BY <1>2, <2>1, CsvColumns
  <2>4. Row(ctr, t).cols[p] = ctr[ix] /\ Row(ctr, t).counted = Counted("csv", ctr, t)
    BY <1>2, <2>1, CsvRow
  <2>5. Counted("csv", ctr, t)[<<"stat", ix>>] = ctr[ix]
    BY <2>2, CsvCounted
  <2>6. QED
    BY <2>3, <2>4, <2>5
<1>3. QED
  BY <1>1, <1>2, StatAssumption

\* So does an auxiliary row.
LEMMA AuxRowFits ==
    ASSUME g_dkad_ctr \in [Dkads -> Nat], g_n_hops_ctr \in [Hops -> Nat],
           NEW p \in 1..(DKAD_MAX + 1 + GP_MAX_HOPS)
    PROVE  RowAux.cols[p] = RowAux.counted[Columns("csv_aux")[p]]
<1>1. CASE p \in 1..(DKAD_MAX + 1)
  <2>1. PICK d : d = p - 1
    OBVIOUS
  <2>2. d \in Dkads
    BY <1>1, <2>1, StatAssumption DEF Dkads
  <2>3. Columns("csv_aux")[p] = <<"dkad", d>>
    BY <1>1, <2>1, AuxColumns
  <2>4. RowAux.cols[p] = g_dkad_ctr[d] /\ RowAux.counted = Counted("csv_aux", g_ctr, 0)
    BY <1>1, <2>1, AuxRow
  <2>5. Counted("csv_aux", g_ctr, 0)[<<"dkad", d>>] = g_dkad_ctr[d]
    BY <2>2, AuxCounted
  <2>6. QED
    BY <2>3, <2>4, <2>5
<1>2. CASE p \in (DKAD_MAX + 2)..(DKAD_MAX + 1 + GP_MAX_HOPS)
  <2>1. PICK n : n = p - DKAD_MAX - 2
    OBVIOUS
  <2>2. n \in Hops /\ p \in (DKAD_MAX + 2)..(DKAD_MAX + 1 + GP_MAX_HOPS + 1)
    BY <1>2, <2>1, StatAssumption DEF Hops
  <2>3. Columns("csv_aux")[p] = <<"gp_hops", n>>
    BY <2>1, <2>2, AuxColumns
  <2>4. RowAux.cols[p] = g_n_hops_ctr[n] /\ RowAux.counted = Counted("csv_aux", g_ctr, 0)
    BY <1>2, <2>1, AuxRow
  <2>5. Counted("csv_aux", g_ctr, 0)[<<"gp_hops", n>>] = g_n_hops_ctr[n]
    BY <2>2, AuxCounted
  <2>6. QED
    BY <2>3, <2>4, <2>5
<1>3. QED
  BY <1>1, <1>2, StatAssumption

\* The names that grow: the counts, the distances and the hops.
LEMMA CsvGrows ==
    ASSUME NEW p \in 1..(ST_END - 1), Columns("csv")[p] \in Growing
    PROVE  \E s \in Ctr : s \in 1..(ST_END - 2) /\ p = s + 1 /\ Columns("csv")[p] = <<"stat", s>>
<1>1. CASE p = 1
  <2>1. Columns("csv")[p] = <<"time", 0>>
    BY <1>1, CsvColumns
  <2>2. <<"time", 0>> \notin Growing
    BY DEF Growing
  <2>3. QED
    BY <2>1, <2>2
<1>2. CASE p \in 2..(ST_END - 1)
  <2>1. PICK s : s = p - 1
    OBVIOUS
  <2>2. s \in 1..(ST_END - 2) /\ p = s + 1
    BY <1>2, <2>1, StatAssumption
  <2>3. Columns("csv")[p] = <<"stat", s>>
    BY <1>2, <2>1, CsvColumns
  <2>4. <<"stat", s>> \in Growing => s \in Ctr
    BY DEF Growing
  <2>5. QED
    BY <2>2, <2>3, <2>4
<1>3. QED
  BY <1>1, <1>2, StatAssumption

\* A row that is due keeps the file of the counters, and so does its absence.
LEMMA CsvKept ==
    ASSUME IInv, Files, "csv" \in opened, up, NEW ctr \in [stat -> Nat],
           \A s \in Ctr : ctr[s] = g_ctr[s], NEW t \in Nat,
           NEW ok, NEW file, file = Appended(csv, "csv", ok, Row(ctr, t))
    PROVE  /\ KeptFile(file, Columns("csv"), ST_END - 1, life)
           /\ Below(file, Columns("csv"), ST_END - 1, Counted("csv", ctr, 0))
<1> USE StatAssumption
<1>1. PICK names : names = Columns("csv")
  OBVIOUS
<1>2. PICK w : w = ST_END - 1
  OBVIOUS
<1>3. PICK now : now = Counted("csv", ctr, 0)
  OBVIOUS
<1>4. /\ csv \in Seq(Line) /\ life \in Nat /\ w \in Nat
      /\ g_dkad_ctr \in [Dkads -> Nat] /\ g_n_hops_ctr \in [Hops -> Nat]
      /\ g_ctr \in [stat -> Nat]
      /\ KeptFile(csv, names, w, life) /\ Below(csv, names, w, CsvNow)
  BY <1>1, <1>2 DEF IInv, Types, TypeOK, Files, CsvFile
<1>5. ASSUME NEW p \in 1..w, names[p] \in Growing
      PROVE  /\ CsvNow[names[p]] \in Nat /\ CsvNow[names[p]] = now[names[p]]
             /\ Row(ctr, t).cols[p] = now[names[p]]
  <2>1. PICK s \in Ctr : s \in 1..(ST_END - 2) /\ p = s + 1 /\ names[p] = <<"stat", s>>
    BY <1>1, <1>2, <1>5, CsvGrows
  <2>2. now[names[p]] = ctr[s] /\ CsvNow[names[p]] = g_ctr[s]
    BY <1>3, <2>1, CsvCounted DEF CsvNow
  <2>3. s \in stat /\ ctr[s] = g_ctr[s] /\ g_ctr[s] \in Nat
    BY <1>4 DEF stat
  <2>4. p \in 2..(ST_END - 1) /\ p - 1 = s
    BY <2>1
  <2>5. Row(ctr, t).cols[p] = ctr[s]
    <3>1. \A q \in 2..(ST_END - 1) : Row(ctr, t).cols[q] = ctr[q - 1]
      BY CsvRow
    <3>2. QED
      BY <2>4, <3>1
  <2>6. QED
    BY <2>2, <2>3, <2>5
<1>6. Below(csv, names, w, now)
  <2>1. ASSUME NEW p \in 1..w, names[p] \in Growing
        PROVE  /\ CsvNow[names[p]] \in Nat /\ now[names[p]] \in Nat
               /\ CsvNow[names[p]] <= now[names[p]]
    BY <1>5, <2>1
  <2>2. QED
    BY <1>4, <2>1, StaysBelow
<1>7. CASE file = csv
  BY <1>1, <1>2, <1>3, <1>4, <1>6, <1>7
<1>8. CASE file = Append(csv, Row(ctr, t))
  <2>1. PICK row : row = Row(ctr, t)
    OBVIOUS
  <2>2. row \in Line /\ row.kind = "row" /\ row.life = life
    BY <1>4, <2>1, RowsAreLines DEF Row
  <2>3. row.cols \in Seq(Nat) /\ Len(row.cols) = w
    BY <1>2, <2>1, CsvRow
  <2>4. DOMAIN row.cols = 1..w /\ \A p \in 1..w : row.cols[p] \in Nat
    BY <2>3
  <2>5. \A p \in 1..w : row.cols[p] = row.counted[names[p]]
    BY <1>1, <1>2, <2>1, CsvRowFits
  <2>6. \A p \in 1..w : names[p] \in Growing => row.cols[p] = now[names[p]]
    BY <1>5, <2>1
  <2>7. KeptFile(Append(csv, row), names, w, life) /\ Below(Append(csv, row), names, w, now)
    <3>1. Fits(row, names, w, life)
      BY <2>2, <2>3, <2>4, <2>5 DEF Fits
    <3>2. Tells(row, names, w, now)
      BY <2>6 DEF Tells
    <3>3. QED
      BY <1>4, <1>6, <2>2, <3>1, <3>2, RowKeepsFile
  <2>8. QED
    BY <1>1, <1>2, <1>3, <1>8, <2>1, <2>7
<1>9. QED
  BY <1>7, <1>8 DEF Appended

\* And the auxiliary file.
LEMMA AuxKept ==
    ASSUME IInv, Files, "csv_aux" \in opened, up,
           NEW ok, NEW file, file = Appended(csv_aux, "csv_aux", ok, RowAux)
    PROVE  /\ KeptFile(file, Columns("csv_aux"), DKAD_MAX + 1 + GP_MAX_HOPS, life)
           /\ Below(file, Columns("csv_aux"), DKAD_MAX + 1 + GP_MAX_HOPS, AuxNow)
<1> USE StatAssumption
<1>1. PICK names : names = Columns("csv_aux")
  OBVIOUS
<1>2. PICK w : w = DKAD_MAX + 1 + GP_MAX_HOPS
  OBVIOUS
<1>3. /\ csv_aux \in Seq(Line) /\ life \in Nat /\ w \in Nat
      /\ g_dkad_ctr \in [Dkads -> Nat] /\ g_n_hops_ctr \in [Hops -> Nat]
      /\ KeptFile(csv_aux, names, w, life) /\ Below(csv_aux, names, w, AuxNow)
  BY <1>1, <1>2 DEF IInv, Types, TypeOK, Files, AuxFile
<1>4. CASE file = csv_aux
  BY <1>1, <1>2, <1>3, <1>4
<1>5. CASE file = Append(csv_aux, RowAux)
  <2>1. PICK row : row = RowAux
    OBVIOUS
  <2>2. row \in Line /\ row.kind = "row" /\ row.life = life
    BY <1>3, <2>1, RowsAreLines DEF RowAux
  <2>3. row.cols \in Seq(Nat) /\ Len(row.cols) = w /\ row.counted = AuxNow
    BY <1>2, <1>3, <2>1, AuxRow DEF AuxNow
  <2>4. DOMAIN row.cols = 1..w /\ \A p \in 1..w : row.cols[p] \in Nat
    BY <2>3
  <2>5. \A p \in 1..w : row.cols[p] = row.counted[names[p]]
    BY <1>1, <1>2, <1>3, <2>1, AuxRowFits
  <2>6. \A p \in 1..w : names[p] \in Growing => row.cols[p] = AuxNow[names[p]]
    BY <2>3, <2>5
  <2>7. /\ KeptFile(Append(csv_aux, row), names, w, life)
        /\ Below(Append(csv_aux, row), names, w, AuxNow)
    <3>1. Fits(row, names, w, life)
      BY <2>2, <2>3, <2>4, <2>5 DEF Fits
    <3>2. Tells(row, names, w, AuxNow)
      BY <2>6 DEF Tells
    <3>3. QED
      BY <1>3, <2>2, <3>1, <3>2, RowKeepsFile
  <2>8. QED
    BY <1>1, <1>2, <1>5, <2>1, <2>7
<1>6. QED
  BY <1>4, <1>5 DEF Appended

\* A file of a header alone is as it should be.
LEMMA NewFile ==
    ASSUME NEW header, header.kind = "header"
    PROVE  \A w, n, now : /\ KeptFile(<<header>>, header.cols, w, n)
                          /\ Below(<<header>>, header.cols, w, now)
<1>1. PICK file : file = <<header>>
  OBVIOUS
<1>2. file # << >> /\ file[1] = header /\ Len(file) = 1 /\ 2..1 = {} /\ 3..1 = {}
  BY <1>1
<1>3. QED
  BY <1>1, <1>2 DEF KeptFile, Below

LEMMA StInitFiles == ASSUME NEW ok \in SUBSET File, StInit(ok) PROVE Files'
<1>1. /\ opened' = ok
      /\ csv' = Created(csv, "csv", ok) /\ csv_aux' = Created(csv_aux, "csv_aux", ok)
  BY DEF StInit
<1>2. PICK h : h = Header("csv")
  OBVIOUS
<1>3. PICK a : a = Header("csv_aux")
  OBVIOUS
<1>4. /\ h.kind = "header" /\ h.cols = Columns("csv")
      /\ a.kind = "header" /\ a.cols = Columns("csv_aux")
  BY <1>2, <1>3 DEF Header
<1>5. ("csv" \in ok => csv' = <<h>>) /\ ("csv_aux" \in ok => csv_aux' = <<a>>)
  BY <1>1, <1>2, <1>3 DEF Created
<1>6. \A w, n, now : /\ KeptFile(<<h>>, Columns("csv"), w, n)
                     /\ Below(<<h>>, Columns("csv"), w, now)
                     /\ KeptFile(<<a>>, Columns("csv_aux"), w, n)
                     /\ Below(<<a>>, Columns("csv_aux"), w, now)
  BY <1>4, NewFile
<1>7. Columns("csv")' = Columns("csv") /\ Columns("csv_aux")' = Columns("csv_aux")
  BY DEF Columns, Named
<1>8. "csv" \in opened' => (CsvFile /\ Below(csv, Columns("csv"), ST_END - 1, CsvNow))'
  BY <1>1, <1>5, <1>6, <1>7 DEF CsvFile
<1>9. "csv_aux" \in opened' =>
         (/\ AuxFile
          /\ Below(csv_aux, Columns("csv_aux"), DKAD_MAX + 1 + GP_MAX_HOPS, AuxNow))'
  BY <1>1, <1>5, <1>6, <1>7 DEF AuxFile
<1>10. QED
  BY <1>8, <1>9 DEF Files

\* Counters only grow, so the rows stay below them.
LEMMA CountFiles ==
    ASSUME IInv, Files, \/ \E s \in Ctr : StInc(s)
                        \/ \E d \in Dkads : StClickDkad(d)
                        \/ \E n \in Hops : StClickGpNHops(n)
    PROVE  Files'
<1> USE StatAssumption
<1>1. opened' = opened /\ csv' = csv /\ csv_aux' = csv_aux /\ life' = life /\ up' = up
  BY DEF StInc, StClickDkad, StClickGpNHops, clocks, hooks, files
<1>2. \A s \in Ctr : s \in stat
  BY CountersAreStats
<1>3. \A s \in Ctr : g_ctr[s] \in Nat /\ g_ctr'[s] \in Nat /\ g_ctr[s] <= g_ctr'[s]
  <2>1. g_ctr \in [stat -> Nat]
    BY DEF IInv, Types, TypeOK
  <2>2. g_ctr' = g_ctr \/ \E s \in Ctr : g_ctr' = [g_ctr EXCEPT ![s] = @ + 1]
    BY DEF StInc, StClickDkad, StClickGpNHops
  <2>3. QED
    BY <1>2, <2>1, <2>2
<1>4. \A d \in Dkads : /\ g_dkad_ctr[d] \in Nat /\ g_dkad_ctr'[d] \in Nat
                       /\ g_dkad_ctr[d] <= g_dkad_ctr'[d]
  <2>1. g_dkad_ctr \in [Dkads -> Nat]
    BY DEF IInv, Types, TypeOK
  <2>2. \/ g_dkad_ctr' = g_dkad_ctr
        \/ \E d \in Dkads : g_dkad_ctr' = [g_dkad_ctr EXCEPT ![d] = @ + 1]
    BY DEF StInc, StClickDkad, StClickGpNHops
  <2>3. QED
    BY <2>1, <2>2
<1>5. \A n \in Hops : /\ g_n_hops_ctr[n] \in Nat /\ g_n_hops_ctr'[n] \in Nat
                      /\ g_n_hops_ctr[n] <= g_n_hops_ctr'[n]
  <2>1. g_n_hops_ctr \in [Hops -> Nat]
    BY DEF IInv, Types, TypeOK
  <2>2. \/ g_n_hops_ctr' = g_n_hops_ctr
        \/ \E n \in Hops : g_n_hops_ctr' = [g_n_hops_ctr EXCEPT ![n] = @ + 1]
    BY DEF StInc, StClickDkad, StClickGpNHops
  <2>3. QED
    BY <2>1, <2>2
<1>6. CsvFile /\ Below(csv, Columns("csv"), ST_END - 1, CsvNow)
         => Below(csv, Columns("csv"), ST_END - 1, CsvNow')
  <2>1. PICK names : names = Columns("csv")
    OBVIOUS
  <2>2. ASSUME NEW p \in 1..(ST_END - 1), names[p] \in Growing
        PROVE  /\ CsvNow[names[p]] \in Nat /\ CsvNow'[names[p]] \in Nat
               /\ CsvNow[names[p]] <= CsvNow'[names[p]]
    <3>1. PICK s \in Ctr : s \in 1..(ST_END - 2) /\ names[p] = <<"stat", s>>
      BY <2>1, <2>2, CsvGrows
    <3>2. CsvNow[names[p]] = g_ctr[s]
      BY <3>1, CsvCounted DEF CsvNow
    <3>3. CsvNow' = Counted("csv", g_ctr', 0)
      BY DEF CsvNow, Counted
    <3>4. CsvNow'[names[p]] = g_ctr'[s]
      BY <3>1, <3>3, CsvCounted
    <3>5. QED
      BY <1>3, <3>2, <3>4
  <2>3. QED
    BY <2>1, <2>2, StaysBelow DEF CsvFile
<1>7. AuxFile /\ Below(csv_aux, Columns("csv_aux"), DKAD_MAX + 1 + GP_MAX_HOPS, AuxNow)
         => Below(csv_aux, Columns("csv_aux"), DKAD_MAX + 1 + GP_MAX_HOPS, AuxNow')
  <2>1. PICK names : names = Columns("csv_aux")
    OBVIOUS
  <2>2. ASSUME NEW p \in 1..(DKAD_MAX + 1 + GP_MAX_HOPS)
        PROVE  /\ AuxNow[names[p]] \in Nat /\ AuxNow'[names[p]] \in Nat
               /\ AuxNow[names[p]] <= AuxNow'[names[p]]
    <3>1. /\ AuxNow = [c \in AuxNames |-> IF c[1] = "dkad" THEN g_dkad_ctr[c[2]]
                                                           ELSE g_n_hops_ctr[c[2]]]
          /\ AuxNow' = [c \in AuxNames |-> IF c[1] = "dkad" THEN g_dkad_ctr'[c[2]]
                                                            ELSE g_n_hops_ctr'[c[2]]]
      BY DEF AuxNow, Counted, AuxNames
    <3>2. CASE p \in 1..(DKAD_MAX + 1)
      <4>1. PICK d \in Dkads : names[p] = <<"dkad", d>>
        BY <2>1, <3>2, AuxColumns DEF Dkads
      <4>2. <<"dkad", d>> \in AuxNames
        BY DEF AuxNames
      <4>3. AuxNow[<<"dkad", d>>] = g_dkad_ctr[d] /\ AuxNow'[<<"dkad", d>>] = g_dkad_ctr'[d]
        BY <3>1, <4>2
      <4>4. QED
        BY <1>4, <4>1, <4>3
    <3>3. CASE p \in (DKAD_MAX + 2)..(DKAD_MAX + 1 + GP_MAX_HOPS)
      <4>1. PICK n \in Hops : names[p] = <<"gp_hops", n>>
        <5>1. p \in (DKAD_MAX + 2)..(DKAD_MAX + 1 + GP_MAX_HOPS + 1)
          BY <3>3
        <5>2. p - DKAD_MAX - 2 \in Hops
          BY <3>3 DEF Hops
        <5>3. QED
          BY <2>1, <5>1, <5>2, AuxColumns
      <4>2. <<"gp_hops", n>> \in AuxNames
        BY DEF AuxNames
      <4>3. /\ AuxNow[<<"gp_hops", n>>] = g_n_hops_ctr[n]
            /\ AuxNow'[<<"gp_hops", n>>] = g_n_hops_ctr'[n]
        BY <3>1, <4>2
      <4>4. QED
        BY <1>5, <4>1, <4>3
    <3>4. QED
      BY <3>2, <3>3
  <2>3. QED
    BY <2>1, <2>2, StaysBelow DEF AuxFile
<1>8. (CsvFile => CsvFile') /\ (AuxFile => AuxFile')
  BY <1>1 DEF CsvFile, AuxFile
<1>9. QED
  BY <1>1, <1>6, <1>7, <1>8 DEF Files

LEMMA RolloverFiles ==
    ASSUME IInv, Files, NEW sizes \in [Gauge -> 0..MaxSize], NEW late \in 1..MaxLate,
           NEW t \in Wall, NEW ok \in SUBSET File, StRollover(sizes, late, t, ok)
    PROVE  Files'
<1>1. /\ Roll(sizes, late) /\ up /\ opened' = opened /\ life' = life
      /\ g_dkad_ctr' = g_dkad_ctr /\ g_n_hops_ctr' = g_n_hops_ctr
      /\ g_ctr' = Epoch(sizes)
  BY DEF StRollover, Roll, Running
<1>2. PICK ctr : ctr = g_ctr'
  OBVIOUS
<1>3. ctr \in [stat -> Nat] /\ (\A s \in Ctr : ctr[s] = g_ctr[s]) /\ t \in Nat
  BY <1>1, <1>2, EpochCounts, StatAssumption DEF IInv, Types, TypeOK
<1>4. /\ csv' = Appended(csv, "csv", ok, Row(ctr, t))
      /\ csv_aux' = Appended(csv_aux, "csv_aux", ok, RowAux)
  BY <1>2 DEF StRollover
<1>5. CsvNow' = Counted("csv", ctr, 0) /\ AuxNow' = AuxNow
  BY <1>1, <1>2 DEF CsvNow, AuxNow, Counted
<1>6. "csv" \in opened =>
         /\ KeptFile(csv', Columns("csv"), ST_END - 1, life)
         /\ Below(csv', Columns("csv"), ST_END - 1, CsvNow')
  BY <1>1, <1>3, <1>4, <1>5, CsvKept
<1>7. "csv_aux" \in opened =>
         /\ KeptFile(csv_aux', Columns("csv_aux"), DKAD_MAX + 1 + GP_MAX_HOPS, life)
         /\ Below(csv_aux', Columns("csv_aux"), DKAD_MAX + 1 + GP_MAX_HOPS, AuxNow')
  BY <1>1, <1>4, <1>5, AuxKept
<1>8. QED
  BY <1>1, <1>6, <1>7 DEF Files, CsvFile, AuxFile

LEMMA DiesFiles ==
    ASSUME IInv, Files, \/ Die
                        \/ \E sizes \in [Gauge -> 0..MaxSize], t \in Wall, ok \in SUBSET File :
                              DieBetweenRows(sizes, t, ok)
    PROVE  Files'
<1>1. CASE Die
  BY <1>1 DEF Die, Lost, files, Files, CsvFile, AuxFile
<1>2. ASSUME NEW sizes \in [Gauge -> 0..MaxSize], NEW t \in Wall, NEW ok \in SUBSET File,
             DieBetweenRows(sizes, t, ok)
      PROVE  Files'
  <2>1. PICK ctr : ctr = Epoch(sizes)
    OBVIOUS
  <2>2. /\ up /\ ~ up' /\ csv' = Appended(csv, "csv", ok, Row(ctr, t))
        /\ csv_aux' = csv_aux /\ life' = life /\ opened' = opened
    BY <1>2, <2>1 DEF DieBetweenRows, Lost, Running
  <2>3. ctr \in [stat -> Nat] /\ (\A s \in Ctr : ctr[s] = g_ctr[s]) /\ t \in Nat
    BY <2>1, EpochCounts, StatAssumption DEF IInv, Types, TypeOK
  <2>4. "csv" \in opened => KeptFile(csv', Columns("csv"), ST_END - 1, life)
    BY <2>2, <2>3, CsvKept
  <2>5. QED
    BY <2>2, <2>4 DEF Files, CsvFile, AuxFile
<1>3. QED
  BY <1>1, <1>2

-----------------------------------------------------------------------------
\* The invariant holds of every behaviour.
LEMMA Invariance == Spec => []IInv
<1>1. IInv /\ [Next]_vars => IInv'
  <2> SUFFICES ASSUME IInv, [Next]_vars PROVE IInv'
    OBVIOUS
  <2>1. CASE \E ok \in SUBSET File : StInit(ok)
    BY <2>1, StInitKeeps
  <2>2. CASE \/ \E s \in Ctr : StInc(s)
             \/ \E d \in Dkads : StClickDkad(d)
             \/ \E n \in Hops : StClickGpNHops(n)
    BY <2>2, CountKeeps
  <2>3. ASSUME NEW sizes \in [Gauge -> 0..MaxSize], NEW late \in 1..MaxLate,
               NEW t \in Wall, NEW ok \in SUBSET File, StRollover(sizes, late, t, ok)
        PROVE  IInv'
    BY <2>3, RolloverKeeps
  <2>4. CASE \/ Die
             \/ \E sizes \in [Gauge -> 0..MaxSize], t \in Wall, ok \in SUBSET File :
                   DieBetweenRows(sizes, t, ok)
    BY <2>4, DiesKeep
  <2>5. CASE UNCHANGED vars
    BY <2>5 DEF vars, counts, clocks, hooks, files, IInv, Types, TypeOK, Down, PeriodsAddUp,
                Schedule
  <2> QED
    BY <2>1, <2>2, <2>3, <2>4, <2>5 DEF Next
<1> QED
  BY InitTypes, <1>1, PTL DEF Spec

\* The counters are natural numbers and the countdowns of st_rollover stay
\* below their periods.
THEOREM StatTypeCorrect == Spec => []TypeOK
<1>1. IInv => TypeOK
  BY DEF IInv, Types
<1> QED
  BY Invariance, <1>1, PTL

\* What ctl_rollover_hook could see of the counters adds up to what was counted,
\* and the periods to the time of the life.
THEOREM HooksSeeEverything == Spec => []PeriodsAddUp
<1>1. IInv => PeriodsAddUp
  BY DEF IInv
<1> QED
  BY Invariance, <1>1, PTL

\* Heartbeats and rows come every STAT_HB_EVERY and STAT_CSV_EVERY rollovers.
THEOREM SchedulesKeep == Spec => []Schedule
<1>1. IInv => Schedule
  BY DEF IInv
<1> QED
  BY Invariance, <1>1, PTL

\* A file that st_init could open has in each row, at each position, what was
\* counted of the name that the header has there, and counts that never shrink,
\* in any life, whichever rows could not be written, wherever the process dies
\* and whatever the wall clock says.
THEOREM FilesAreClean == Spec => []CleanFile
<1>1. Init => Files
  BY DEF Init, Files
<1>2. IInv /\ Files /\ [Next]_vars => Files'
  <2> SUFFICES ASSUME IInv, Files, [Next]_vars PROVE Files'
    OBVIOUS
  <2>1. CASE \E ok \in SUBSET File : StInit(ok)
    BY <2>1, StInitFiles
  <2>2. CASE \/ \E s \in Ctr : StInc(s)
             \/ \E d \in Dkads : StClickDkad(d)
             \/ \E n \in Hops : StClickGpNHops(n)
    BY <2>2, CountFiles
  <2>3. ASSUME NEW sizes \in [Gauge -> 0..MaxSize], NEW late \in 1..MaxLate,
               NEW t \in Wall, NEW ok \in SUBSET File, StRollover(sizes, late, t, ok)
        PROVE  Files'
    BY <2>3, RolloverFiles
  <2>4. CASE \/ Die
             \/ \E sizes \in [Gauge -> 0..MaxSize], t \in Wall, ok \in SUBSET File :
                   DieBetweenRows(sizes, t, ok)
    BY <2>4, DiesFiles
  <2>5. CASE UNCHANGED vars
    BY <2>5 DEF vars, counts, clocks, hooks, files, Files, CsvFile, AuxFile, CsvNow, AuxNow,
                Counted
  <2> QED
    BY <2>1, <2>2, <2>3, <2>4, <2>5 DEF Next
<1>3. IInv /\ Files => CleanFile
  <2> SUFFICES ASSUME IInv, Files PROVE CleanFile
    OBVIOUS
  <2> DEFINE Clean(file) ==
               LET names == file[1].cols
               IN  /\ file # << >> /\ file[1].kind = "header"
                   /\ \A i \in 2..Len(file) :
                         /\ file[i].kind = "row" /\ file[i].life = life
                         /\ Len(file[i].cols) <= Len(names)
                         /\ \A p \in DOMAIN file[i].cols :
                               file[i].cols[p] = file[i].counted[names[p]]
                   /\ \A i \in 3..Len(file) : \A p \in DOMAIN file[i].cols :
                         names[p] \in Growing => file[i - 1].cols[p] <= file[i].cols[p]
  <2>1. ASSUME NEW file, NEW names, NEW w, KeptFile(file, names, w, life), w <= Len(names)
        PROVE  Clean(file)
    <3>1. file # << >> /\ file[1].kind = "header" /\ file[1].cols = names
      BY <2>1 DEF KeptFile
    <3>2. ASSUME NEW i \in 2..Len(file)
          PROVE  /\ file[i].kind = "row" /\ file[i].life = life
                 /\ Len(file[i].cols) <= Len(names) /\ DOMAIN file[i].cols = 1..w
                 /\ \A p \in DOMAIN file[i].cols :
                       file[i].cols[p] = file[i].counted[names[p]]
      BY <2>1 DEF KeptFile, Fits
    <3>3. ASSUME NEW i \in 3..Len(file), NEW p \in DOMAIN file[i].cols, names[p] \in Growing
          PROVE  file[i - 1].cols[p] <= file[i].cols[p]
      <4>1. i \in 2..Len(file)
        OBVIOUS
      <4>2. p \in 1..w
        BY <3>2, <4>1
      <4>3. QED
        BY <2>1, <3>3, <4>2 DEF KeptFile
    <3>4. QED
      BY <3>1, <3>2, <3>3
  <2>2. "csv" \in opened => Clean(csv)
    <3>1. ST_END - 1 <= Len(Columns("csv"))
      BY CsvColumns, StatAssumption
    <3>2. QED
      BY <2>1, <3>1 DEF Files, CsvFile
  <2>3. "csv_aux" \in opened => Clean(csv_aux)
    <3>1. DKAD_MAX + 1 + GP_MAX_HOPS <= Len(Columns("csv_aux"))
      BY AuxColumns, StatAssumption
    <3>2. QED
      BY <2>1, <3>1 DEF Files, AuxFile
  <2>4. opened \subseteq {"csv", "csv_aux"}
    BY DEF IInv, Types, File
  <2> HIDE DEF Clean
  <2>5. \A f \in opened : Clean(IF f = "csv" THEN csv ELSE csv_aux)
    BY <2>2, <2>3, <2>4
  <2>6. QED
    BY <2>5 DEF CleanFile, Clean
<1> QED
  BY Invariance, <1>1, <1>2, <1>3, PTL DEF Spec

=============================================================================
