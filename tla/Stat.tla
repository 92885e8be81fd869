-------------------------------- MODULE Stat --------------------------------
(***************************************************************************)
(* The statistics of cht/stat.cpp over several lives of the process: the    *)
(* counters and their copies at the last rollover, which the control hook   *)
(* of cht/ctl.cpp reads, and the two CSV files, which outlive the process.  *)
(*                                                                          *)
(* A rollover is one callback.  Opening a file may fail, and the process    *)
(* may die, also between the two files.  A header or a row fits in the      *)
(* buffer of its stream and is written with one flush.  A file is            *)
(* positional: a row is a sequence of values, and only the header says what  *)
(* stands where.  Periods are measured by the steady clock; the time in a    *)
(* row is the wall clock's, which may be set to anything.                    *)
(***************************************************************************)
EXTENDS Integers, Sequences

CONSTANTS ST_END,           \* ST__ST_ENUM_END
          Ctr,              \* counters that st_inc counts
          Gauge,            \* counters that the spam filter sets
          STAT_HB_EVERY, STAT_CSV_EVERY,
          DKAD_MAX,         \* the largest distance, 160
          GP_MAX_HOPS,
          Wall,             \* what time(0) may give
          MaxCount,         \* bound on a counter
          MaxSize,          \* bound on a gauge
          MaxRollovers,     \* bound on the rollovers of a life
          MaxLate,          \* bound on the seconds from rollover to rollover
          MaxLives          \* bound on the lives

ASSUME StatAssumption ==
    /\ ST_END \in Nat /\ ST_END >= 2
    /\ Ctr \subseteq 1..(ST_END - 1) /\ Gauge \subseteq 1..(ST_END - 1)
    /\ Ctr \cap Gauge = {}
    /\ DKAD_MAX \in Nat /\ Wall \subseteq Nat
    /\ STAT_HB_EVERY \in Nat \ {0} /\ STAT_CSV_EVERY \in Nat \ {0}
    /\ GP_MAX_HOPS \in Nat /\ MaxCount \in Nat /\ MaxSize \in Nat
    /\ MaxRollovers \in Nat /\ MaxLate \in Nat /\ MaxLives \in Nat

VARIABLES up,               \* whether the process runs
          g_ctr, g_ctr_old, g_dkad_ctr, g_n_hops_ctr,
          st_time_now, st_time_old,
          write_csv, next_heartbeat, ctl_ping_window,
          csv, csv_aux,     \* the files
          clock,
          life,             \* the number of the life
          rollovers, beats, \* history of this life: rollovers and heartbeats
          opened,           \* history: the files that st_init opened in this life
          missed,           \* history: file -> rows of this life that were not written
          summed, spanned,  \* history: what the hooks of this life could see, added up
          born              \* history: when this life began

files == <<csv, csv_aux>>
counts == <<g_ctr, g_dkad_ctr, g_n_hops_ctr>>
clocks == <<st_time_now, st_time_old, clock>>
hooks == <<g_ctr_old, write_csv, next_heartbeat, ctl_ping_window, rollovers, beats,
           missed, summed, spanned>>
vars == <<up, counts, clocks, hooks, files, life, opened, born>>

stat == 0..(ST_END - 1)
Dkads == 0..DKAD_MAX
Hops == 0..GP_MAX_HOPS
File == {"csv", "csv_aux"}

\* The names in the headers: the time and the counters that the loop of st_init
\* passes, which ends before the last; all distances and all hops.
Named(what, from, to) == [i \in 1..(to - from + 1) |-> <<what, from + i - 1>>]
Columns(f) ==
    IF f = "csv" THEN <<<<"time", 0>>>> \o Named("stat", 1, ST_END - 2)
    ELSE Named("dkad", 0, DKAD_MAX) \o Named("gp_hops", 0, GP_MAX_HOPS)
Header(f) == [kind |-> "header", life |-> life', cols |-> Columns(f)]
Zero == [s \in stat |-> 0]

-----------------------------------------------------------------------------
\* The statics of a process that has not started are zero.
Init ==
    /\ up = FALSE
    /\ g_ctr = Zero /\ g_ctr_old = Zero
    /\ g_dkad_ctr = [d \in Dkads |-> 0] /\ g_n_hops_ctr = [n \in Hops |-> 0]
    /\ st_time_now = 0 /\ st_time_old = 0
    /\ write_csv = 0 /\ next_heartbeat = 0 /\ ctl_ping_window = 0
    /\ csv = << >> /\ csv_aux = << >>
    /\ clock = 1
    /\ life = 0 /\ rollovers = 0 /\ beats = 0
    /\ opened = {} /\ missed = [f \in File |-> 0]
    /\ summed = [s \in Ctr |-> 0] /\ spanned = 0 /\ born = 0

\* The process is gone, and with it everything but the files.  The steady clock
\* of a new process has nothing to do with that of the old one.
Lost ==
    /\ up' = FALSE
    /\ clock' = 1
    /\ g_ctr' = Zero /\ g_ctr_old' = Zero
    /\ g_dkad_ctr' = [d \in Dkads |-> 0] /\ g_n_hops_ctr' = [n \in Hops |-> 0]
    /\ st_time_now' = 0 /\ st_time_old' = 0
    /\ write_csv' = 0 /\ next_heartbeat' = 0 /\ ctl_ping_window' = 0
    /\ rollovers' = 0 /\ beats' = 0 /\ missed' = [f \in File |-> 0]
    /\ summed' = [s \in Ctr |-> 0] /\ spanned' = 0 /\ born' = 0

\* st_init opens a file with "w" and writes its header.
Created(file, f, ok) == IF f \in ok THEN <<Header(f)>> ELSE file

RolloverTime == st_time_old' = st_time_now /\ st_time_now' = clock'

\* A process starts and calls st_init.  ok are the files that can be opened.
StInit(ok) ==
    /\ ~ up /\ life < MaxLives
    /\ up' = TRUE /\ life' = life + 1 /\ born' = clock
    /\ UNCHANGED clock
    /\ RolloverTime
    /\ csv' = Created(csv, "csv", ok) /\ csv_aux' = Created(csv_aux, "csv_aux", ok)
    /\ opened' = ok
    /\ UNCHANGED <<counts, hooks>>

\* A life is followed up to its last rollover.
Running == up /\ rollovers < MaxRollovers

StInc(s) ==
    /\ Running /\ g_ctr[s] < MaxCount
    /\ g_ctr' = [g_ctr EXCEPT ![s] = @ + 1]
    /\ UNCHANGED <<up, g_dkad_ctr, g_n_hops_ctr, clocks, hooks, files, life, opened, born>>

\* find_best_hops counts the distance of every node of a reply to its target.
StClickDkad(d) ==
    /\ Running /\ g_dkad_ctr[d] < MaxCount
    /\ g_dkad_ctr' = [g_dkad_ctr EXCEPT ![d] = @ + 1]
    /\ UNCHANGED <<up, g_ctr, g_n_hops_ctr, clocks, hooks, files, life, opened, born>>

\* A lookup that found peers: get_tok_hops is the hop of a registered query,
\* which register_q_gp_ihash keeps at most GP_MAX_HOPS, and hop 0 is not counted.
StClickGpNHops(n) ==
    /\ Running /\ n > 0 /\ g_n_hops_ctr[n] < MaxCount
    /\ g_n_hops_ctr' = [g_n_hops_ctr EXCEPT ![n] = @ + 1]
    /\ UNCHANGED <<up, g_ctr, g_dkad_ctr, clocks, hooks, files, life, opened, born>>

-----------------------------------------------------------------------------
\* spam_run_epoch sets the sizes of its tables.
Epoch(sizes) == [s \in stat |-> IF s \in Gauge THEN sizes[s] ELSE g_ctr[s]]

\* ctl_rollover_hook: at this commit it does nothing but move its window.
Hook == ctl_ping_window' = (ctl_ping_window + 1) % 256

\* What the hook is called for, "to compute control parameters from the value of
\* the counters and their values at the previous rollover": the differences
\* that st_get and st_get_old would tell it, and the time that they took.
HookSees(ctr, old) ==
    /\ summed' = [s \in Ctr |-> summed[s] + ctr[s] - old[s]]
    /\ spanned' = spanned + st_time_now' - st_time_old'

\* Mutation: a heartbeat costs a rollover.
Heartbeat_skip ==
    IF next_heartbeat # STAT_HB_EVERY
    THEN next_heartbeat' = next_heartbeat + 1 /\ UNCHANGED beats
    ELSE next_heartbeat' = 0 /\ beats' = beats + 1

Heartbeat ==
    IF next_heartbeat # STAT_HB_EVERY - 1
    THEN next_heartbeat' = next_heartbeat + 1 /\ UNCHANGED beats
    ELSE next_heartbeat' = 0 /\ beats' = beats + 1

Due == write_csv = STAT_CSV_EVERY - 1

\* History: what the columns of a file should tell when a row is written at t.
Counted(f, ctr, t) ==
    IF f = "csv"
    THEN [c \in {<<"time", 0>>} \cup ({"stat"} \X (1..(ST_END - 2))) |->
             IF c[1] = "time" THEN t ELSE ctr[c[2]]]
    ELSE [c \in ({"dkad"} \X Dkads) \cup ({"gp_hops"} \X Hops) |->
             IF c[1] = "dkad" THEN g_dkad_ctr[c[2]] ELSE g_n_hops_ctr[c[2]]]

\* The row of the counters: the time and the loop over the counters.
Row(ctr, t) ==
    [kind |-> "row", life |-> life,
     cols |-> <<t>> \o [ix \in 1..(ST_END - 2) |-> ctr[ix]],
     counted |-> Counted("csv", ctr, t)]

\* Mutation: the loop over the distances ends as that over the hops does.
RowAux_short ==
    [kind |-> "row", life |-> life,
     cols |-> [i \in 1..DKAD_MAX |-> g_dkad_ctr[i - 1]]
                 \o [i \in 1..GP_MAX_HOPS |-> g_n_hops_ctr[i - 1]],
     counted |-> Counted("csv_aux", g_ctr, 0)]

\* The auxiliary row: the loop over the distances up to the last, and that over
\* the hops below GP_MAX_HOPS.
RowAux ==
    [kind |-> "row", life |-> life,
     cols |-> [i \in 1..(DKAD_MAX + 1) |-> g_dkad_ctr[i - 1]]
                 \o [i \in 1..GP_MAX_HOPS |-> g_n_hops_ctr[i - 1]],
     counted |-> Counted("csv_aux", g_ctr, 0)]

Appended(file, f, ok, row) == IF Due /\ f \in ok THEN Append(file, row) ELSE file

\* Mutation: the counters are copied before the hook runs.
Roll_late(sizes, late) ==
    /\ Running
    /\ rollovers' = rollovers + 1
    /\ clock' = clock + late
    /\ g_ctr' = Epoch(sizes)
    /\ RolloverTime
    /\ Hook /\ HookSees(g_ctr', g_ctr')
    /\ g_ctr_old' = g_ctr'
    /\ Heartbeat
    /\ write_csv' = IF Due THEN 0 ELSE write_csv + 1

\* What a rollover does before it writes.
Roll(sizes, late) ==
    /\ Running
    /\ rollovers' = rollovers + 1
    /\ clock' = clock + late
    /\ g_ctr' = Epoch(sizes)
    /\ RolloverTime
    /\ Hook /\ HookSees(g_ctr', g_ctr_old)
    /\ g_ctr_old' = g_ctr'
    /\ Heartbeat
    /\ write_csv' = IF Due THEN 0 ELSE write_csv + 1

Missed(ok) == missed' = [f \in File |-> missed[f] + IF Due /\ f \notin ok THEN 1 ELSE 0]

\* Mutation: a row that cannot be written to the first file ends the rollover.
StRollover_return(sizes, late, t, ok) ==
    /\ Roll(sizes, late)
    /\ csv' = Appended(csv, "csv", ok, Row(g_ctr', t))
    /\ csv_aux' = IF "csv" \in ok THEN Appended(csv_aux, "csv_aux", ok, RowAux) ELSE csv_aux
    /\ Missed(ok)
    /\ UNCHANGED <<up, g_dkad_ctr, g_n_hops_ctr, life, opened, born>>

\* st_rollover at wall-clock time t.  ok are the files that can be opened.
StRollover(sizes, late, t, ok) ==
    /\ Roll(sizes, late)
    /\ csv' = Appended(csv, "csv", ok, Row(g_ctr', t))
    /\ csv_aux' = Appended(csv_aux, "csv_aux", ok, RowAux)
    /\ Missed(ok)
    /\ UNCHANGED <<up, g_dkad_ctr, g_n_hops_ctr, life, opened, born>>

\* The process dies between two callbacks.
Die ==
    /\ up /\ Lost
    /\ UNCHANGED <<files, life, opened>>

\* The process dies between the two rows of a rollover.
DieBetweenRows(sizes, t, ok) ==
    /\ Running /\ Due
    /\ Lost
    /\ csv' = Appended(csv, "csv", ok, Row(Epoch(sizes), t))
    /\ UNCHANGED <<csv_aux, life, opened>>

Next ==
    \/ \E ok \in SUBSET File : StInit(ok)
    \/ \E s \in Ctr : StInc(s)
    \/ \E d \in Dkads : StClickDkad(d)
    \/ \E n \in Hops : StClickGpNHops(n)
    \/ \E sizes \in [Gauge -> 0..MaxSize], t \in Wall, ok \in SUBSET File :
          \/ \E late \in 1..MaxLate : StRollover(sizes, late, t, ok)
          \/ DieBetweenRows(sizes, t, ok)
    \/ Die

Spec == Init /\ [][Next]_vars

-----------------------------------------------------------------------------
\* Types.
TypeOK ==
    /\ g_ctr \in [stat -> Nat] /\ g_ctr_old \in [stat -> Nat]
    /\ g_dkad_ctr \in [Dkads -> Nat] /\ g_n_hops_ctr \in [Hops -> Nat]
    /\ ctl_ping_window \in 0..255
    /\ write_csv \in 0..(STAT_CSV_EVERY - 1)
    /\ next_heartbeat \in 0..(STAT_HB_EVERY - 1)

\* What the hooks of a life are given adds up: every count falls into the
\* difference between st_get and st_get_old at exactly one rollover, and the
\* periods cover the life from st_init to the last rollover without gap or
\* overlap.  (The hook of this commit takes no difference yet.)
PeriodsAddUp ==
    /\ \A s \in Ctr : summed[s] = g_ctr_old[s] /\ g_ctr_old[s] <= g_ctr[s]
    /\ up => spanned = st_time_now - born

\* "Print a heartbeat message ever X rollovers", and "Save the csv data every X
\* rollovers": neither schedule slips, although one early return and two file
\* errors lie on the way, and a row that is due is missing only when its file
\* could not be opened or the process died over it.
Schedule ==
    /\ rollovers = beats * STAT_HB_EVERY + next_heartbeat
    /\ (up /\ "csv" \in opened) =>
          (Len(csv) - 1 + missed["csv"]) * STAT_CSV_EVERY + write_csv = rollovers
    /\ (up /\ "csv_aux" \in opened) =>
          (Len(csv_aux) - 1 + missed["csv_aux"]) * STAT_CSV_EVERY + write_csv = rollovers

\* The columns of what is only ever counted up.
Growing == ({"stat"} \X Ctr) \cup ({"dkad"} \X Dkads) \cup ({"gp_hops"} \X Hops)

\* A file that st_init could open can be read by its header, as eyes.py does: the
\* header is its first line and the only one, its rows are of this life, the
\* value at each position of a row is what was counted, at that rollover, of the
\* name that the header has at that position, and no count shrinks from row to
\* row.  A row may be shorter than the header, as the auxiliary rows are.  The
\* times are the wall clock's and need not grow.
CleanFile ==
    \A f \in opened :
        LET file == IF f = "csv" THEN csv ELSE csv_aux
            names == file[1].cols
        IN  /\ file # << >> /\ file[1].kind = "header"
            /\ \A i \in 2..Len(file) :
                  /\ file[i].kind = "row" /\ file[i].life = life
                  /\ Len(file[i].cols) <= Len(names)
                  /\ \A p \in DOMAIN file[i].cols :
                        file[i].cols[p] = file[i].counted[names[p]]
            /\ \A i \in 3..Len(file) : \A p \in DOMAIN file[i].cols :
                  names[p] \in Growing => file[i - 1].cols[p] <= file[i].cols[p]

=============================================================================
