CONSTANTS
    ST_END = 4
    Ctr = {2}
    Gauge = {3}
    STAT_HB_EVERY = 3
    STAT_CSV_EVERY = 2
    DKAD_MAX = 0
    GP_MAX_HOPS = 2
    Wall = {9}
    MaxCount = 1
    MaxSize = 1
    MaxRollovers = 4
    MaxLate = 1
    MaxLives = 2
SPECIFICATION Spec
INVARIANTS TypeOK PeriodsAddUp Schedule CleanFile
CHECK_DEADLOCK FALSE
