SPECIFICATION Spec
CONSTANTS
    t1 = t1
    t2 = t2
    Timers = {t1}
    Target = t1
    Wanted = {}
    Key = Key
    OtherKey = OtherKey
    Fresh = Fresh
    Cycles = 4
    MinCycles = 3
    Attempts = 3
    Faults = {"reset", "asleep", "provision", "volatile", "actuate",
              "unheard", "skipped"}
INVARIANTS TypeOK PassMeansDurable
CHECK_DEADLOCK FALSE
