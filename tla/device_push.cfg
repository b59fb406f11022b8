SPECIFICATION LiveSpec
CONSTANTS
    a = a
    b = b
    c = c
    r1 = r1
    r2 = r2
    Runs = {a, b, c}
    NoRun = NoRun
    MaxPrograms = 2
    Programs <- MCPrograms
    Tasks = {r1, r2}
    Faults = {"drop", "unread"}
INVARIANTS TypeOK ScheduleKept RunsTheRules
PROPERTY ScheduleComesBack
