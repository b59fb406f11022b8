SPECIFICATION Spec
CONSTANTS
    m1 = m1
    m2 = m2
    DayLength = 5
    Valves = {1}
    Macs = {m1, m2}
    NoTimer = NoTimer
    Configured <- MCConfigured
    Programs <- MCPrograms
    Grace = 2
    TickMinutes = 1
    LastDay = 1
    NoRun = NoRun
    Events = {"fail", "edit", "remove", "enable", "onboard", "clock", "crash"}
    MaxEvents = 2
INVARIANTS TypeOK FiredOnce LastRunsTrue WindowUsed NextDueIsFirst
