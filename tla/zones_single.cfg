SPECIFICATION LiveSpec
CONSTANTS
    tm1 = tm1
    tm2 = tm2
    r1 = r1
    r2 = r2
    r3 = r3
    Timers = {tm1, tm2}
    NoTimer = NoTimer
    ZoneCount = 2
    Tasks = {r1, r2, r3}
    Starters = {r1}
    Events = {"zone start", "reconcile", "stop", "onboard"}
    Faults = {"early", "lost"}
    Mqtt = FALSE
    RetryAttempts = 3
    Configured <- MCTwoTimers
INVARIANTS AtMostOneOpen ExclusionInv
PROPERTIES ClearedOnlyWhenOff OneZoneSpec RequestsAnswered
