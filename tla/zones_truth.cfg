SPECIFICATION LiveSpec
CONSTANTS
    tm1 = tm1
    tm2 = tm2
    r1 = r1
    r2 = r2
    r3 = r3
    Timers = {tm1, tm2}
    NoTimer = NoTimer
    ZoneCount = 1
    Tasks = {r1, r2}
    Starters = {r1, r2}
    Events = {"zone start", "stop all", "reconcile", "start", "stop", "fire", "crash"}
    Faults = {"early", "late", "disk"}
    Mqtt = FALSE
    RetryAttempts = 2
    Configured <- MCTwoTimers
PROPERTIES BelievedOnlyWhenWatering StopAllReportsOff RequestsAnswered StaleBeliefCorrected
