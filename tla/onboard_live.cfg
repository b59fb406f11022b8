SPECIFICATION LiveSpec
CONSTANTS
    t1 = t1
    t2 = t2
    acct = acct
    k1 = k1
    k2 = k2
    Timers = {t1, t2}
    NoMac = NoMac
    Jobs = {1, 2}
    NoJob = NoJob
    Rest = Rest
    Cli = Cli
    Keys = {acct, k1}
    AccountKey = acct
    Fresh = Fresh
    NoOne = NoOne
    Modes = {"orbit", "self", "register"}
    Listed = {t1}
    Outside = {"app", "drop", "cancel", "crash"}
    Faults = {"cloud", "probe", "write", "catch", "setup"}
    ReconnectAttempts = 2
    MaxFlows = 2
    MaxOutside = 1
PROPERTIES OnePressOneStep JobMovesOn
CHECK_DEADLOCK FALSE
