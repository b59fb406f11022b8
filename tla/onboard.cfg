SPECIFICATION Spec
CONSTANTS
    t1 = t1
    t2 = t2
    acct = acct
    k1 = k1
    k2 = k2
    Timers = {t1, t2}
    NoMac = NoMac
    Jobs = {1, 2}
    NoJob = NoJob
    Rest = Rest
    Cli = Cli
    Keys = {acct, k1, k2}
    AccountKey = acct
    Fresh = Fresh
    NoOne = NoOne
    Modes = {"self", "account", "reuse", "register", "provision"}
    Listed = {t1}
    Outside = {"reset", "power", "crash", "cancel"}
    Faults = {"cloud", "stash", "probe", "write", "setup"}
    ReconnectAttempts = 2
    MaxFlows = 2
    MaxOutside = 1
SYMMETRY SelfKeys
INVARIANTS TypeOK KeyNeverLost ProvisionedStaysKeyed SavedOnce LinksReleased
CHECK_DEADLOCK FALSE
