SPECIFICATION Spec
CONSTANTS
    s1 = s1
    s2 = s2
    Scripts = {s1}
    MaxReleases = 4
    Keep = 1
    Events = {"rollback", "kill", "slow", "die", "change"}
    MaxChanges = 1
INVARIANTS CurrentStands RunningStays NoDowntimeLeft
CHECK_DEADLOCK FALSE
