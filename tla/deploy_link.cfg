SPECIFICATION Spec
CONSTANTS
    s1 = s1
    s2 = s2
    Scripts = {s1}
    MaxReleases = 2
    Keep = 1
    Events = {"change"}
    MaxChanges = 1
INVARIANT ConfigSurvives
CHECK_DEADLOCK FALSE
