SPECIFICATION Spec
CONSTANTS
    Width = 128
    Behind = 4
    Ahead = 79
    StatusSize = 3
    OtherSize = 6
    Plans <- MCPlans
    Firsts = {0, 120}
    MaxLost = 2
INVARIANT TypeOK
PROPERTIES OwnReplyRead EachReadIsNew
CHECK_DEADLOCK FALSE
