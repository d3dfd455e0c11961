SPECIFICATION TalkingSpec
CONSTANTS
    Scenes = {s1, s2}
    Contents = {c1}
    Allowance = 0
    MaxAttempts = 1
    MaxFaults = 0
    NoContent = NoContent
SYMMETRY MCSymmetry
INVARIANTS
    ReviewedAdmissible
CHECK_DEADLOCK FALSE
