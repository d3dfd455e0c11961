SPECIFICATION TalkingSpec
CONSTANTS
    Scenes = {s1}
    Contents = {c1, c2}
    Allowance = 1
    MaxAttempts = 2
    MaxFaults = 1
    NoContent = NoContent
SYMMETRY MCSymmetry
INVARIANTS
    SceneStands
    AdmittedAsReviewed
PROPERTIES
    JudgmentKept
    RenderEarned
CHECK_DEADLOCK FALSE
