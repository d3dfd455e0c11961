SPECIFICATION RunSpec
CONSTANTS
    Runs = {r1, r2}
    OtherTakes = {}
    Allowance = 1
    MaxAttempts = 1
    MaxVersion = 1
    MaxFaults = 1
    NoRow = NoRow
    NoJob = NoJob
    NoTake = NoTake
SYMMETRY MCSymmetry
INVARIANTS
    RunStands
PROPERTIES
    RenderedMaster
    ApprovedKept
CHECK_DEADLOCK FALSE
