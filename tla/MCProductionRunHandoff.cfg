SPECIFICATION FairRunSpec
CONSTANTS
    Runs = {r1}
    OtherTakes = {o1}
    Allowance = 0
    MaxAttempts = 2
    MaxVersion = 2
    MaxFaults = 1
    NoRow = NoRow
    NoJob = NoJob
    NoTake = NoTake
PROPERTIES
    Handoff
CHECK_DEADLOCK FALSE
