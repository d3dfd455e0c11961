SPECIFICATION PartsSpec
CONSTANTS
    Second = 10
    ScanSlack = 1
    MinCut = 2
    MaxGap = 2
    Pause = 1
    TailMax = 2
    Visible = 6
    MaxCandidates = 2
    MaxStills = 3
    MaxConcept = 2
    Tolerance = 3
    MaxLeading = 1
    MaxSilence = 2
    MinQuiet = 1
    Duration = 4
    MinClip = 2
    Boundaries <- SceneCuts
    Readings <- Speech
    a1 = a1
    a2 = a2
    t1 = t1
    v1 = v1
    v2 = v2
    s1 = s1
    f1 = f1
    Attempts = {a1, a2, t1, v1, v2, s1}
    JobOf <- LibraryJobs
    KindOf <- LibraryKinds
    Brought <- Analysed
    Foreign = {f1}
    IdOrder <- IdsOrdered
    None = None
    Observations = {"o1", "o2"}
    Limits = {"l1"}
    Uses <- Looks
    RenderJobs = {"j1"}
    Scripts = {"script", "rewritten"}
    MaxProfile = 2
    MaxEdits = 5
    Revisions = 2
    Tries = 2
    MaxSeen = 2
    MaxFacts = 1
    Size = 2
    SliceTries = 2
    Tick = 2
    Frame = 2
    ModelWindow = 2
    Lead = 3
    MaxTrail = 3
    Short = 2
INVARIANTS
    RulesSound
    LibraryHolds
    RepairHolds
    CollectionHolds
PROPERTIES
    OthersKept
    DeskSound
    PolicyKept
CHECK_DEADLOCK FALSE
