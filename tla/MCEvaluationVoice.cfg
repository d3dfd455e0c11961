SPECIFICATION EvaluationVoiceSpec
CONSTANTS
    first = first
    again = again
    other = other
    take = take
    once = once
    plain = plain
    qa = qa
    useA = useA
    useB = useB
    Drafts <- MCDrafts
    Bytes <- MCBytes
    GrantOf <- MCGrantOf
    Once <- MCOnce
    QaGrantOf <- MCQaGrantOf
    Uses <- MCUses
    UseFor <- MCUseFor
    MaxAttempts = 2
    Faults = {"crash", "lapse", "commit"}
    MaxFaults = 1
    MaxUploads = 1
    MaxWithdrawn = 1
    Source = Source
    User = User
    None = None
INVARIANTS
    OneVoiceCall
    OutputsAccounted
    MasterEarned
PROPERTIES
    ActsAuthorised
SYMMETRY MCSymmetry
CHECK_DEADLOCK FALSE
