SPECIFICATION VoiceSpec
CONSTANTS
    Jobs <- MCJobs
    Workers = {w1, w2}
    Resources = {}
    Series = {}
    NoJob = NoJob
    NoWorker = NoWorker
    NoResource = NoResource
    NoSeries = NoSeries
    KeyOf <- MCKeyOf
    SeriesOf <- MCSeriesOf
    IndexOf <- MCIndexOf
    CanRun <- MCCanRun
    MaxAttempts <- MCMaxAttempts
    Stoppable = {}
    Reconcilable = {}
    Lease = 2
    MaxLag = 0
    FollowUp = {}
    QaReady = {}
    Prompt = FALSE
    MaxFaults = 1
    QaJobs = {1}
    AlignJobs = {2}
    NoTake = NoTake
SYMMETRY MCSymmetry
INVARIANTS
    ReviewedTakeVerified
PROPERTIES
    DecisionKept
