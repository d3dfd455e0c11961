SPECIFICATION VoiceSpec
CONSTANTS
    Jobs <- MCJobs
    Workers = {w1, w2}
    Resources = {}
    Series = {}
    NoJob = NoJob
    NoWorker = NoWorker
    NoResource = NoResource
    NoSeries = NoSeries
    KeyOf <- MCKeyOf
    SeriesOf <- MCSeriesOf
    IndexOf <- MCIndexOf
    CanRun <- MCCanRun
    MaxAttempts <- MCMaxAttempts
    Stoppable = {}
    Reconcilable = {}
    Lease = 2
    MaxLag = 0
    FollowUp = {}
    QaReady = {}
    Prompt = TRUE
    MaxFaults = 0
    QaJobs = {1, 2}
    AlignJobs = {}
    NoTake = NoTake
PROPERTIES
    DecisionFinal
