SPECIFICATION FairRunnerSpec
CONSTANTS
    w1 = w1
    w2 = w2
    gpu = gpu
    Jobs <- MCJobs
    Workers = {w1, w2}
    Resources = {gpu}
    Series = {}
    NoJob = NoJob
    NoWorker = NoWorker
    NoResource = NoResource
    NoSeries = NoSeries
    KeyOf <- MCKeyOf
    SeriesOf <- Single
    IndexOf <- MCIndexOf
    CanRun <- LiveCanRun
    MaxAttempts <- MCMaxAttempts
    Stoppable = {2}
    Reconcilable = {}
    Lease = 3
    MaxLag = 1
    FollowUp = {1}
    QaReady = {w1, w2}
    Prompt = TRUE
    MaxFaults = 1
INVARIANTS
    CompletionEarned
    AttemptRunsOnce
    OverlapNeedsLostHeartbeat
PROPERTIES
    Settles
    CompletionFollowed
