SPECIFICATION QueueSpec
CONSTANTS
    w1 = w1
    w2 = w2
    gpu = gpu
    s = s
    Jobs <- MCJobs
    Workers = {w1, w2}
    Resources = {gpu}
    Series = {s}
    NoJob = NoJob
    NoWorker = NoWorker
    NoResource = NoResource
    NoSeries = NoSeries
    KeyOf <- MCKeyOf
    SeriesOf <- MCSeriesOf
    IndexOf <- MCIndexOf
    CanRun <- MCCanRun
    MaxAttempts <- MCMaxAttempts
    Stoppable = {3}
    Reconcilable = {4}
    Lease = 2
    MaxLag = 1
    PlanChoices = {"plain", "bold"}
    FirstChoice = "plain"
    MaxSaves = 1
    MaxFiles = 2
    MaxRuns = 2
    MaxWaiting = 2
    MaxClicks = 3
INVARIANTS
    SeriesInOrder
    PageHolds
PROPERTIES
    ResourceLocks
    Lifecycle
