\* One server with two workers and three containers; the import of the third
\* arrives while the job runs; the job thread is killed at most once.
SPECIFICATION Spec
CONSTANTS
    Job = {j1}
    MaxWorkers = 2
    Container <- ThreeContainers
    Import <- ThreeImports
    Late = {"c"}
    containerOf <- OneEach
    MaxImportRetries = 2
    MaxKills = 1
INVARIANTS
    TypeOK
    WorkersCounted
PROPERTIES
    JobEndsIdle
    NothingLeftBehind
    JobsEnd
    EventuallyTried
CHECK_DEADLOCK FALSE
