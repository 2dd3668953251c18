SPECIFICATION Spec
CONSTANTS
    h1 = h1
    h2 = h2
    Handlers <- MCHandlers
    MaxJobs = 1
    StopTimeout = TRUE
INVARIANTS
    TypeOK
    NoUseAfterClose
    ExitsCleanUp
    ReadyMeansUp
PROPERTY
    SignalEnds
CHECK_DEADLOCK FALSE
