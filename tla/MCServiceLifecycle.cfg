\* Two RPCs compete for one connection; the file is edited once.
CONSTANTS
    Calls = {c1, c2}
    PoolSize = 1
    MaxQueries = 1
    MaxEdits = 1
\* Once the process has ended nothing is left to do.
CHECK_DEADLOCK FALSE
SPECIFICATION Spec
INVARIANTS
    SettingsAreValid
    AdvertisedIsServing
    FailuresMeanShutdown
    ExitIsClean
PROPERTY HooksEnd
