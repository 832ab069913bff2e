CONSTANTS
    NULL = NULL
\* One datum, two trees in a file, one property changed by the caller.
    Values <- ValuesOf
    Ids = {1}
    Starts <- Callers
    MaxTrees = 2
    MaxSets = 1
    MaxErrors = 2
\* Up to 14 of the 18 data are bulk loaded; one is deleted out of turn.
    Config <- TreeConfigs
    Input <- Data
    BulkSizes = {1, 7, 14}
    Window <- Windows
    Place <- Places
    MaxDeletes = 1
SPECIFICATION Spec
INVARIANTS IndexValid QueriesExact VersionValid VersionsExact SettingsFit
PROPERTIES ImplementsIndex DataKept FailuresTold
CHECK_DEADLOCK FALSE
