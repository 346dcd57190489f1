CONSTANTS
    Scripts = {"composite", "child"}
    Hosts = {1, 2}
    Packages = {1, 2}
    MaxRuns = 3
    CacheLimit = 2
SPECIFICATION RunsSpec
INVARIANT RerunRepeats
PROPERTY LeastIsRemoved
CHECK_DEADLOCK FALSE
