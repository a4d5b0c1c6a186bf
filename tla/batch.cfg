SPECIFICATION FairSpec
CONSTANTS
    LazySend = TRUE
    Autocommit = TRUE
    FlushAt = 1
    Contexts = {"none", "cancel", "deadline"}
    Faults = {"stall", "death", "malformed"}
    Fallible = {"batch_create", "batch_msg", "batch_exec", "commit_retaining"}
    MaxRows = 3
    MaxCalls = 4
INVARIANTS AckedOrCut AtMostOnce RejectedUndone
PROPERTY ExecEnds
CHECK_DEADLOCK FALSE
