SPECIFICATION Spec
CONSTANTS
    LazySend = TRUE
    Kinds = {"stmtQuery"}
    Shapes = {"proc"}
    Contexts = {"none"}
    TxContexts = {"none"}
    PingContexts = {"none"}
    RawContexts = {"none"}
    Params = {}
    Columns <- NoColumns
    Faults = {}
    Fallible = {}
    MaxCalls = 2
    MaxRows = 1
    MaxTries = 1
INVARIANTS AckedApplied
