SPECIFICATION FairSpec
CONSTANTS
    LazySend = FALSE
    Kinds = {"exec", "query", "stmtExec", "stmtQuery", "stmtClose", "begin", "ping", "immediate"}
    Shapes = {"dml", "select", "proc"}
    Contexts = {"deadline"}
    TxContexts = {"none"}
    PingContexts = {"cancel"}
    RawContexts = {"deadline"}
    Params = {}
    Columns <- NoColumns
    Faults = {"ctxstall", "doomstall", "stall"}
    Fallible = {}
    MaxCalls = 2
    MaxRows = 1
    MaxTries = 1
PROPERTY CallsReturn
