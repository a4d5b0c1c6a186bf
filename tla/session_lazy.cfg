SPECIFICATION Spec
CONSTANTS
    LazySend = TRUE
    Kinds = {"exec", "query", "stmtExec", "stmtQuery", "stmtClose", "scroll", "immediate"}
    Shapes = {"dml", "select", "proc"}
    Contexts = {"none", "cancel", "deadline"}
    TxContexts = {"none"}
    PingContexts = {"none"}
    RawContexts = {"none"}
    Params = {"blob", "array"}
    Columns <- ArrayBlob
    Faults = {"ctxstall", "doomstall", "death", "malformed"}
    Fallible = {"transaction", "prepare", "execute", "fetch", "slice",
                "get_segment", "commit_retaining",
                "execute_immediate", "create_blob", "put_slice"}
    MaxCalls = 2
    MaxRows = 1
    MaxTries = 1
INVARIANTS TypeOK StreamAligned PoolAligned AtMostOnce NoMisread CancelledEvicted
