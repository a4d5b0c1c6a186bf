SPECIFICATION Spec
CONSTANTS
    LazySend = FALSE
    Kinds = {"exec", "query", "begin", "stmtExec", "stmtQuery", "immediate"}
    Shapes = {"dml", "select"}
    Contexts = {"none", "deadline"}
    TxContexts = {"none"}
    PingContexts = {"none"}
    RawContexts = {"none"}
    Params = {}
    Columns <- BlobOnly
    Faults = {"ctxstall", "doomstall", "death"}
    Fallible = {"prepare", "execute", "commit", "transaction", "commit_retaining",
                "execute_immediate"}
    MaxCalls = 3
    MaxRows = 1
    MaxTries = 1
INVARIANTS AckedApplied OnlyByCommit NoPanic
