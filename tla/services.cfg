SPECIFICATION Spec
CONSTANTS
  Calls = {"attach", "verbose", "users", "limbo", "text", "list", "trace", "pause", "resume", "stop", "close"}
  MaxCalls = 2
  MaxTrace = 5
  MaxOut = 2
  MaxFaults = 1
  WaitForReader = TRUE
INVARIANTS Whole Released StateHonest Paired
PROPERTIES CallsEnd
CHECK_DEADLOCK FALSE
