\* Three lines, rotation off or after every line, suffixes past the largest, two calls.
CONSTANTS
  Bases = {"log0", "log1", "log2"}
  FirstBase = "log0"
  MaxSizes = {0, 1}
  MaxSuffix = 1
  MaxLines = 3
  MaxCalls = 2
SPECIFICATION FairSpec
INVARIANT LogsAgree
 
CHECK_DEADLOCK FALSE
