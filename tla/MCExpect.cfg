\* The stream: three transport processes, three lines and two calls, so that a
\* call can be nested in another and a transport can come or go in between.
\* The search: a window size of two, and patterns of up to three characters,
\* the longest that the window is sure to see, in texts cut in every way.
CONSTANTS
  MaxTransports = 3
  MaxLines = 3
  MaxExpects = 2
  Chars = {"a", "b"}
  SearchWindowSize = 2
  MaxPattern = 3
  MaxPatterns = 2
  MaxText = 6
  Modes = {"any", "all", "sequential"}
SPECIFICATION MCSpec
INVARIANTS MCTypeOK FlagsFollowUsers NoLineMissed SearchIsRight
 
CHECK_DEADLOCK FALSE
