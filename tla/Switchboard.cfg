\* Two ports, a log filter, one transport added later and two later starts.
CONSTANTS
  NumPorts = 2
  HasParser = TRUE
  MaxAdded = 1
  MaxStarts = 2
SPECIFICATION Spec
 
PROPERTY ProcessesAsPromised
CHECK_DEADLOCK FALSE
