SPECIFICATION DSpec
CONSTANTS
  Capability <- MCCapability
  Device <- MCDevice
  Comm <- MCComm
  KeyPath <- MCKeyPath
  Package <- MCPackage
  BuiltIn = "controllers"
  None = "None"
  MaxSteps = 3
  MaxSpawns = 3
  Board <- MCBoard
  Bench <- MCBench
  BoardOrder <- MCBoardOrder
  CommOrder <- MCCommOrder
  Criteria <- MCCriteria
  TypeFilter <- MCTypeFilter
  Flaky <- MCFlaky
  MaxGlitches = 1
INVARIANTS   ConfigurationIsRight
PROPERTY DetectionIsFaithful
CHECK_DEADLOCK FALSE
