CONSTANTS
  ClusterArgs = {1, 2}
  MaxOthers = 1
  SshTries = 2
  NoNode = NoNode
  Nodes = {n1, n2}
  Layouts <- MCLayouts
  MaxEndpointOps = 4
  MaxReports = 1
  MaxWpanCalls = 2
  MaxTries = 2
  MaxDatagrams = 1
  HubPorts = 2
  MaxHubCalls = 2
  MaxMeddling = 1
  EventKinds <- MCKinds
  FilterFiles <- MCFiles
  FilterPaths <- MCPaths
  Groups <- MCGroups
  LabelLists <- MCLists
  WaitLists <- MCWaits
  LogTexts <- MCTexts
  Cause = "trigger"
  Effect = "boot"
  MaxEvents = 3
  MaxClock = 2
  MaxQueries = 1
  MaxWork = 5
  ChunkSize = 2
  MaxAdbCalls = 2
  MaxAdbFaults = 2
  AdbTries = 2
  TransportKinds = {"serial", "tcp", "websocket", "process", "ssh", "pty", "jlink", "pwserial", "pwsocket"}
  MaxMessages = 3
  MaxLosses = 3
  MaxCommands = 3
  MaxReadErrors = 2
SPECIFICATION MCSpec
INVARIANTS
  ClusterCallsAreHonest
  
  CliIsInStep
  PortsAsAsked
  AnswersFromTheFile
  
  
CHECK_DEADLOCK FALSE
