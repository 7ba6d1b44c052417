CONSTANTS
  Handlers = {file, stdout, extra}
  file = file
  stdout = stdout
  extra = extra
  FirstHandlers <- MCFirstHandlers
  MaxRecords = 2
  MaxSyncs = 2
  MaxRemoves = 1
SPECIFICATION FairSpec
INVARIANT TypeOK
  
CHECK_DEADLOCK FALSE
