SPECIFICATION Spec
CONSTANTS
  Clients = {c1}
  Queries = {q1}
  NCalls = 2
  ChannelCap = 1
  MaxDbs = 2
  MaxCrashes = 1
  MaxStarted = 1
  Budget = 3
INVARIANTS DroppedIsIdle OwnAnswer  
PROPERTIES HangUpEndsTx 
CHECK_DEADLOCK FALSE
