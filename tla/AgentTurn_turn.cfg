CONSTANTS
  MaxTurns = 3
  KeepRecent = 4
  MaxRetries = 1
  MaxTools = 2
  MaxInputs = 2
  MaxFaults = 2
SPECIFICATION LiveSpec
INVARIANTS
  TypeOK
  NoOrphanResults
  ShownIsEndOfLog
  UnansweredByFaultOnly
PROPERTIES
  ImplementsConversation
  
CHECK_DEADLOCK FALSE
