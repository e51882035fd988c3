CONSTANTS
  Runs <- MCRuns
  Handlers <- MCHandlers
  Setups <- MCSetups
SPECIFICATION FairSpec
CHECK_DEADLOCK FALSE
INVARIANTS
  TypeOK
  ReportsAreReplaced
  

  
