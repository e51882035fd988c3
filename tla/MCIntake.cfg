SPECIFICATION Spec
CONSTANTS
  Setups <- MCSetups
  Definitions <- MCDefinitions
CHECK_DEADLOCK FALSE
INVARIANTS
  TypeOK
  OutsidersWaitForAMember
  RunsAreOfTheirCommit
  NothingRunsUnasked
PROPERTIES
  SucceededRunsAreNotRetested
