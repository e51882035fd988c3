SPECIFICATION Spec
CONSTANTS
  Events <- MCEvents
  EventOf <- MCEventOf
  Definitions <- MCDefinitions
  MatchedBy <- MCMatchedBy
  Annotation <- MCAnnotation
  RepositoryOf <- MCRepositoryOf
  Home = "home"
  Setups <- MCSetups
INVARIANT
  OnlyOlderRunsAreCancelled
CHECK_DEADLOCK FALSE
