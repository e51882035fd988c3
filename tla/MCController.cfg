SPECIFICATION Spec
CONSTANTS
  Events <- MCEvents
  EventOf <- MCEventOf
  Definitions <- MCDefinitions
  MatchedBy <- MCMatchedBy
  Annotation <- MCAnnotation
  RepositoryOf <- MCRepositoryOf
  Home = "home"
  Setups <- MCSetups
CHECK_DEADLOCK FALSE
INVARIANTS
  TypeOK
  BatchesAreNamed
  OneFailureLosesNothing
  OneByOneTheNewestRemains
  ClosingCancelsWhatWasThere
PROPERTIES
  NoRunWaitsForEver
