SPECIFICATION MCServicesSpec
CONSTANTS
  MaxAttempts <- MCAttempts
  MaxWaits <- MCWaits
CHECK_DEADLOCK FALSE
INVARIANTS
  RetriesAreSafe
  ResolutionIsOfTheDefinition
  RolesAreAskedApart
  SettingsFollowTheConfigMap
PROPERTIES
  RotationIsSafe
  CleanupKeepsTheNewest
  HostsAreTrustedByPolicy
