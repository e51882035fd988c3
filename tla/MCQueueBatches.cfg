SPECIFICATION ManagerSpec
CONSTANTS
  Keys = {a, b, c}
  UIDs = {u}
  Workers = {v, w}
  Limits = {2}
  Lists <- MCPairs
  NoQueue = NoQueue
  NoAdmission = NoAdmission
  NoOwner = NoOwner
  NoLease = NoLease
  Stale = Stale
SYMMETRY Symmetry
CONSTRAINT TwoAdmissions
INVARIANTS
  ClaimsAreCandidates
  LeasedCandidatesRun
