SPECIFICATION Spec
CONSTANTS
  Keys = {"a", "b"}
  Order <- OrderAB
  UIDs = {t, u}
  Limits = {1}
  Inherited = FALSE
  MaxFailures = 0
  MaxCrashes = 0
  MaxChanges = 2
  Successors = {}
  Cancellations = {"a"}
  Replacements = {"a"}
  Removals = {NoRepository}
  Workers = {"a", "b"}
  Lists <- MCLists
  NoQueue = NoQueue
  NoAdmission = NoAdmission
  NoOwner = NoOwner
  NoLease = NoLease
  Stale = Stale
  NoRun = NoRun
  NoKey = NoKey
  NoRepository = NoRepository
SYMMETRY SymmetricUIDs
INVARIANTS
  SlotsBelongToRuns
PROPERTIES
  NeverRevived
CHECK_DEADLOCK FALSE
