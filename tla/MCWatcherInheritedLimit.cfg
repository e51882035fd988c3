SPECIFICATION Spec
CONSTANTS
  Keys = {"a", "b"}
  Order <- OrderAB
  UIDs = {u}
  Limits = {1}
  Inherited = TRUE
  MaxFailures = 0
  MaxCrashes = 1
  MaxChanges = 0
  Successors = {"restart"}
  Cancellations = {}
  Replacements = {}
  Removals = {}
  Workers = {"a", "b"}
  Lists <- MCLists
  NoQueue = NoQueue
  NoAdmission = NoAdmission
  NoOwner = NoOwner
  NoLease = NoLease
  Stale = Stale
  NoRun = NoRun
  NoKey = NoKey
  NoRepository = NoRepository
INVARIANTS
  RunsWithinLimit
CHECK_DEADLOCK FALSE
