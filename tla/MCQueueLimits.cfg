SPECIFICATION ManagerSpec
CONSTANTS
  Keys = {a, b}
  UIDs = {u}
  Workers = {v, w}
  Limits = {0, 1, 2}
  Lists <- MCLists
  NoQueue = NoQueue
  NoAdmission = NoAdmission
  NoOwner = NoOwner
  NoLease = NoLease
  Stale = Stale
SYMMETRY Symmetry
INVARIANTS
  SlotsAreAccounted
  OneWorkerPerAdmission
PROPERTIES
  SlotsGoInOrder
  HandsOffOnce
