SPECIFICATION Spec
CONSTANTS
  Keys = {a, b, c, d}
  Limits = {0, 1, 2, 3}
  Refused = Refused
  Ok = Ok
INVARIANTS
  TypeOK
  PermitsMatchRunning
  ClosedFormsAreTheLoops
PROPERTIES
  OrderIsKept
  ImplementsSlotPool
