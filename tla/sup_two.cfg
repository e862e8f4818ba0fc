SPECIFICATION Spec
CONSTANTS
  u1 = u1
  u2 = u2
  Units = {u1, u2}
  Failures = {}
  ClientsIn = {"out", "in", "exiting"}
  CancelIn = {"in"}
INVARIANTS StartIsFresh NoEarlyCancel NoStuckStop CleanExit QueueBounded
PROPERTY LifecycleSpec
ACTION_CONSTRAINT TwoUnitBounds
VIEW GuardView
SYMMETRY Symmetry
