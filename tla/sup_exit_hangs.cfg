SPECIFICATION FairSpec
CONSTANTS
  u1 = u1
  Units = {u1}
  Failures = {}
  ClientsIn = {"out", "in"}
  CancelIn = {"in"}
PROPERTY ExitTerminates
