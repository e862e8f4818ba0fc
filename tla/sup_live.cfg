SPECIFICATION FairSpec
CONSTANTS
  u1 = u1
  Units = {u1}
  Failures = {"error"}
  ClientsIn = {"out", "in"}
  CancelIn = {}
INVARIANTS StartPromise StopPromise
PROPERTIES StopTerminates StartTerminates ExitTerminates
