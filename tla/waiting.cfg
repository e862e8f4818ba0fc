SPECIFICATION WaitFairSpec
CONSTANTS
  u1 = u1
  c1 = c1
  Units = {u1}
  Failures = {"error"}
  ClientsIn = {"out", "in"}
  CancelIn = {}
  Clients = {c1}
  Backend = u1
  Callers = {"entering", "exiting"}
PROPERTIES AnswersAgree WakesAgain WaitsEnd
ACTION_CONSTRAINT BackendBounds
