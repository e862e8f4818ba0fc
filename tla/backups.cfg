SPECIFICATION Spec
CONSTANTS
  MaxBackups = 3
  Interval = 2
  MaxRetries = 2
  MaxStep = 3
  MaxTime = 14
  Older = {0, 1, 3, 4}
  RolledBack = {4}
INVARIANTS StaleAsMeant SuspendedByAbort
PROPERTIES AtMostMax OldestKept NeverEmptied NewBackupKept
