SPECIFICATION FairSpec
CONSTANTS
  Backends = {b1, b2}
  Voiced = {b1}
  Ports = {1, 2, 3, 4, 5}
  Configs <- MCConfigs
INVARIANT DoneBeingUsed
