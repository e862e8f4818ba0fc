SPECIFICATION FairSpec
CONSTANTS
  p1 = p1
  b1 = b1
  b2 = b2
  i1 = i1
  i2 = i2
  a1 = a1
  a2 = a2
  a3 = a3
  s1 = s1
  s2 = s2
  Sessions = {s1, s2}
  Players = {p1}
  Backends = {b1, b2}
  Addrs = {a1, a2, a3}
  Ips = {i1, i2}
  PlayerOf <- MCPlayerOf
  BackendOf <- MCBackendOf
  IpOf <- MCIpOf
  IdOf <- DistinctIds
  HostOf <- MCHostOf
  QueueSize = 1
  IpBinding = TRUE
INVARIANTS OwnEntryOnly NoLeak StoppedClean
PROPERTIES KeepsSelected StraysFromCreation AbandonedCloses
