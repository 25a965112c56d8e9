SPECIFICATION FairSpec
CONSTANTS
  a = a
  b = b
  c = c
  p = p
  q = q
  ip = ip
  iq = iq
  t1 = t1
  t2 = t2
  u = u
  Entries = {a}
  Processes = {p, q}
  Instances <- MCInstances
  Threads <- MCThreads
  ProcessOf <- MCProcessOf
  InstanceOf <- MCInstanceOf
  Asks <- OneEach
  MaxLines = 2
  Faults = {"io"}
  MaxFaults = 1
  MaxFiles = 9
PROPERTIES RevokeFinishes AckedSpreads
