SPECIFICATION Spec
CONSTANTS
  a = a
  b = b
  c = c
  p = p
  q = q
  ip = ip
  iq = iq
  t1 = t1
  t2 = t2
  u = u
  Entries = {a}
  Processes = {p, q}
  Instances <- MCInstances
  Threads <- TwoThreads
  ProcessOf <- MCProcessOf
  InstanceOf <- TwoInstanceOf
  Asks <- OneEach
  MaxLines = 2
  Faults = {}
  MaxFaults = 0
  MaxFiles = 9
SYMMETRY EntrySymmetry
INVARIANTS LostMeansLoss
