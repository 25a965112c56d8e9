SPECIFICATION Spec
CONSTANTS
  a = a
  b = b
  c = c
  p = p
  q = q
  ip = ip
  iq = iq
  t1 = t1
  t2 = t2
  u = u
  Entries = {a}
  Processes = {p}
  Instances <- OneInstance
  Threads <- PairThreads
  ProcessOf <- OneProcessOf
  InstanceOf <- PairInstanceOf
  Asks <- OneEach
  MaxLines = 2
  Faults = {"crash", "io", "cut"}
  MaxFaults = 3
  MaxFiles = 9
SYMMETRY EntrySymmetry
INVARIANTS AckedSurvivesPowerCut
