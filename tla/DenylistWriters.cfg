SPECIFICATION Spec
CONSTANTS
  a = a
  b = b
  c = c
  p = p
  q = q
  ip = ip
  iq = iq
  t1 = t1
  t2 = t2
  u = u
  Entries = {a, b}
  Processes = {p, q}
  Instances <- MCInstances
  Threads <- MCThreads
  ProcessOf <- MCProcessOf
  InstanceOf <- MCInstanceOf
  Asks <- OneEach
  MaxLines = 2
  Faults = {"crash"}
  MaxFaults = 1
  MaxFiles = 9
SYMMETRY WriterSymmetry
INVARIANTS TypeOK AckedInFile WrittenSurvivesPowerCut WitnessNeverAhead
PROPERTIES StartHoldsEveryAck ImplementsStore
