SPECIFICATION Spec
CONSTANTS
  a = a
  b = b
  c = c
  p = p
  q = q
  ip = ip
  iq = iq
  t1 = t1
  t2 = t2
  u = u
  Entries = {a, b}
  Processes = {p}
  Instances <- OneInstance
  Threads <- PairThreads
  ProcessOf <- OneProcessOf
  InstanceOf <- PairInstanceOf
  Asks <- OneEach
  MaxLines = 2
  Faults = {"crash", "io", "cut", "remove", "edit", "relock", "unwitness"}
  MaxFaults = 2
  MaxFiles = 3
SYMMETRY WriterSymmetry
INVARIANTS CurrentMeansHeld
PROPERTIES HeldNeverShrinks NoLineDropped NoOversizeWrite
