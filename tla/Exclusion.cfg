SPECIFICATION ExclusionSpec
CONSTANTS
  a = a
  b = b
  p = p
  q = q
  ip = ip
  iq = iq
  t1 = t1
  u = u
  Entries = {a, b}
  Processes = {p, q}
  Instances <- MCInstances
  Threads <- MCThreads
  ProcessOf <- MCProcessOf
  InstanceOf <- MCInstanceOf
  Asks <- OneEach
  MaxLines = 2
  Faults = {"relock"}
  MaxFaults = 1
  OwnLockers = {p}
  Asked = {ip}
  MaxCalls = 3
  MaxFiles = 4
SYMMETRY EntrySymmetry
INVARIANTS LostOnlyWhereWritersMet MeetOnlyAcrossSwap LoserStillRefuses
PROPERTIES NextWriteRestores
