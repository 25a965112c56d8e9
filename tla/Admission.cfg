SPECIFICATION FairAdmissionSpec
CONSTANTS
  peer = peer
  token = token
  p = p
  q = q
  ip = ip
  iq = iq
  t1 = t1
  u = u
  r1 = r1
  r2 = r2
  Entries = {peer, token}
  Processes = {p, q}
  Instances <- MCInstances
  Threads <- MCThreads
  ProcessOf <- MCProcessOf
  InstanceOf <- MCInstanceOf
  Asks <- OneEach
  MaxLines = 2
  Faults = {}
  MaxFaults = 0
  MaxFiles = 3
  Rulings = {r1, r2}
  Server = ip
  Peer = peer
  Token = token
  StatDebounce = 2
  MaxTime = 3
  MaxCalls = 1
INVARIANTS LiveWithinOneInterval
PROPERTIES RulingEnds
CHECK_DEADLOCK FALSE
