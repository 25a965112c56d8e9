SPECIFICATION Spec
CONSTANTS
  r = r
  o = o
  x = x
  d = d
  t = t
  s = s
  s2 = s2
  None = None
  Keys <- FiveKeys
  Services = {s, s2}
  Second = 1
  Gates = {"open", "rooted", "anchored"}
  Root = r
  Own = o
  Pins <- ThreePins
  Presentable <- Presented
  Requests <- SomeRequests
  Peers <- Devices
  TwinOf <- Twins
  MaxRecalls = 2
  MaxTime = 1
INVARIANTS
  TypeOK
  RecalledNeverAdmitted
  AdmittedWasGranted
  MemberIsTheOwners
  OwnKeyAdmitsWhatItIssued
  UndecidedIsNoAnswer
  TwinRefused
  ForeignNeedsBoth
CHECK_DEADLOCK FALSE
