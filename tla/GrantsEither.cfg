SPECIFICATION GrantsSpec
CONSTANTS
  k = k
  x = x
  s = s
  r = r
  Keys <- TwoKeys
  Services = {s, r}
  Second = 2
  Issuers <- OneIssuer
  Instants <- SomeInstants
  MaxIds = 3
  MaxTokenFacts = 5
  MaxJoinArity = 2
  LastTick = 4
  ByHand <- EitherDate
  MaxDepth = 3
  MaxByHand = 2
SYMMETRY ServiceSymmetry
INVARIANTS
  SomeReadsOnlyTheClock
CHECK_DEADLOCK FALSE
