SPECIFICATION WiresSpec
CONSTANTS
  k = k
  x = x
  Roots <- TwoRoots
  Issuers <- OneIssuer
  Spellings <- SomeSpellings
  MaxBlocks = 2
  MaxSigned = 3
  MaxOthers = 2
  MaxRevoked = 1
  Order = 5
  Spare = 9
  Signing <- TwoSigners
  OtherBytes <- ThreeOthers
  Tag <- TwoByteTag
  Payloads <- SomePayloads
  BlockPayloads <- SomeBlocks
  MaxSignatures = 3
INVARIANTS
  MadeLinksParse
  ParseWorkBounded
  LinkIsItsRoots
  RecallReachesEveryCopy
  VerifiedWasSigned
  NoDocumentIsABlock
  KeysAreHeld
  OneHolderTwoKeys
CHECK_DEADLOCK FALSE
