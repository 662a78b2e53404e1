\* The room made for the string of an id with a list, and what is written there.
SPECIFICATION AnySpec
CONSTANTS
  Definitions = {"A1", "A2"}
  Keys <- MCKeys
  Values <- MCValues
  Hash <- MCKeyHash
  NoKey = "none"
  Names <- MCSzs
  Utf8 <- MCUtf8
  NameHash <- MCNameHash
  MaxNames = 4
  MaxFaults = 1
  Lens <- MCLens
  PageSize = 4
  MaxBadReads = 2
  TypeRecs <- MCTypeRecs
  UdtName <- MCUdt
  SrcLines = {"s"}
  ChainOf <- MCBucket
  RecSize <- MCSize
  TiOffSpan = 4
  BlkRecs = 2
  LegalEdits <- MCLegal
  PoolModes <- MCModes
INVARIANT
  StringRight
CHECK_DEADLOCK FALSE
