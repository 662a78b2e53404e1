\* Three definitions of one name.
SPECIFICATION PoolSpec
CONSTANTS
  Definitions = {"A1", "A2", "A3"}
  Keys <- MCKeys
  Values <- MCValues
  Hash <- MCKeyHash
  NoKey = "none"
  Names <- MCSzs
  Utf8 <- MCUtf8
  NameHash <- MCNameHash
  MaxNames = 4
  MaxFaults = 1
  Lens <- MCLens
  PageSize = 4
  MaxBadReads = 2
  TypeRecs <- MCTypeRecs
  UdtName <- MCUdt
  SrcLines = {"s"}
  ChainOf <- MCBucket
  RecSize <- MCSize
  TiOffSpan = 4
  BlkRecs = 2
  LegalEdits <- MCLegal
  PoolModes <- MCModes
INVARIANT
  SchemaKept
CHECK_DEADLOCK FALSE
