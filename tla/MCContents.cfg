\* Pools and objects come to an end, so a run of them may stop.
SPECIFICATION AnySpec
CONSTANTS
  Definitions = {"A1", "A2"}
  Keys <- MCKeys
  Values <- MCValues
  Hash <- MCKeyHash
  NoKey = "none"
  Names <- MCSzs
  Utf8 <- MCUtf8
  NameHash <- MCNameHash
  MaxNames = 4
  MaxFaults = 1
  Lens <- MCLens
  PageSize = 4
  MaxBadReads = 2
  TypeRecs <- MCTypeRecs
  UdtName <- MCUdt
  SrcLines = {"s"}
  ChainOf <- MCBucket
  RecSize <- MCSize
  TiOffSpan = 4
  BlkRecs = 2
  LegalEdits <- MCLegal
  PoolModes <- MCModes
INVARIANTS
  MapRight NamesRight PoolRight GlobalsRight PagesRight TypesRight LocatorRight
PROPERTIES
  ImplementsDictionary IndicesKept EditsLegal
CHECK_DEADLOCK FALSE
