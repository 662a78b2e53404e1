\* Words of 3 bits, pages of 12, a pair of page map pages every 6, two pages
\* to a full map.  The parts with a bound on what they do come to an end there.
SPECIFICATION AnySpec
CONSTANTS
  BPW = 3
  CbPg = 6
  CharBit = 2
  PnMax = 24
  Growth = 2
  MaxFrees = 1
  MaxCommits = 2
  MaxFaults = 1
  Systems <- MCSystems
  cbGrowth = 4
  MinSize = 2
  MaxMac = 5
  MaxCuts = 1
  Sns <- MCSns
  Mods <- MCMods
  Vals <- MCVals
  MaxWriteFails = 1
  LooksAtError = TRUE
INVARIANTS
  ReservesHold
  DataPagesAccounted
  StreamsRight
  CommittedRight
  PdbsRight
PROPERTIES
  ImplementsPageSet
CHECK_DEADLOCK FALSE
