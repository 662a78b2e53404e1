\* The parts with a bound on the contributions come to an end there.
SPECIFICATION AnySpec
CONSTANTS
  Threads <- MCRefThreads
  Mods <- MCSymMods
  Refs <- MCRefs
  Of <- MCOf
  Ith <- MCIth
  Span <- MCSpan
  Hidden <- MCHidden
  Off40 <- MCOff40
  Off60 <- MCOff60
  OffSz <- MCOffSz
  MaxCloses = 1
  Blocks <- MCBlocks
  RvaStarts <- MCStarts
  Half = 8
  MaxRemovals = 3
  MaxFrames = 3
INVARIANTS ModTableRight PublicsRight ModSymsRight SymRecsRight LinesRight
PROPERTY FramesRight
CHECK_DEADLOCK FALSE
