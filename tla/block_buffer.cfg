SPECIFICATION FairSpec
CONSTANTS
  StreamLen = 6
  Streams <- SourceStreams
  TagTime <- Times
  SampPeriod = 2
  RatePeriod <- Periods
  MaxItems = 3
  MaxRoom = 2
  NSampleChoices = {2, 3}
  Word = 64
  Calls = {"set_nsamples"}
CHECK_DEADLOCK FALSE
INVARIANTS
  BufferInv
PROPERTIES
  SendsBlocks
  SkipCountAfterWholeBlock
  WorkReturns
