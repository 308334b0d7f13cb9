SPECIFICATION Spec
CONSTANTS
  StreamLen = 6
  Streams <- SourceStreams
  TagTime <- Times
  SampPeriod = 2
  RatePeriod <- Periods
  MaxItems = 3
  MaxRoom = 2
  NSampleChoices = {2, 3}
  Word = 64
  Calls = {"set_nsamples", "set_pass_data"}
PROPERTY OutputInOrder
CHECK_DEADLOCK FALSE
