SPECIFICATION FairSpec
CONSTANTS
  FileNumWidth = 1
  NSampleChoices = {2, 3}
  RolloverChoices = {0}
  Uninitialized = {0}
  StreamLen = 4
  Streams <- ModeStreams
  TagTime <- Times
  MaxItems = 3
  Second = 3
  Rounding = {0, 1}
  Modes = {"MANUAL", "TRIGGERED"}
  Calls = {"set_recording", "set_mode", "set_nsamples"}
CHECK_DEADLOCK FALSE
INVARIANTS
  
  CountMatchesFile
  StartNotForgotten
PROPERTIES
  Recording
  AlignedStart
  WorkReturns
