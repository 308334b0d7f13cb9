SPECIFICATION Spec
CONSTANTS
  FileNumWidth = 2
  NSampleChoices = {0}
  RolloverChoices = {0, 2}
  Uninitialized = {0}
  StreamLen = 6
  Streams <- BurstStreams
  TagTime <- Times
  MaxItems = 3
  Second = 3
  Rounding = {0}
  Modes = {"TRIGGERED"}
  Calls = {"set_second_align", "set_file_num_rollover", "set_freq", "stop"}
PROPERTIES
  BurstFile
  BurstCaptured
CHECK_DEADLOCK FALSE
