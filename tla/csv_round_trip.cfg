SPECIFICATION Spec
CONSTANTS
  Modes <- SomeModes
  PDUs <- SomePDUs
  MaxPDUs = 2
  MaxStarts = 2
  KeyLists <- SomeKeyLists
  MaxTicks = 3
  MaxSets = 1
  SwitchTo = {"other"}
  MaxRuns = 2
  OtherLines <- SomeLines
CHECK_DEADLOCK FALSE
INVARIANTS
  PlaybackInv
  RoundTrip
PROPERTIES
  TimersServe
