\* Three files of one name, limits of one and two, two calls of any setters.
SPECIFICATION ChainSpec
CONSTANTS
  MaxFiles = 3
  NFilesChoices = {1, 2}
  Calls = {"copy_on", "copy_off", "set_nfiles"}
  MaxCalls = 2
  NameOf <- OneName
\* After stop() every thread has ended.
CHECK_DEADLOCK FALSE
INVARIANTS
  RetentionBound
  RetainsNewest
  StoppedClean
  CopyNotForgotten
  MissedWereRemoved
PROPERTIES
  CopyKept
  ThreadsFinish
