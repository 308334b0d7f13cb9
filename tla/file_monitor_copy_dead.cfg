\* Copying is turned on, off and on again.
SPECIFICATION FairSpec
CONSTANTS
  MaxFiles = 2
  NFilesChoices = {2}
  Calls = {"copy_on", "copy_off"}
  MaxCalls = 3
CHECK_DEADLOCK FALSE
PROPERTY
  CopyHeeded
