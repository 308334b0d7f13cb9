SPECIFICATION Spec
CONSTANTS
  StreamLen = 5
  TagSets <- SomeTags
  Byte = 2
  Configs <- SomeConfigs
  Epoch = 100
  PAD = PAD
\* The stream ends.
CHECK_DEADLOCK FALSE
INVARIANTS
  PackerInv
  TagsFollowSamples
PROPERTIES
  AllPacked
