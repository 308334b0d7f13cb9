\* Three files of up to three items, one of them longer than an int holds; a
\* queue of one or two; calls of up to two items.
SPECIFICATION FairSpec
CONSTANTS
  MaxOpens = 3
  LengthChoices = {0, 2, 3}
  DepthChoices = {1, 2}
  MaxInt = 2
  MaxLong = 1
  MaxItems = 2
  MayVanish = TRUE
  Calls = {"close", "seek", "add_file_tags", "set_file_queue_depth"}
\* Every file may be played, and no more asked for.
CHECK_DEADLOCK FALSE
PROPERTIES
  TagsInPlace
  PlayedInOrder
  WorkReturns
