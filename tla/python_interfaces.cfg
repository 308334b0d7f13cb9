\* More messages and samples than the queues hold, and calls of every kind.
SPECIFICATION Spec
CONSTANTS
  Messages = 4
  Samples = 3
  QueueSize = 2
  MaxSize = 2
  Calls = 3
\* The script's calls and the input run out.
CHECK_DEADLOCK FALSE
INVARIANTS
  MessagesAccounted
  NewestGetsIn
  SamplesInOrder
PROPERTIES
  GetAnswered
