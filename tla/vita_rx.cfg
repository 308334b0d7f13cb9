SPECIFICATION RxSpec
CONSTANTS
  Streams <- SomeStreams
  Shapes <- SomeShapes
  MaxClients = 2
  MaxStarts = 2
  MaxRead = 2
  WordBytes = 2
\* Clients and calls run out.
CHECK_DEADLOCK FALSE
INVARIANTS
  ReceiverInv
PROPERTIES
  QuietAfterStop
  Served
