\* Two clients, an external small file and a large one; a client may ask to stop
\* while another is connecting, or not.
CONSTANTS
  None = None
  Vacant = Vacant
  File = {a, L}
  LargeFile = {L}
  ExtFile = {a}
  Client = {c1, c2}
  EarlyStop = {FALSE, TRUE}
  MetadataFile = metadata
  Data <- MCData
  MainShard = {m1}
  SmallShard = s0
  Capacity = 20
  MaxSize = 1
  ClientRoom = 2
  ChunkMax = 1
  MaxEvents = 3
SPECIFICATION FairSpec
INVARIANTS
  TypeOK
  EventsFresh
  EofMeansClosedOrderly
  KeysAccounted
  Inv
PROPERTIES
  RefinesLoop
  CaptureEnds
CHECK_DEADLOCK FALSE
