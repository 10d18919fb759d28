\* Three clients; one asks to stop while another is connecting.
CONSTANTS
  None = None
  Vacant = Vacant
  File = {L}
  LargeFile = {L}
  ExtFile = {}
  Client = {c1, c2, c3}
  EarlyStop = {TRUE}
  MetadataFile = metadata
  Data <- MCData
  MainShard = {m1}
  SmallShard = s0
  Capacity = 20
  MaxSize = 1
  ClientRoom = 2
  ChunkMax = 1
  MaxEvents = 3
SPECIFICATION FairSpec
INVARIANTS
  EofMeansClosed
CHECK_DEADLOCK FALSE
