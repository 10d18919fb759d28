\* Shards that fill while the small shard is still open.
CONSTANTS
  None = None
  File = {a, L}
  LargeFile = {L}
  MetadataFile = metadata
  Data <- MCData
  MainShard = {m1, m2}
  SmallShard = s0
  ExtFile = {}
  Capacity = 2
  MaxSize = 2
  ClientRoom = 2
  ChunkMax = 1
SPECIFICATION MigrationFairSpec
INVARIANTS
  NoMutualBlocking
CHECK_DEADLOCK FALSE
