\* A small and a large file; shards with room for the whole image.
CONSTANTS
  None = None
  File = {a, L}
  LargeFile = {L}
  MetadataFile = metadata
  Data <- MCData
  MainShard = {m1, m2}
  SmallShard = s0
  ExtFile = {}
  Capacity = 14
  MaxSize = 2
  ClientRoom = 2
  ChunkMax = 1
SPECIFICATION MigrationFairSpec
INVARIANTS
  MigrationTypeOK
  MetadataComplete
  NeverRefused
  Delivered
PROPERTIES
  RefinesTransfer
  MigrationCompletes
