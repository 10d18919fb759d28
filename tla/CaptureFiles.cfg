\* A small and two large files over two main shards.
CONSTANTS
  None = None
  File = {a, K, L}
  LargeFile = {K, L}
  MetadataFile = metadata
  Data <- MCData
  MainShard = {m1, m2}
  SmallShard = s0
  ExtFile = {}
  Capacity = 30
  MaxSize = 1
  ClientRoom = 2
  ChunkMax = 2
SPECIFICATION LoopSpec
INVARIANTS
  LoopTypeOK
  ShardsWellFormed
  ShardsReplay
SYMMETRY FileAndShardSymmetry
