\* Whole images over two or three shards, delivered independently or by one program; and
\* images of which any shard may be cut anywhere.
CONSTANTS
  a = a
  K = K
  L = L
  m1 = m1
  m2 = m2
  m3 = m3
  s0 = s0
  None = None
  File = {a, K, L}
  LargeFile = {K, L}
  MetadataFile = metadata
  Data <- MCData
  MainShard = {m1, m2, m3}
  SmallShard = s0
  Capacity = 1
  Images <- MCImages
SPECIFICATION FairSpec
INVARIANTS
  RestoreInv
  AcceptedIsWhole
PROPERTIES
  RefinesReplay
  DrainTerminates
