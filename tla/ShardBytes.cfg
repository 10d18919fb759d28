\* Four short shards read into each of the stores, through a pipe of three bytes.
CONSTANTS
  Frames <- MCFrames
  Prefix = 2
  PipeRoom = 3
  Stores = {"disk", "sender", "memory"}
  SmallMax = 2
  ChunkSize = 3
SPECIFICATION FairSpec
INVARIANTS
  TypeOK
  FileHolds
PROPERTIES
  RefinesSlots
  ReaderEnds
