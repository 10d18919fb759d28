\* Two clients that do as they like, and shards that may be cut.
CONSTANTS
  a = a
  e = e
  K = K
  L = L
  None = None
  Vacant = Vacant
  Large = {L}
  Script <- OneSmaller
  SmallContent <- MCNoSmall
  Unit <- MCUnit
  Overlay = {e}
  Missing = {x}
  Client = {c1, c2}
  Limit = 1
  ChunkSize = 1
  ClientRoom = 1
  Careful = {FALSE}
  MaxEvents = 16
SPECIFICATION Spec
INVARIANTS
  TypeOK
  MemoryAccounted
  ServedInOrder
PROPERTIES
  OneReader
SYMMETRY ClientSymmetry
CHECK_DEADLOCK FALSE
