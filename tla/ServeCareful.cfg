\* Two clients that behave, two large files, an overlaid one, and memory for one chunk.
CONSTANTS
  a = a
  e = e
  K = K
  L = L
  None = None
  Vacant = Vacant
  Large = {K, L}
  Script <- TwoLarge
  SmallContent <- MCSmall
  Unit <- MCUnit
  Overlay = {e}
  Missing = {}
  Client = {c1, c2}
  Limit = 1
  ChunkSize = 1
  ClientRoom = 1
  Careful = {TRUE}
  MaxEvents = 16
SPECIFICATION FairServe
INVARIANTS
  MemoryAccounted
  ServedInOrder
PROPERTIES
  ServeCompletes
