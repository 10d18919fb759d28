\* A client asks to stop while its file is still being sent, and leaves.
CONSTANTS
  a = a
  e = e
  K = K
  L = L
  None = None
  Vacant = Vacant
  Large = {L}
  Script <- OneSmaller
  SmallContent <- MCNoSmall
  Unit <- MCUnit
  Overlay = {}
  Missing = {}
  Client = {c1}
  Limit = 1
  ChunkSize = 1
  ClientRoom = 1
  Careful = {FALSE}
  MaxEvents = 16
SPECIFICATION FairSpec
PROPERTIES
  StopEnds
CHECK_DEADLOCK FALSE
