\* Small files of entries, and every list of up to two remaps.
CONSTANTS
  NoFile = NoFile
  Port = {1, 2, 3}
  Images <- MCImages
  Requests <- MCRequests
SPECIFICATION Spec
INVARIANTS
  Inv
  PatchedAsAsked
  RefusedForCause
