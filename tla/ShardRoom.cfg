\* Two main shards, or one, with limits that are met at other capacities and pages of other sizes.
CONSTANTS
  None = None
  s0 = s0
  m1 = m1
  m2 = m2
  Hosts <- MCHosts
  DesiredCapacity = 16
  InitialPages = 2
  MaxReadable = 4
SPECIFICATION FairSpec
INVARIANTS
  TypeOK
  SizesAgree
  EstimateIsLowerBound
  PickedHasRoom
PROPERTIES
  DrainReturns
