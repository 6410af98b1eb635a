SPECIFICATION Spec
CONSTANTS
  r1 = r1
  r2 = r2
  ann = ann
  bob = bob
  none = none
  Requests = {r1, r2}
  Authors = {ann, bob}
  Stamps = {none, r1, r2}
  Delivery = {TRUE, FALSE}
  Ids <- MCIds
  Names <- MCNames
  InitialRows <- MCInitialRows
  Asked <- MCAsked
INVARIANTS
  PairsOnce
  CrashesExplained
  BothEndsAgree
PROPERTIES
  OwnRowsOnly
  NeighboursStamped
  RefusalsKeepTheRest
  UndisturbedAsPromised
  EveryCallEnds
