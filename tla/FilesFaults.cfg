\* Two requests of any kind, every fault, failures delivered to the provider or answered before it sees them.
SPECIFICATION Spec
\* every request may have ended
CHECK_DEADLOCK FALSE
CONSTANTS
  r1 = r1
  r2 = r2
  r3 = r3
  photo = photo
  notes = notes
  ann = ann
  day = day
  Request = {r1, r2}
  Stored = {photo, notes}
  Item = {ann}
  Person = {ann}
  InitLinks <- MCInitLinks
  Rank <- MCRank
  Operations <- AllOperations
  Delivery = {TRUE, FALSE}
  Faults <- AllFaults
INVARIANTS
  ReferencedObjectsStored
  OrphansAccountedFor
PROPERTIES
  CleanupSparesReferenced
  ReadFailsOnlyIfDeleted
  FailedCallsLeavePart
