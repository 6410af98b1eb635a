\* Three racing writers, no faults, failures delivered to the provider.
SPECIFICATION Spec
\* every request may have ended
CHECK_DEADLOCK FALSE
CONSTANTS
  r1 = r1
  r2 = r2
  r3 = r3
  photo = photo
  notes = notes
  ann = ann
  day = day
  Request = {r1, r2, r3}
  Stored = {photo, notes}
  Item = {ann}
  Person = {ann}
  InitLinks <- MCInitLinks
  Rank <- MCRank
  Operations <- WriteOperations
  Delivery = {TRUE}
  Faults = {}
INVARIANTS
  OnePhotoPerPerson
PROPERTIES
  AllOrNothing
