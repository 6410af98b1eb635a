\* Each part by itself: requests at the bounds of their fields, the calendar, resumes and their
\* documents, the migration cut short anywhere, lists under changes, the page of a person,
\* overlapping saves of resumes, and the count of a domain's keys.
SPECIFICATION PartsSpec
\* a request that was answered is over
CHECK_DEADLOCK FALSE
CONSTANTS
  Nothing = Nothing
  FieldText <- MCText
  Unsaid = "a"
  Person <- MCPerson
  AtFirst <- MCAtFirst
  MaxSent = 3
  MaxNew = 2
  MaxEdits = 3
  p1 = p1
  p2 = p2
  p3 = p3
  NoRow = NoRow
  ResumeId <- MCResumeId
  Call <- MCCall
  Stored <- MCStored
  Operation <- MCOperation
  Key = {k1, k2, k3}
INVARIANTS
  AcceptedIsStored
  AnswerRoundTrips
  EntriesExact
  ResumeComesBack
  DocumentsComplete
  MigratedAsDeclared
  WalksAccountForChanges
  EditsKept
  ShownAsStored
  SavesHold
  CountIsPlausible
