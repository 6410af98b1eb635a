\* Two calls and the task under every fault, failures delivered to the provider or answered before it sees them.
SPECIFICATION Spec
CONSTANTS
  r1 = r1
  r2 = r2
  r3 = r3
  prune1 = prune1
  prune2 = prune2
  old = old
  c1 = c1
  c2 = c2
  Request = {r1, r2}
  Pruner = {prune1}
  Stored = {old}
  Content = {c1}
  StoredContent <- MCStoredContent
  Rank <- MCRank
  Operations <- AllOperations
  Retention = 1
  BatchSize = 2
  MaxTime = 3
  Delivery = {TRUE, FALSE}
  Faults = {"put_fails", "put_unknown", "delete_fails", "delete_unknown", "db_error", "commit_fails", "crash"}
INVARIANTS
  RowsHaveObjects
  DuplicatesOverlapped
  OrphansAccountedFor
PROPERTIES
  ReadableUntilRetention
  AnswersAreStored
