\* An upload and overlapping executions of the task with a batch of one: every file goes in the end.
SPECIFICATION FairSpec
CONSTANTS
  r1 = r1
  r2 = r2
  r3 = r3
  prune1 = prune1
  prune2 = prune2
  old = old
  c1 = c1
  c2 = c2
  Request = {r1}
  Pruner = {prune1, prune2}
  Stored = {old}
  Content = {c1, c2}
  StoredContent <- MCStoredContent
  Rank <- MCRank
  Operations = {"upload"}
  Retention = 1
  BatchSize = 1
  MaxTime = 3
  Delivery = {FALSE}
  Faults = {"put_fails", "delete_fails"}
PROPERTIES
  OrphansArePruned
