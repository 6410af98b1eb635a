\* One warm delivered to two workers at a time, its record expiring under them.
SPECIFICATION Spec
CONSTANTS
  op1 = op1
  op2 = op2
  w1 = w1
  w2 = w2
  t1 = t1
  t2 = t2
  Op = {op1}
  Worker = {w1, w2}
  Target = {t1, t2}
  Ttl = 2
  MaxDeliveries = 3
  Faults <- AllFaults
SYMMETRY MCSymmetry
INVARIANTS
  LatestOutlivesRecord
  OutcomeIsTrue
  QueuedHasMessage
PROPERTIES
  EndIsFinal
