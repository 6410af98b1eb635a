\* A warm whose workers die, loads that succeed: the warm ends and the widget does not stay busy.
SPECIFICATION FairSpec
CONSTANTS
  op1 = op1
  op2 = op2
  w1 = w1
  t1 = t1
  Op = {op1}
  Worker = {w1}
  Target = {t1}
  Ttl = 1
  MaxDeliveries = 2
  Faults = {"send_fails", "send_unknown", "warm_fails", "crash"}
  Losses = {"post", "poll", "clear"}
PROPERTIES
  AcceptedWarmEnds
  BusyEnds
