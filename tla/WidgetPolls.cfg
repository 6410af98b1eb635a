\* Two warms, any order of answers, every kind of request lost, records that expire.
SPECIFICATION Spec
CONSTANTS
  op1 = op1
  op2 = op2
  w1 = w1
  t1 = t1
  Op = {op1, op2}
  Worker = {w1}
  Target = {t1}
  Ttl = 1
  MaxDeliveries = 1
  Faults = {"send_fails", "warm_fails"}
  Losses = {"post", "poll", "load", "clear"}
INVARIANTS
  OneChain
