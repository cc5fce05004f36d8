SPECIFICATION Spec
CONSTANTS
  p1 = p1  r1 = r1  r2 = r2  w1 = w1  w2 = w2
  Payment = {p1}
  Request = {r1}
  Worker = {w1}
  NoWorker = NoWorker
  MaxAttempts = 2
  Fault = {}
  MaxFaults = 0
  MaxOperatorRetries = 0
INVARIANT SettledIsNotFailed
