SPECIFICATION FairSpec
CONSTANTS
  p1 = p1  r1 = r1  r2 = r2  w1 = w1  w2 = w2
  Payment = {p1}
  Request = {r1}
  Worker = {w1, w2}
  NoWorker = NoWorker
  MaxAttempts = 2
  Fault = {"payment_load_failed", "stellar_lookup_failed", "stellar_ledger_missing", "confirmation_persistence_failed", "failure_persistence_failed"}
  MaxFaults = 1
  MaxOperatorRetries = 1
PROPERTIES EventuallyReconciled
