SPECIFICATION Spec
CONSTANTS
  p1 = p1  r1 = r1  r2 = r2  w1 = w1  w2 = w2
  Payment = {p1}
  Request = {r1, r2}
  Worker = {w1, w2}
  NoWorker = NoWorker
  MaxAttempts = 2
  Fault = {"stellar_lookup_failed"}
  MaxFaults = 1
  MaxOperatorRetries = 1
SYMMETRY Symmetry
INVARIANTS TypeOK ConfirmationAgrees ConfirmsWhatSettled TransferFollowsIntent
PROPERTIES ConfirmedIsFinal KeepsPromise
