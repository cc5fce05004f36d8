SPECIFICATION FairSpec
CONSTANTS
  p1 = p1
  s1 = s1
  w1 = w1
  w2 = w2
  Transactional <- MCTransactional
  Product <- MCProduct
  Support <- MCSupport
  Worker <- MCWorker
  NoWorker = NoWorker
  NoNotice = NoNotice
  MaxAttempts = 2
  MaxFaults = 2
  MaxChanges = 2
INVARIANTS
  ConsentRespected
  DeliveriesExplained
PROPERTIES
  OutcomeIsFinal
  OutboxSettles
CHECK_DEADLOCK FALSE
