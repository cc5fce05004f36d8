SPECIFICATION SpecManager
CONSTANTS
  k1 = k1  u1 = u1  u2 = u2
  Quote = {"q1"}
  Key <- MCKey
  Request = {"r1"}
  NoQuote = NoQuote
  NoKey = NoKey
  Amounts = {4}
  FeeDivisor = 4
  Opening = 13
  MaxCount = 2
  MaxAmount = 6
  Hour = 0
  Day = 0
  MaxTime = 0
  Plan = {"p1"}
  Recipient = {"ana", "ben"}
  Allocations <- MCAllocations
  ShareSheets <- MCSheets
  ExecKey = {"e1", "e2"}
  Execution = {u1, u2}
  ExecAmounts = {3, 5}
  LegKey <- MCLegKey
  TotalBasisPoints = 9
INVARIANT RetryPaysOnce
CHECK_DEADLOCK FALSE
