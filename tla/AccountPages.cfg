SPECIFICATION SpecAccount
CONSTANTS
  k1 = k1  u1 = u1  u2 = u2  n1 = n1  n2 = n2
  Quote = {"q1"}
  Key <- MCKey
  Request = {"r1"}
  NoQuote = NoQuote
  NoKey = NoKey
  Amounts = {4}
  FeeDivisor = 4
  Opening = 13
  MaxCount = 2
  MaxAmount = 6
  Hour = 0
  Day = 0
  MaxTime = 0
  Plan = {"p1"}
  Recipient = {"ana", "ben"}
  Allocations <- MCAllocations
  ShareSheets <- MCSheets
  ExecKey = {"e1", "e2"}
  Execution = {u1, u2}
  ExecAmounts = {3, 5}
  LegKey <- MCLegKey
  TotalBasisPoints = 9
  Session = {"s1"}
  Role = {"document", "selfie"}
  Case = {"c1", "c2"}
  Finalizer = {u1, u2}
  Reviewer = {}
  Admin = {}
  NoSession = NoSession
  NoCase = NoCase
  MaxUploads = 3
  MaxReviews = 0
  Notification = {n1, n2}
  Visit = {u1, u2}
  LastStep = 2
SYMMETRY Symmetry
INVARIANTS
  ExecutionWhole
  ResultsAreTrue
  OneCasePerSession
  ReceivedIsFiled
  HiddenIsStored
PROPERTY FinalizedStands
CHECK_DEADLOCK FALSE
