SPECIFICATION SpecWallets
CONSTANTS
  e1 = e1  e2 = e2  x = x  y = y  z = z  t1 = t1
  Escrow = {e1, e2}
  Account = {x, y, z}
  Token = {t1}
  Milestones <- MCMilestones
  MaxMilestones = 2
  MaxInt = 4
  Supply = 2
  MaxTime = 1
  Intent = {e1, e2}
  IntentKey = {"i1", "i2"}
  Form = {"f1"}
  Submission = {x, y}
  NoIntent = NoIntent
  NoIntentKey = NoIntentKey
  NoForm = NoForm
  MaxPolls = 2
  Customer = {e1, e2}
  NoCustomer = NoCustomer
  Attempt = {x, y}
  Challenge = {"h1", "h2", "h3"}
  NoChallenge = NoChallenge
SYMMETRY Symmetry
INVARIANTS
  BooksBalance
  ConfirmedOnChain
  FormPaidOnce
PROPERTIES
  KeepsCustody
  ClaimableStands
  LinkNeedsFreshProof
CHECK_DEADLOCK FALSE
