SPECIFICATION SpecMoney
CONSTANTS
  t1 = t1  a1 = a1  a2 = a2  k1 = k1  k2 = k2  r1 = r1  r2 = r2  r3 = r3  n1 = n1  n2 = n2
  Quote = {a1, a2}
  Key = {k1, k2}
  Request = {r1, r2, r3}
  NoQuote = NoQuote
  NoKey = NoKey
  Amounts = {1, 2, 4}
  FeeDivisor = 4
  Opening = 7
  MaxCount = 2
  MaxAmount = 6
  Hour = 0
  Day = 1
  MaxTime = 2
  Typed = {0, 2, 4}
  PaidTransfer = {t1}
  Claim = {r1, r2, r3}
  RedeemKey = {k1, k2}
  Creation = {n1, n2}
  NoPaidTransfer = NoPaidTransfer
  NoRedeemKey = NoRedeemKey
  MaxAttempts = 2
SYMMETRY Symmetry
INVARIANTS
  WalletExplained
  QuoteUsedOnce
  VelocityHeld
  AnswersAreTrue
  SingleUse
PROPERTY OutcomeIsFinal
CHECK_DEADLOCK FALSE
