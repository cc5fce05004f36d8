SPECIFICATION Spec
CONSTANTS
  k1 = k1  k2 = k2  r1 = r1  r2 = r2  ref = ref
  Key = {k1, k2}
  Request = {r1, r2}
  Reference = {ref}
  NoKey = NoKey
  NoReference = NoReference
SYMMETRY Symmetry
INVARIANTS AskedOnce OutcomeIsReported NoEventWasted
PROPERTY OutcomeStands
CHECK_DEADLOCK FALSE
