SPECIFICATION SpecDesk
CONSTANTS
  c1 = c1  c2 = c2  officer = officer  admin = admin
  Session = {}
  Role = {}
  Case = {c1, c2}
  Finalizer = {}
  Reviewer = {officer, admin}
  Admin = {admin}
  NoSession = NoSession
  NoCase = NoCase
  MaxUploads = 0
  MaxReviews = 2
PROPERTIES
  CriticalDecidedByAdmin
CHECK_DEADLOCK FALSE
