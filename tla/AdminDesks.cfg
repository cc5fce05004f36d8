SPECIFICATION SpecAdmin
CONSTANTS
  c1 = c1  c2 = c2  officer = officer  admin = admin
  t1 = t1  v1 = v1  v2 = v2  e1 = e1  e2 = e2
  Session = {}
  Case = {c1}
  Finalizer = {}
  Reviewer = {officer, admin}
  Admin = {admin}
  NoSession = NoSession
  NoCase = NoCase
  Role = {}
  MaxUploads = 0
  MaxReviews = 2
  Ticket = {t1}
  Visitor = {v1, v2}
  Operator = {officer}
  TicketLimit = 1
  TicketWindow = 1
  ReplyLimit = 2
  ReplyWindow = 2
  MaxThread = 3
  LastInstant = 2
  Component = {"gateway", "api"}
  Run = {"cron", "manual"}
  NoIncident = 0
  MaxIncidents = 3
  MaxOutages = 2
  MaxAborts = 1
  MaxEdits = 1
  Editor = {e1, e2}
  Uploader = {e1}
  MaxWrites = 1
  MaxSaves = 3
INVARIANTS
  TrailExplains
  NoticesMatch
  RepliesWithinLimit
  OneAccountEach
  SavedIsStored
PROPERTIES
  ClosedIsQuiet
  FeedFollowsHealth
CHECK_DEADLOCK FALSE
