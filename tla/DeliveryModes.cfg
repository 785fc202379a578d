CONSTANTS
  m1 = m1  m2 = m2  t1 = t1  r1 = r1  r2 = r2  box = box  None = None
  Messages = {m1}
  Threads = {t1}
  ThreadOf <- OneThread
  FollowUps = {m1}
  Runs = {r1}
  DailyCap = 2
  MaxAttempts = 2
  InProduction = FALSE
  Configurations <- EveryMode
  AlertsRaise = TRUE
  MaxFaults = 1
SPECIFICATION LiveSpec
INVARIANTS MailedAsConfigured
PROPERTIES ClaimResolved
