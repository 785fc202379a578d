CONSTANTS
  m1 = m1  m2 = m2  t1 = t1  r1 = r1  r2 = r2  box = box  None = None
  Messages = {m1}
  Threads = {t1}
  ThreadOf <- OneThread
  FollowUps = {}
  Runs = {r1, r2}
  DailyCap = 3
  MaxAttempts = 2
  InProduction = FALSE
  Configurations <- SandboxOrLive
  AlertsRaise = TRUE
  MaxFaults = 0
SPECIFICATION Spec
INVARIANTS SendsOnce
