CONSTANTS
  m1 = m1  m2 = m2  t1 = t1  r1 = r1  r2 = r2  box = box  None = None
  Messages = {m1, m2}
  Threads = {t1}
  ThreadOf <- OneThread
  FollowUps = {}
  Runs = {r1, r2}
  DailyCap = 1
  MaxAttempts = 2
  InProduction = TRUE
  Configurations <- OnlyLive
  AlertsRaise = FALSE
  MaxFaults = 1
SYMMETRY Symmetry
SPECIFICATION Spec
INVARIANTS TypeOK CapRespected
