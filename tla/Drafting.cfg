CONSTANTS
  w1 = w1  w2 = w2
  Workers = {w1, w2}
  RetryLimit = 2
  RewriteLimit = 1
  MaxRequests = 2
  MaxMessages = 3
SYMMETRY Symmetry
SPECIFICATION Spec
INVARIANTS TypeOK OneCurrentVersion RetryBudget RewriteBudget ErasureHolds
PROPERTY RecoveryStands
\* The requests are bounded.
CHECK_DEADLOCK FALSE
