CONSTANTS
  s1 = s1  s2 = s2  r1 = r1  r2 = r2  x1 = x1  None = None
  Steps = 2
  Texts = {x1}
  Schedulers = {s1, s2}
  Replies = {r1, r2}
  MaxMessages = 3
  MaxStarts = 1
SYMMETRY Symmetry
SPECIFICATION Spec
INVARIANTS TypeOK NeverStranded UsedTextKept
PROPERTIES KeepsPlan SuspicionHolds ReplyIsFinal
\* A stopped sequence with every mail read has nothing left to do.
CHECK_DEADLOCK FALSE
