CONSTANTS
  a1 = a1  a2 = a2  x1 = x1  p1 = p1  p2 = p2  b1 = b1  b2 = b2  None = None
  Mails = {a1}
  KindOf <- AnswerAndPoison
  Boxes = {b1, b2}
  Polls = {p1}
  Batch = 2
  MaxUids = 2
  MaxValidity = 1
  MaxEdits = 1
  MaxFaults = 0
SPECIFICATION Spec
INVARIANTS CursorTruthful
CHECK_DEADLOCK FALSE
