CONSTANTS
  a1 = a1  a2 = a2  x1 = x1  p1 = p1  p2 = p2  b1 = b1  b2 = b2  None = None
  Mails = {a1, a2, x1}
  KindOf <- EveryKind
  Boxes = {b1}
  Polls = {p1, p2}
  Batch = 2
  MaxUids = 2
  MaxValidity = 2
  MaxEdits = 0
  MaxFaults = 1
SYMMETRY Symmetry
SPECIFICATION Spec
INVARIANTS TypeOK NothingPassedOver ReplyOnce
