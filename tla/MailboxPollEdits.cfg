CONSTANTS
  a1 = a1  a2 = a2  x1 = x1  p1 = p1  p2 = p2  b1 = b1  b2 = b2  None = None
  Mails = {a1, x1}
  KindOf <- AnswerAndPoison
  Boxes = {b1, b2}
  Polls = {p1}
  Batch = 1
  MaxUids = 2
  MaxValidity = 1
  MaxEdits = 1
  MaxFaults = 1
SPECIFICATION LiveSpec
INVARIANTS NothingPassedOver
PROPERTIES MailProceeds
\* A channel whose mailbox was switched off has nothing left to do.
CHECK_DEADLOCK FALSE
