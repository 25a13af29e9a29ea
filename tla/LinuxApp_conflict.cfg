\* An inventory arrives while the pins cannot be read.
CONSTANTS
  a1 = a1
  a2 = a2
  k1 = k1
  k2 = k2
  Addrs = {a1, a2}
  Entries <- TwoEntries
  Presented <- FirstAnswers
  Incoming <- TwoIncoming
  MaxId = 2

SPECIFICATION Spec

PROPERTY ConflictNeverApplied

CHECK_DEADLOCK FALSE
