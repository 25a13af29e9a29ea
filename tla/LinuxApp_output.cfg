\* A command is running while another server is selected.
CONSTANTS
  a1 = a1
  a2 = a2
  k1 = k1
  k2 = k2
  Addrs = {a1, a2}
  Entries <- TwoEntries
  Presented <- FirstAnswers
  Incoming <- TwoIncoming
  MaxId = 2

SPECIFICATION Spec

INVARIANT OutputIsOwn

CHECK_DEADLOCK FALSE
