\* Two servers, two launches and more, transfers from either of two devices.
CONSTANTS
  a1 = a1
  a2 = a2
  k1 = k1
  k2 = k2
  Addrs = {a1, a2}
  Entries <- TwoEntries
  Presented <- FirstAnswers
  Incoming <- TwoIncoming
  MaxId = 2

SPECIFICATION Spec

INVARIANTS
  SavedOrReported
  NoTraceOfRemoved
  TargetsMatch

PROPERTIES
  InventoryIsWhole
  TransferKeepsWhatItFound

\* The window may be closed and never opened again.
CHECK_DEADLOCK FALSE
