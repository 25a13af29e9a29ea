\* Batches of two, one and no commands over at most two sessions.
CONSTANTS
  stat = stat  dir = dir  uname = uname  blank = blank  url = url
  Reads = {stat}
  Dirs = {dir}
  Execs = {uname}
  EmptyExecs = {blank}
  Https = {url}
  Batches <- MCBatches
  zero = zero  one = one
  Codes = {zero, one}
  Outputs <- MCOutputs
  MAX_BATCH_BYTES = 23
  Deadline = 1
  Chunks = {1, 4}
  MaxBatches = 2
  MaxSessions = 2
  MaxNoise = 1
SPECIFICATION FairSpec
INVARIANTS
  TypeOK
  OwnAnswers
  TerminatorNotMissed
PROPERTY EveryBatchReturns
\* Once the last batch is over nothing is left to do.
CHECK_DEADLOCK FALSE
