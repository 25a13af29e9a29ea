\* Two threads start and stop the target or start it again once it failed; one command.
CONSTANTS
  Controllers = {c1, c2}
  Commands = {k1}
  NoCommand = NoCommand
  MaxGeneration = 2
  MaxAttempt = 1
SPECIFICATION FairSpec
PROPERTIES
  EveryCallReturns
  StopTakesEffect
  ComesOnline
  KeepsContract
\* Once every call has returned and every run has ended nothing is left to do.
CHECK_DEADLOCK FALSE
