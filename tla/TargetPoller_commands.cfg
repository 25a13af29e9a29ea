\* Two threads start, stop and remove the target, two commands race with its runs.
CONSTANTS
  Controllers = {c1, c2}
  Commands = {k1, k2}
  NoCommand = NoCommand
  MaxGeneration = 3
  MaxAttempt = 2
SPECIFICATION Spec
SYMMETRY Symmetry
INVARIANTS
  TypeOK
  NothingCarriedOver
  HonestAnswers
  WithdrawnNeverRuns
  OnePoller
  OnlineHasSession
  ShownRetryIsServed
PROPERTIES
  NoLateCommand
  StoppedStaysIdle
\* Once every call has returned and every run has ended nothing is left to do.
CHECK_DEADLOCK FALSE
