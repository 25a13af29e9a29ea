\* One thread removes the target while another, which found it, starts it.
CONSTANTS
  Controllers = {c1, c2}
  Commands = {}
  NoCommand = NoCommand
  MaxGeneration = 3
  MaxAttempt = 1
SPECIFICATION Spec
INVARIANT RemovedIsNotPolled
CHECK_DEADLOCK FALSE
