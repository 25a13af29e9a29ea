\* Eight kinds of hosts by what they answer; two sessions of three refreshes.
CONSTANTS
  MAX_PROCESSES = 2
  TopLimit = 1
  Hosts <- MCHosts
  Machines <- MCMachines
  ClockTicks = 2
  Cores = 2
  Window = 2
  Errors = {"Timeout", "HostKeyMismatch"}
  MaxTick = 3
  MaxSessions = 2
SPECIFICATION Spec
INVARIANTS
  HostTotalsAreReal
  NothingDiscarded
  VerdictFits
  SharesAddUp
  ChartsAreHonest
CHECK_DEADLOCK FALSE
