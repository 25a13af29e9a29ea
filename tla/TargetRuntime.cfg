\* Two collectors, either of which may fail: a counter of an entity that comes and goes, which
\* wraps and restarts, a text about it and a gauge of the host.
CONSTANTS
  s1 = s1  s2 = s2  e1 = e1
  bytes = bytes  usage = usage  label = label
  Sources = {s1, s2}
  Entities = {e1}
  Host = Host
  Series = {bytes, usage, label}
  Counters = {bytes}
  Texts = {label}
  EntityOf <- MCEntityOf
  SourceOf <- MCSourceOf
  Window = 2
  Width = 2
  None = None
  MaxTotal = 2
  MaxTick = 3
  MaxTime = 1
  MaxAttempt = 1
SPECIFICATION Spec
INVARIANTS
  TypeOK
  NoGhosts
  OnePresence
  NeverOverstated
PROPERTY BrokenCostsItsOwn
