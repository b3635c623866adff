SPECIFICATION Spec
CONSTANTS
  Proc <- ThreeProcs
  Old = {}
  Untimed = {}
  PidOf <- PidReuse
  MachineOf <- OneMachine
  HostOf <- OneMachine
  MachineIdOf <- SameId
  AllowLegacyHostRecovery = FALSE
  AtomicTakeover = FALSE
  MayCorrupt = FALSE
  FsMayFail = FALSE
  ProbesMayFail = FALSE
  NoId = noId
  NoOwner = NoOwner
  Corrupt = Corrupt
  a = a
  b = b
  c = c
  d = d
  noId = noId
  mid = mid
  host = host
  far = far
INVARIANTS SingleWriter
\* Every process may end up stopped, or up without the lock.
CHECK_DEADLOCK FALSE
