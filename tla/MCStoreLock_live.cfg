SPECIFICATION FairSpec
CONSTANTS
  Proc <- TwoProcs
  Old = {}
  Untimed = {}
  PidOf <- PidReuse
  MachineOf <- OneMachine
  HostOf <- OneMachine
  MachineIdOf <- SameId
  AllowLegacyHostRecovery = FALSE
  AtomicTakeover = FALSE
  MayCorrupt = TRUE
  FsMayFail = FALSE
  ProbesMayFail = FALSE
  NoId = noId
  NoOwner = NoOwner
  Corrupt = Corrupt
  a = a
  b = b
  c = c
  d = d
  noId = noId
  mid = mid
  host = host
  far = far
INVARIANTS TypeOK
PROPERTIES DisplacedOwnerStops DeadOwnerReplaced
\* Every process may end up stopped, or up without the lock.
CHECK_DEADLOCK FALSE
