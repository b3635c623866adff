SPECIFICATION Spec
CONSTANTS
  Proc <- FourProcs
  Old = {c}
  Untimed = {}
  PidOf <- UpgradePid
  MachineOf <- OneMachine
  HostOf <- UpgradeHost
  MachineIdOf <- UpgradeId
  AllowLegacyHostRecovery = TRUE
  AtomicTakeover = TRUE
  MayCorrupt = FALSE
  FsMayFail = TRUE
  ProbesMayFail = TRUE
  NoId = noId
  NoOwner = NoOwner
  Corrupt = Corrupt
  a = a
  b = b
  c = c
  d = d
  noId = noId
  mid = mid
  host = host
  far = far
INVARIANTS SingleWriter OwnerFileIntact 
PROPERTIES ContractSpec
\* Every process may end up stopped, or up without the lock.
CHECK_DEADLOCK FALSE
