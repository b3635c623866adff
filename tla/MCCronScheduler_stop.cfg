\* One sidecar that may be closed while it still asks for the lock.
CONSTANTS
  p1 = p1
  once = once
  hook = hook
  Proc = {p1}
  Tasks = {once, hook}
  OneShots = {once}
  Events = {hook}
  AppOpen = {hook}
  Aging = {hook}
  MaxAge = 0
  Ats <- MCAts
  Left <- MCLeft
  NoDef = NoDef
  Free = Free
  Dead = Dead
  MayStopInStart = TRUE
  MaxTime = 1
  MaxOpens = 2
  MaxRequests = 1
  MaxFaults = 1
SPECIFICATION Spec
\* A sidecar may have ended, and the bounds may be reached.
CHECK_DEADLOCK FALSE
INVARIANT StopReleases
