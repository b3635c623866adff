\* Two sidecars, a oneshot, an interval and an event task, two starts, one request,
\* one fault, and events whenever they come.
CONSTANTS
  p1 = p1
  p2 = p2
  once = once
  every = every
  hook = hook
  Proc = {p1, p2}
  Tasks = {once, every, hook}
  OneShots = {once}
  Events = {hook}
  AppOpen = {hook}
  Aging = {every}
  MaxAge = 0
  Ats <- MCAts
  Left <- MCLeft
  NoDef = NoDef
  Free = Free
  Dead = Dead
  MayStopInStart = FALSE
  MaxTime = 1
  MaxOpens = 2
  MaxRequests = 1
  MaxFaults = 1
SPECIFICATION LiveSpec
\* A sidecar may have ended, and the bounds may be reached.
CHECK_DEADLOCK FALSE
INVARIANTS
  TypeOK
  FileMatchesMemory
  RunsOnce
  
PROPERTIES
  GoneStaysGone
  
