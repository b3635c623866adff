SPECIFICATION Spec
CONSTANTS
  Call = {a, b}
  Order = {r1, r3, w1, w2}
  Writers = {w1, w2}
  Task = {t1, t2, t3, t4}
  File = {f, g}
  Main = Main
  Nobody = Nobody
  CallOf <- Calls
  CallerOf <- Callers
  TaskOf <- Tasks
  FilesOf <- Files
  Needs <- Deps
  InsteadOf <- Instead
  Enough <- Quorums
  MaxWorkers = 1
  Cap <- Pools
  MaxTrouble = 2
  a = a
  b = b
  nest = nest
  r1 = r1
  r2 = r2
  r3 = r3
  w1 = w1
  w2 = w2
  n1 = n1
  f = f
  g = g
  t1 = t1
  t2 = t2
  t3 = t3
  t4 = t4
INVARIANTS CapsHold SweptForCause
PROPERTIES NoRepeat
\* Every call may have returned or been lost.
CHECK_DEADLOCK FALSE
