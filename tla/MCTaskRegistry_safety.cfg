\* Two runs under one key share three records: retries of up to three attempts,
\* a crash and a write that fails.
CONSTANTS
  t1 = t1
  t2 = t2
  t3 = t3
  k1 = k1
  Tasks = {t1, t2, t3}
  Keys = {k1}
  NoKey = NoKey
  MaxAttempts = 3
  MaxRuns = 2
  MaxStops = 1
  MaxFaults = 1
SPECIFICATION Spec
SYMMETRY Symmetry
INVARIANTS
  AttemptsInOrder
  VerdictStopsSession
  RunIsSupervised
PROPERTY CancelIsFinal
