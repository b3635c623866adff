\* One run of up to two attempts and two stops of the sidecar.  Every write
\* succeeds; the agent may run for ever.
CONSTANTS
  t1 = t1
  t2 = t2
  t3 = t3
  k1 = k1
  Tasks = {t1, t2, t3}
  Keys = {k1}
  NoKey = NoKey
  MaxAttempts = 2
  MaxRuns = 1
  MaxStops = 2
  MaxFaults = 0
SPECIFICATION LiveSpec
INVARIANT TypeOK
PROPERTIES
  EveryRunEnds
  FailureIsRetried
