\* Two runs, two tools, one fault: a crash or a write that fails.
CONSTANTS
  t1 = t1
  t2 = t2
  Tools = {t1, t2}
  NoCheckpoint = NoCheckpoint
  MaxRuns = 2
  MaxFaults = 1
SPECIFICATION FairSpec
\* Once the runs are used up, an idle session does nothing.
CHECK_DEADLOCK FALSE
INVARIANTS
  TypeOK
  EffectsRecorded
  PersistedWasReported
  
PROPERTIES
  NoStrayEffect
  ResumeNames
  StopSettles
