\* Two sessions, two files, as processes of the CLI and inside one sidecar.
CONSTANTS
  s1 = s1
  s2 = s2
  f1 = f1
  f2 = f2
  Session = {s1, s2}
  File = {f1, f2}
  Calls <- OneOrBoth
  None = None
  Deployments <- Both
  MaxPaths = 3
  MaxStops = 2
SPECIFICATION FairSpec
\* A CLI session may have left, and the bounds may be reached.
CHECK_DEADLOCK FALSE
INVARIANTS
  TypeOK
  ClaimsRespected
  
PROPERTIES
  
  DeadOwnerYields
