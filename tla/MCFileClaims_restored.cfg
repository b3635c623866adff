\* A sidecar with two sessions and one file, which may be restarted.
CONSTANTS
  s1 = s1
  s2 = s2
  f1 = f1
  f2 = f2
  Session = {s1, s2}
  File = {f1}
  Calls <- Each
  None = None
  Deployments <- SidecarOnly
  MaxPaths = 2
  MaxStops = 1
SPECIFICATION Spec
\* A CLI session may have left, and the bounds may be reached.
CHECK_DEADLOCK FALSE
INVARIANT PeerEditsRefused
