\* A published run that is published again.
SPECIFICATION Spec
CONSTANTS
  x = x
  y = y
  c = c
  d = d
  None = None
  Runs = {r1, r2}
  Artifacts = {x, y}
  Contents = {c, d}
  Outputs <- ThreeOutputs
  Sound <- TwoSound
  MaxFaults = 0
PROPERTY PublishedRetrySucceeds
