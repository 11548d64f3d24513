\* Two runs of one date, with a kill or an expired table, and undisturbed retries.
SPECIFICATION FairSpec
CONSTANTS
  x = x
  y = y
  c = c
  d = d
  None = None
  Runs = {r1, r2}
  Artifacts = {x, y}
  Contents = {c, d}
  Outputs <- ThreeOutputs
  Sound <- TwoSound
  MaxFaults = 1
INVARIANTS TypeOK StableSound
PROPERTIES PublicationRefined RetryPublishes
