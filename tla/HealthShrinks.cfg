\* A failed checkpoint followed by a shutdown upload and a restart.
SPECIFICATION Spec
CONSTANTS
  LastHour = 2
  MaxAttempts = 2
  MaxPending = 2
  MaxMishaps = 2
  Disks = {TRUE}
PROPERTIES
  ObjectNeverShrinks
