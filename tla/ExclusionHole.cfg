\* A writer that pokes between two tasks of the refresh gets through.
SPECIFICATION Spec
CONSTANTS
  Refresh = refresh  Restoring = {daily}  Loading = {load}
  Handovers = {FALSE}
INVARIANTS
  NoInterleaving
