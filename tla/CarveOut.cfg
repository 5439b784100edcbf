SPECIFICATION Spec
CONSTANTS
  None = None
  Redirects <- SharingRedirects
  Exclusions <- SharingExclusions
  MaxTimeouts = 2
  MaxDoubles = 1
INVARIANTS
  HookedIsWhole
  TornDown
  CopiesCostTwoTimeouts
CHECK_DEADLOCK TRUE
