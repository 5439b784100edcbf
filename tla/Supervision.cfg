SPECIFICATION FairSpec
CONSTANTS
  Procs = {"service", "hand"}
  Service = "service"
  Nobody = "nobody"
  NoFile = 0
  Keep = 2
  Full = 1
  Room = 5
  MaxTrouble = 2
INVARIANTS
  NoGaps
  NewestKept
  Bounded
PROPERTIES
  BackInService
CHECK_DEADLOCK TRUE
