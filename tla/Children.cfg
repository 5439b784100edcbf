SPECIFICATION FairSpec
CONSTANTS
  NoPid = NoPid
  Pids <- ThreePids
  MaxSpawns = 4
INVARIANTS
  Children_TypeOK
  TableIsExact
  HandlesStayTrue
PROPERTIES
  ClearedMeansGone
  LockComesBack
CHECK_DEADLOCK TRUE
