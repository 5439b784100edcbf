SPECIFICATION FairSpec
CONSTANTS
  Devs = {"wlan0", "rmnet0"}
  NoDev = NoDev
  NoVia = NoVia
  Routes <- SomeRoutes
  Others <- NoDefaults
  Ahead <- OtherTable
  After <- Subnet
  Batch = 2
  MaxChanges = 4
  MayFail = TRUE
INVARIANTS
  MirrorsMain
PROPERTIES
  RoundEnds
CHECK_DEADLOCK FALSE
