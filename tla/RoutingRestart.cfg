SPECIFICATION Spec
CONSTANTS
  NoSpec = NoSpec
  NoTproxy = NoTproxy
  NoChain = NoChain
  Specs <- JustWifi
  LeftBy <- Nobody
  Dumps <- Nobody
  Faulty = FALSE
INVARIANTS
  NoBookkeepingNeeded
CHECK_DEADLOCK TRUE
