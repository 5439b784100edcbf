SPECIFICATION Spec
CONSTANTS
  NoSpec = NoSpec
  NoTproxy = NoTproxy
  NoChain = NoChain
  Specs <- WifiAndCellular
  LeftBy <- Nobody
  Dumps <- Nobody
  Faulty = TRUE
INVARIANTS
  StateIsAuthoritative
CHECK_DEADLOCK TRUE
