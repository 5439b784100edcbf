SPECIFICATION Spec
CONSTANTS
  NoSpec = NoSpec
  NoTproxy = NoTproxy
  NoChain = NoChain
  Specs <- EverySpec
  LeftBy <- JustWifi
  Dumps <- NoneOrTwo
  Faulty = TRUE
INVARIANTS
  NothingStacks
  AppliedIsWhole
  ClearedIsEmpty
PROPERTIES
  RulesLeadSomewhere
CHECK_DEADLOCK TRUE
