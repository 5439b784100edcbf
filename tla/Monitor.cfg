SPECIFICATION FairSpec
CONSTANTS
  wifi = wifi
  cell = cell
  t1 = t1
  t2 = t2
  Uplinks = {wifi, cell}
  NoUplink = NoUplink
  Tables = {t1, t2}
  NoTable = NoTable
  Main = Main
  Link = Link
  MaxQueue = 3
  MaxEvents = 6
  Trouble <- EveryTrouble
INVARIANTS
  Monitor_TypeOK
  NeverFightsTheApp
PROPERTIES
  HandoverHealsWhileWatched
  ComesToRest
CHECK_DEADLOCK FALSE
