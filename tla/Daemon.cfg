SPECIFICATION Spec
CONSTANTS
  c1 = c1
  c2 = c2
  root = root
  u1 = u1
  NoUid = NoUid
  s1 = s1
  NoSpec = NoSpec
  Conns = {c1, c2}
  Uids = {root, u1}
  Root = root
  Specs = {s1}
  MaxInbox = 1
  MaxChildren = 0
  wifi = wifi
  Uplinks = {wifi}
  NoUplink = NoUplink
  Main = Main
  Link = Link
  MaxQueue = 2
  MaxEvents = 5
  Trouble <- SomeTrouble
  NoOne = NoOne
  TheMonitor = TheMonitor
SYMMETRY Slots
INVARIANTS
  Daemon_TypeOK
PROPERTIES
  ImplementsSession
  ImplementsMonitor
CHECK_DEADLOCK FALSE
