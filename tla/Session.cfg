SPECIFICATION FairSpec
CONSTANTS
  c1 = c1
  c2 = c2
  root = root
  u1 = u1
  u2 = u2
  s1 = s1
  NoUid = NoUid
  NoSpec = NoSpec
  Conns = {c1, c2}
  Uids = {root, u1, u2}
  Root = root
  Specs = {s1}
  MaxInbox = 1
  MaxChildren = 1
INVARIANTS
  Session_TypeOK
  Authenticated
  OrphanedExactly
  ClientsCounted
PROPERTIES
  ImplementsContract
  AppGoneIsNoticed
  AppIsAdmitted
CHECK_DEADLOCK TRUE
