SPECIFICATION Spec
CONSTANTS
  Fd = {4, 5, 6}
  Failures = {"setup", "poll"}
  MaxClients = 3
  MaxConnects = 4
  MaxPending = 1
INVARIANTS TypeOK NeverBlocksInRecv
PROPERTIES DataIsServed HangUpReleases ConnectionsAccepted InterruptStops
CHECK_DEADLOCK FALSE
