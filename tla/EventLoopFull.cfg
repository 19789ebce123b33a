SPECIFICATION Spec
CONSTANTS
  Fd = {4, 5}
  Failures = {}
  MaxClients = 3
  MaxConnects = 3
  MaxPending = 1
PROPERTY DataIsServed
CHECK_DEADLOCK FALSE
