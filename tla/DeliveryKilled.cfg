SPECIFICATION Spec
CONSTANTS
  Client = {4, 5, 6}
  Chan = {1}
  Kind = {"NICK"}
  Capacity = 9
  InCapacity = 9
  MaxCommands = 3
  MaxTotal = 3
  Readers = {}
  SendsFirst = {}
  Leaving = {5}
INVARIANT BroadcastsComplete
CHECK_DEADLOCK FALSE
