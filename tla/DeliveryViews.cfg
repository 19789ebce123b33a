SPECIFICATION Spec
CONSTANTS
  Client = {4, 5, 6}
  Chan = {1}
  Kind = {"JOIN", "PART", "KICK", "QUIT", "NICK", "DCC"}
  Capacity = 9
  InCapacity = 9
  MaxCommands = 3
  MaxTotal = 3
  Readers = {}
  SendsFirst = {}
  Leaving = {5}
INVARIANTS TypeOK OrderKept ViewsAgree
CHECK_DEADLOCK FALSE
