SPECIFICATION Spec
CONSTANTS
  Addr = {a1, a2}
  Fd = {4, 5}
  Nick = {n1, n2}
  Chan = {1, 2}
  MaxListed = 3
  NickArg <- AllNicks
  TargetArg <- AllNicks
  NoNick = NoNick
  Garbage = Garbage
  Password = {pw, none, bad}
  NoPassword = none
  ServerPassword = pw
SYMMETRY Symmetry
INVARIANT ListsAgree
PROPERTIES MembersLeaveOnlyBy OperatorsAppointed PointerFaultOnlyBy CleanLeaveIff ImplementsSessions
CONSTRAINT ListsBound
CHECK_DEADLOCK FALSE
