SPECIFICATION Spec
CONSTANTS
  Addr = {a1, a2}
  Fd = {4}
  Nick = {n1, n2}
  Chan = {1, 2}
  MaxListed = 2
  NickArg = {n1, n2}
  TargetArg = {n1, n2}
  NoNick = NoNick
  Garbage = Garbage
  Password = {pw, none, bad}
  NoPassword = none
  ServerPassword = pw
SYMMETRY Symmetry
INVARIANT EntriesAreLive
CHECK_DEADLOCK FALSE
