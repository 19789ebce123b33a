SPECIFICATION Spec
CONSTANTS
  Letter = {"C"}
  Digit = {}
  Other = {" ", "#", ":", ",", "CR"}
  NameLimit = 2
  NickLimit = 4
  MaxLength = 8
INVARIANT NicknameAsCommented
CHECK_DEADLOCK FALSE
