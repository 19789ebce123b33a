SPECIFICATION Spec
CONSTANTS
  Letter = {"C"}
  Digit = {}
  Other = {" ", "#", ":", ",", "CR"}
  NameLimit = 2
  NickLimit = 4
  MaxLength = 8
INVARIANT KickReasonIsOptional
CHECK_DEADLOCK FALSE
