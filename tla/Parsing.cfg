SPECIFICATION Spec
CONSTANTS
  Letter = {"C"}
  Digit = {}
  Other = {" ", "#", ":", ",", "CR"}
  NameLimit = 2
  NickLimit = 4
  MaxLength = 8
INVARIANTS ThrowsExactlyWhen CutsAtSpaces JoinedChannelCanBeNamed SplitsIntoPieces NicknameCanBeNamed
CHECK_DEADLOCK FALSE
