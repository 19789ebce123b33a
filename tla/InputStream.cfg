SPECIFICATION Spec
CONSTANTS
  Byte = {lf, quit, x, nul}
  END_MSG = lf
  QUIT = quit
  NUL = nul
  BUFFER_SIZE = 2
  MaxBytes = 5
INVARIANT NothingWaits
PROPERTY ExecutesLines
CHECK_DEADLOCK FALSE
