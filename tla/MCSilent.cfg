CONSTANTS
  f1 = f1
  r1 = r1
  r2 = r2
  Req = {r1}
  File = {f1}
  FileOf <- OneFile
  Worker = {w1}
  Modes = {"nocompression"}
  Asserts = TRUE
  None = None
SPECIFICATION ServerSpec
PROPERTY TimersExpire
CHECK_DEADLOCK FALSE
