SPECIFICATION Spec
CONSTANTS
  f1 = f1
  f2 = f2
  c1 = c1
  c2 = c2
  Sources <- MCSources
  Sizes = {0, 1, 2, 3, 4}
  Modes = {"nocompression", "zlib"}
  BufferSize = 2
  Client = {c1, c2}
  File = {f1, f2}
  FileOf <- MCFileOf
  BlockSize = 2
  Asserts = TRUE
  Byte = {1, 2, 3, 4, 10, 11}
  Fresh = f1
  Stored <- MCStored
INVARIANTS TypeOK EndToEnd Accepted CleanUpSafe
PROPERTY TransfersEnd
CHECK_DEADLOCK FALSE
