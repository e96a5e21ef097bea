CONSTANTS
  f1 = f1
  r1 = r1
  r2 = r2
  Req = {r1, r2}
  File = {f1}
  FileOf <- OneFile
  Worker = {w1, w2}
  Modes = {"zlib"}
  Asserts = TRUE
  None = None
SPECIFICATION Spec
INVARIANTS TypeOK AnsweredOnce Accounted Kept
PROPERTY ImplementsService
CHECK_DEADLOCK FALSE
