CONSTANTS
  Conn = {c1, c2}
  Nick = {c1, c2}
  Creds <- OwnCreds
  Worker = {w1}
  IO = IO
  None = None
  Commands = {"SIGNUP", "PUSH_FILES"}
  MaxRequests = 4
  CounterMax = 15
  Asserts = FALSE
SPECIFICATION Spec
PROPERTY BuffersReclaimed
CHECK_DEADLOCK FALSE
