CONSTANTS
  Conn = {c1, c2}
  Nick = {c1, c2}
  Creds <- OwnCreds
  Worker = {w1}
  IO = IO
  None = None
  Commands = {"SIGNUP", "PUSH_FILES", "DELETE_ACCOUNT", "LOGOUT"}
  MaxRequests = 4
  CounterMax = 15
  Asserts = TRUE
SPECIFICATION Spec
PROPERTIES StoppedLeaves BuffersReclaimed
CHECK_DEADLOCK FALSE
