CONSTANTS
  Conn = {c1, c2, c3}
  Nick = {c1, c2, c3}
  Creds <- OwnCreds
  Worker = {w1}
  IO = IO
  None = None
  Commands = {"ADD_FILE", "LOGOUT"}
  MaxRequests = 8
  CounterMax = 15
  Asserts = TRUE
SPECIFICATION BroadcastSpec
INVARIANT NotifierIsProcessing
CHECK_DEADLOCK FALSE
