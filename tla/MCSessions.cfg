CONSTANTS
  Conn = {c1, c2, c3}
  Nick = {c1, c2, c3}
  Creds <- OwnCreds
  Worker = {w1, w2}
  IO = IO
  None = None
  Commands = {"SIGNIN", "PUSH_FILES", "ADD_FILE", "LOGOUT"}
  MaxRequests = 7
  CounterMax = 15
  Asserts = TRUE
SPECIFICATION SessionsSpec
SYMMETRY ActorSymmetry
VIEW LiveView
INVARIANTS TypeOK CounterCoversProcessing RosterComplete BuffersOutliveSends
PROPERTIES CounterNeverWraps
CHECK_DEADLOCK FALSE
