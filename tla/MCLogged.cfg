CONSTANTS
  Conn = {c1, c2}
  Nick = {n1}
  Creds <- AnyCreds
  Worker = {w1, w2}
  IO = IO
  None = None
  Commands = {"SIGNIN"}
  MaxRequests = 2
  CounterMax = 15
  Asserts = TRUE
SPECIFICATION Spec
INVARIANT LoggedOnce
CHECK_DEADLOCK FALSE
