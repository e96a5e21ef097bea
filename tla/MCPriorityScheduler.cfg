CONSTANTS
  r1 = r1
  r2 = r2
  r3 = r3
  Item <- ItemValue
  Priority <- PriorityValue
  Worker = {w1, w2, w3}
  NoItem = NoItem
SPECIFICATION Spec
INVARIANTS TypeOK RunOnce NoLostWakeup StopReachesAll
PROPERTIES DrainsWhenQuiet ImplementsPool
CHECK_DEADLOCK FALSE
