CONSTANTS
  u1 = u1
  User = {u1}
  Channel = {c1}
  Owner <- MCOwner
  Row = {s1}
  NoRow = NoRow
  Worker = {w1, w2}
  MaxTime = 1
  MaxTasks = 1
  MaxKills = 0
SPECIFICATION Spec
INVARIANTS OneMessage
CHECK_DEADLOCK FALSE
