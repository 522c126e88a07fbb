CONSTANTS
  u1 = u1
  User = {u1}
  Channel = {c1}
  Owner <- MCOwner
  Row = {s1, s2}
  NoRow = NoRow
  Worker = {w1, w2}
  MaxTime = 1
  MaxTasks = 1
  MaxKills = 1
SPECIFICATION FairSpec
INVARIANTS TypeOK StoredOnce SentIsStored MembersPushed
PROPERTIES DueIsSent
CHECK_DEADLOCK FALSE
