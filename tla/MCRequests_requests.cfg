CONSTANTS
  Channel = c1
  Membership = {p1, p2}
  Post = {m1, m2}
  Edit = {e1, e2}
  Fan = {f1}
  Request = {r1, r2}
  NoRow = NoRow
  NoEdit = NoEdit
  Phone = {n1, n2}
  MaxBook = 2
  Caller = {t1, t2}
SPECIFICATION MCSpec
INVARIANTS
  TypesOK
  GoneForGood
  EditKept
  
  PostAnswered
  NoRepetition
PROPERTY BookStored
CHECK_DEADLOCK FALSE
