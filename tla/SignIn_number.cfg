CONSTANTS
  Request = {r1, r2}
  User = {u1, u2}
  Code = {c1, c2}
  Token = {t1, t2}
  Fake = Fake
  Nothing = Nothing
SYMMETRY Symmetry
SPECIFICATION Spec
INVARIANTS TypeOK CodeWorks OneVerified LoggedOutRefused
CHECK_DEADLOCK FALSE
