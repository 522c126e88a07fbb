CONSTANTS
  Request = {r1, r2}
  Socket = {k1, k2}
  Text = {t1}
  Null = Null
SYMMETRY Symmetry
SPECIFICATION Spec
INVARIANTS TypeOK TwoFactorWhole 
PROPERTIES VerifiedStays
