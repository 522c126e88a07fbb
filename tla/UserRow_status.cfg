CONSTANTS
  Request = {r1}
  Socket = {k1}
  Text = {t1}
  Null = Null
SPECIFICATION Spec

PROPERTIES StatusOnly
