CONSTANTS
  u1 = u1
  u2 = u2
  k1 = k1
  k2 = k2
  k3 = k3
  k4 = k4
  User = {u1, u2}
  Anonymous = Anonymous
  Chat = {c1}
  Owner <- MCOwner
  Peer <- MCPeer
  Conn = {k1, k2}
  UserOf <- MCUserOf
  ChatOf <- MCChatOf
  Message = {m1, m2}
  NoMessage = NoMessage
  HttpUser = {}
  Faults = {"request", "restart", "delete"}
  Capacity = 6
SPECIFICATION Spec
INVARIANTS TypeOK  RostersAgree
 
CHECK_DEADLOCK FALSE
