CONSTANTS
  u1 = u1
  u2 = u2
  k1 = k1
  k2 = k2
  k3 = k3
  k4 = k4
  User = {u1, u2}
  Anonymous = Anonymous
  Chat = {c1}
  Owner <- MCOwner
  Peer <- MCPeer
  Conn = {k1, k3, k4}
  UserOf <- MCUserOf
  ChatOf <- MCChatOf
  Message = {m1}
  NoMessage = NoMessage
  HttpUser = {u1}
  Faults = {"request", "restart", "delete"}
  Capacity = 1
SPECIFICATION Spec
INVARIANTS  NoGhostParticipant NoGhostOnline
CHECK_DEADLOCK FALSE
