CONSTANTS
  u1 = u1
  u2 = u2
  k1 = k1
  k2 = k2
  s1 = s1
  s2 = s2
  User = {u1, u2}
  Anonymous = Anonymous
  Owner = u1
  Muted = {}
  Roaming = {u2}
  Conn = {k1, k2}
  UserOf <- MCUserOf
  Message = {m1}
  NoMessage = NoMessage
  Update = {p1, p2, p3}
  Default = Default
  Liker = {u1, u2}
  Socket = {s1, s2, s3}
  LikerOf <- MCLikerOf
  MaxLikes = 2
SPECIFICATION MCSpec
INVARIANTS
  TypesOK
  NoGhostParticipant
  
  
  LikesCurrent
 
CHECK_DEADLOCK FALSE
