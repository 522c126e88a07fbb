---------------------------- MODULE GroupRoom_proofs ----------------------------
(* Theorems about GroupRoom, for any users, members, connections and messages.    *)
EXTENDS GroupRoom, SequenceTheorems, TLAPS

\* what taking the first element of an inbox leaves, and what appending adds
LEMMA TailElements ==
  ASSUME NEW S, NEW s \in Seq(S), s # <<>>
  PROVE  /\ Head(s) \in S /\ Tail(s) \in Seq(S)
         /\ Elements(s) \subseteq Elements(Tail(s)) \cup {Head(s)}
<1>1. /\ Len(s) \in Nat \ {0} /\ Head(s) = s[1]
      /\ Head(s) \in S /\ Tail(s) \in Seq(S) /\ Len(Tail(s)) = Len(s) - 1
      /\ \A i \in 1..Len(Tail(s)) : Tail(s)[i] = s[i + 1]
  BY HeadTailProperties, EmptySeq, LenProperties
<1>2. DOMAIN s = 1..Len(s) /\ DOMAIN Tail(s) = 1..(Len(s) - 1)
  BY <1>1, LenProperties
<1>3. ASSUME NEW i \in DOMAIN s
      PROVE  s[i] \in Elements(Tail(s)) \cup {Head(s)}
  <2>1. CASE i = 1
    BY <1>1, <2>1
  <2>2. CASE i # 1
    <3>1. i - 1 \in DOMAIN Tail(s) /\ Tail(s)[i - 1] = s[i]
      BY <1>1, <1>2, <2>2
    <3> QED
      BY <3>1 DEF Elements
  <2> QED
    BY <2>1, <2>2
<1> QED
  BY <1>1, <1>3 DEF Elements

LEMMA AppendElements ==
  ASSUME NEW S, NEW s \in Seq(S), NEW x \in S
  PROVE  /\ Append(s, x) \in Seq(S)
         /\ Elements(s) \cup {x} \subseteq Elements(Append(s, x))
<1>1. /\ Append(s, x) \in Seq(S) /\ Len(s) \in Nat /\ Len(Append(s, x)) = Len(s) + 1
      /\ \A i \in 1..Len(s) : Append(s, x)[i] = s[i]
      /\ Append(s, x)[Len(s) + 1] = x
  BY AppendProperties, LenProperties
<1>2. DOMAIN s = 1..Len(s) /\ DOMAIN Append(s, x) = 1..(Len(s) + 1)
  BY <1>1, LenProperties
<1>3. x \in Elements(Append(s, x))
  BY <1>1, <1>2 DEF Elements
<1>4. Elements(s) \subseteq Elements(Append(s, x))
  <2>1. ASSUME NEW i \in DOMAIN s
        PROVE  i \in DOMAIN Append(s, x) /\ Append(s, x)[i] = s[i]
    BY <1>1, <1>2
  <2> QED
    BY <2>1 DEF Elements
<1> QED
  BY <1>1, <1>3, <1>4

-----------------------------------------------------------------------------
(* What a place says of the locals of the handler: who got past the first check   *)
(* is a user, a message at hand has a key that was given out, and members are left *)
(* to be looked at only where the handler looks at them.                          *)
Holding == {"right", "save", "broadcast", "members", "push"}

Known ==
  \A k \in Conn :
    /\ pc[k] \in {"access", "group_add", "add_user", "status_on"} => UserOf[k] \in User
    /\ pc[k] \in Holding => msg[k] \in used
    /\ pc[k] \notin {"push", "crashed"} => todo[k] = {}

TypeInv == RoomTypeOK /\ Known

LEMMA TypeInit == Init => TypeInv
<1> SUFFICES ASSUME Init
             PROVE  TypeInv
  OBVIOUS
<1>1. inbox \in [Conn -> Seq(Message)]
  BY EmptySeq DEF Init
<1> QED
  BY <1>1 DEF Init, TypeInv, RoomTypeOK, Known, Place, Holding

\* a handler that goes from one place to another touches no other place
LEMMA GotoType ==
  ASSUME TypeInv, NEW k \in Conn, NEW from \in Place, NEW to \in Place, Goto(k, from, to)
  PROVE  /\ pc[k] = from /\ pc' \in [Conn -> Place] /\ pc'[k] = to
         /\ \A j \in Conn \ {k} : pc'[j] = pc[j]
BY DEF Goto, TypeInv, RoomTypeOK

LEMMA CrashType ==
  ASSUME TypeInv, NEW k \in Conn, NEW from \in Place, Crash(k, from)
  PROVE  /\ TypeInv' /\ pc[k] = from /\ pc'[k] = "crashed" /\ inbox'[k] = <<>>
         /\ \A j \in Conn \ {k} : pc'[j] = pc[j] /\ inbox'[j] = inbox[j]
<1>1. /\ pc[k] = from /\ pc' \in [Conn -> Place] /\ pc'[k] = "crashed"
      /\ \A j \in Conn \ {k} : pc'[j] = pc[j]
  BY GotoType DEF Crash, Place, Gone
<1>2. /\ inbox' \in [Conn -> Seq(Message)] /\ inbox'[k] = <<>>
      /\ \A j \in Conn \ {k} : inbox'[j] = inbox[j]
  BY EmptySeq DEF Crash, TypeInv, RoomTypeOK
<1> QED
  BY <1>1, <1>2
     DEF Crash, TypeInv, RoomTypeOK, Known, Holding, rows, request, ghosts

LEMMA TypeStep == TypeInv /\ [Next]_vars => TypeInv'
<1> SUFFICES ASSUME TypeInv, [Next]_vars
             PROVE  TypeInv'
  OBVIOUS
<1> USE DEF rows, layer, request, ghosts
<1>1. ASSUME NEW k \in Conn, Connect(k)
      PROVE  TypeInv'
  <2>1. /\ pc' \in [Conn -> Place] /\ \A j \in Conn \ {k} : pc'[j] = pc[j]
        /\ pc[k] = "absent" /\ pc'[k] \in {"refused", "access", "group_add"}
    BY <1>1 DEF Connect, Goto, Place, Connecting, TypeInv, RoomTypeOK
  <2>2. pc'[k] = "refused" \/ UserOf[k] # Anonymous
    BY <1>1 DEF Connect, Goto, TypeInv, RoomTypeOK
  <2>3. pc'[k] = "refused" \/ UserOf[k] \in User
    BY <2>2, GroupAssumption
  <2>4. RoomTypeOK'
    BY <1>1, <2>1 DEF Connect, TypeInv, RoomTypeOK
  <2> QED
    BY <1>1, <2>1, <2>3, <2>4 DEF Connect, TypeInv, Known, Holding
<1>2. ASSUME NEW k \in Conn, Access(k)
      PROVE  TypeInv'
  <2>1. /\ pc' \in [Conn -> Place] /\ pc'[k] \in {"refused", "group_add"}
        /\ \A j \in Conn \ {k} : pc'[j] = pc[j]
    BY <1>2 DEF Access, Goto, Place, Connecting, Serving, Leaving, Gone, TypeInv, RoomTypeOK
  <2> QED
    BY <1>2, <2>1 DEF Access, Goto, TypeInv, RoomTypeOK, Known, Holding
<1>3. ASSUME NEW k \in Conn, GroupAdd(k)
      PROVE  TypeInv'
  <2>1. /\ pc' \in [Conn -> Place] /\ pc'[k] = "add_user"
        /\ \A j \in Conn \ {k} : pc'[j] = pc[j]
    BY <1>3 DEF GroupAdd, Goto, Place, Connecting, Serving, Leaving, Gone, TypeInv, RoomTypeOK
  <2> QED
    BY <1>3, <2>1 DEF GroupAdd, Goto, TypeInv, RoomTypeOK, Known, Holding
<1>4. ASSUME NEW k \in Conn, StatusOn(k)
      PROVE  TypeInv'
  <2>1. /\ pc' \in [Conn -> Place] /\ pc'[k] = "notify_on"
        /\ \A j \in Conn \ {k} : pc'[j] = pc[j]
    BY <1>4 DEF StatusOn, Goto, Place, Connecting, Serving, Leaving, Gone, TypeInv, RoomTypeOK
  <2> QED
    BY <1>4, <2>1 DEF StatusOn, Goto, TypeInv, RoomTypeOK, Known, Holding
<1>5. ASSUME NEW k \in Conn, NotifyOn(k)
      PROVE  TypeInv'
  <2>1. /\ pc' \in [Conn -> Place] /\ pc'[k] = "get_messages"
        /\ \A j \in Conn \ {k} : pc'[j] = pc[j]
    BY <1>5 DEF NotifyOn, Goto, Place, Connecting, Serving, Leaving, Gone, TypeInv, RoomTypeOK
  <2> QED
    BY <1>5, <2>1 DEF NotifyOn, Goto, TypeInv, RoomTypeOK, Known, Holding
<1>6. ASSUME NEW k \in Conn, FirstMessages(k)
      PROVE  TypeInv'
  <2>1. /\ pc' \in [Conn -> Place] /\ pc'[k] = "ready"
        /\ \A j \in Conn \ {k} : pc'[j] = pc[j]
    BY <1>6 DEF FirstMessages, Goto, Place, Connecting, Serving, Leaving, Gone, TypeInv, RoomTypeOK
  <2> QED
    BY <1>6, <2>1 DEF FirstMessages, Goto, TypeInv, RoomTypeOK, Known, Holding
<1>7. ASSUME NEW k \in Conn, Broadcast(k)
      PROVE  TypeInv'
  <2>1. /\ pc' \in [Conn -> Place] /\ pc'[k] = "members" /\ pc[k] = "broadcast"
        /\ \A j \in Conn \ {k} : pc'[j] = pc[j]
    BY <1>7 DEF Broadcast, Goto, Place, Connecting, Serving, Leaving, Gone, TypeInv, RoomTypeOK
  <2> QED
    BY <1>7, <2>1 DEF Broadcast, Goto, TypeInv, RoomTypeOK, Known, Holding
<1>8. ASSUME NEW k \in Conn, RemoveUser(k)
      PROVE  TypeInv'
  <2>1. /\ pc' \in [Conn -> Place] /\ pc'[k] = "status_off"
        /\ \A j \in Conn \ {k} : pc'[j] = pc[j]
    BY <1>8 DEF RemoveUser, Goto, Place, Connecting, Serving, Leaving, Gone, TypeInv, RoomTypeOK
  <2> QED
    BY <1>8, <2>1 DEF RemoveUser, Goto, TypeInv, RoomTypeOK, Known, Holding
<1>9. ASSUME NEW k \in Conn, StatusOff(k)
      PROVE  TypeInv'
  <2>1. /\ pc' \in [Conn -> Place] /\ pc'[k] = "notify_off"
        /\ \A j \in Conn \ {k} : pc'[j] = pc[j]
    BY <1>9 DEF StatusOff, Goto, Place, Connecting, Serving, Leaving, Gone, TypeInv, RoomTypeOK
  <2> QED
    BY <1>9, <2>1 DEF StatusOff, Goto, TypeInv, RoomTypeOK, Known, Holding
<1>10. ASSUME NEW k \in Conn, GroupDiscard(k)
      PROVE  TypeInv'
  <2>1. /\ pc' \in [Conn -> Place] /\ pc'[k] = "closed"
        /\ \A j \in Conn \ {k} : pc'[j] = pc[j]
    BY <1>10 DEF GroupDiscard, Goto, Place, Connecting, Serving, Leaving, Gone, TypeInv, RoomTypeOK
  <2> QED
    BY <1>10, <2>1, EmptySeq DEF GroupDiscard, Goto, TypeInv, RoomTypeOK, Known, Holding
<1>11. ASSUME NEW k \in Conn, Disconnect(k)
      PROVE  TypeInv'
  <2>1. /\ pc' \in [Conn -> Place]
        /\ pc'[k] \in {"discard", "remove"} /\ pc[k] \in {"ready", "refused"}
        /\ \A j \in Conn \ {k} : pc'[j] = pc[j]
    BY <1>11 DEF Disconnect, Goto, Place, Connecting, Serving, Leaving, Gone, TypeInv, RoomTypeOK
  <2> QED
    BY <1>11, <2>1 DEF Disconnect, Goto, TypeInv, RoomTypeOK, Known, Holding
<1>12. ASSUME NEW k \in Conn, AddUser(k)
       PROVE  TypeInv'
  <2>1. CASE Crash(k, "add_user")
    BY <2>1, CrashType DEF Place, Connecting
  <2>2. CASE ~Crash(k, "add_user")
    <3>1. /\ pc' \in [Conn -> Place] /\ pc'[k] = "status_on" /\ pc[k] = "add_user"
          /\ \A j \in Conn \ {k} : pc'[j] = pc[j]
      BY <1>12, <2>2 DEF AddUser, Goto, Place, Connecting, TypeInv, RoomTypeOK
    <3>2. UserOf[k] \in User
      BY <3>1 DEF TypeInv, Known
    <3> QED
      BY <1>12, <2>2, <3>1, <3>2 DEF AddUser, TypeInv, RoomTypeOK, Known, Holding
  <2> QED
    BY <2>1, <2>2
<1>13. ASSUME NEW k \in Conn, GetMessages(k)
       PROVE  TypeInv'
  BY <1>13 DEF GetMessages, TypeInv, RoomTypeOK, Known
<1>14. ASSUME NEW k \in Conn, NEW m \in Message, NEW elsewhere \in BOOLEAN,
              CreateMessage(k, m, elsewhere)
       PROVE  TypeInv'
  <2>1. /\ pc' \in [Conn -> Place] /\ pc'[k] = "right" /\ pc[k] = "ready"
        /\ \A j \in Conn \ {k} : pc'[j] = pc[j]
    BY <1>14 DEF CreateMessage, Goto, Place, Serving, TypeInv, RoomTypeOK
  <2>2. /\ msg' \in [Conn -> Message \cup {NoMessage}] /\ msg'[k] = m /\ m \in used'
        /\ \A j \in Conn \ {k} : msg'[j] = msg[j]
        /\ used \subseteq used' /\ used' \subseteq Message /\ astray' \subseteq Message
    BY <1>14 DEF CreateMessage, TypeInv, RoomTypeOK
  <2> QED
    BY <1>14, <2>1, <2>2 DEF CreateMessage, TypeInv, RoomTypeOK, Known, Holding
<1>15. ASSUME NEW k \in Conn, Done(k) \/ UNCHANGED msg
       PROVE  /\ msg' \in [Conn -> Message \cup {NoMessage}]
              /\ \A j \in Conn \ {k} : msg'[j] = msg[j]
  BY <1>15 DEF Done, TypeInv, RoomTypeOK
<1>16. ASSUME NEW k \in Conn, CheckRight(k)
       PROVE  TypeInv'
  <2>1. CASE Crash(k, "right")
    BY <2>1, CrashType DEF Place, Serving
  <2>2. CASE ~Crash(k, "right")
    <3>1. /\ Done(k) \/ UNCHANGED msg
          /\ pc'[k] = "save" => msg' = msg
          /\ pc' \in [Conn -> Place] /\ pc'[k] \in {"save", "ready"} /\ pc[k] = "right"
          /\ \A j \in Conn \ {k} : pc'[j] = pc[j]
      BY <1>16, <2>2 DEF CheckRight, Goto, Place, Serving, TypeInv, RoomTypeOK
    <3>2. UNCHANGED <<rows, online, layer, found, astray, todo, shown, ghosts>>
      BY <1>16, <2>2 DEF CheckRight
    <3> QED
      BY <1>15, <3>1, <3>2 DEF TypeInv, RoomTypeOK, Known, Holding
  <2> QED
    BY <2>1, <2>2
<1>17. ASSUME NEW k \in Conn, SaveMessage(k)
       PROVE  TypeInv'
  <2>1. CASE Crash(k, "save")
    BY <2>1, CrashType DEF Place, Serving
  <2>2. CASE ~Crash(k, "save")
    <3>1. /\ pc' \in [Conn -> Place] /\ pc'[k] = "broadcast" /\ pc[k] = "save"
          /\ \A j \in Conn \ {k} : pc'[j] = pc[j]
      BY <1>17, <2>2 DEF SaveMessage, Goto, Place, Serving, TypeInv, RoomTypeOK
    <3>2. msg[k] \in Message
      BY <3>1 DEF TypeInv, RoomTypeOK, Known, Holding
    <3> QED
      BY <1>17, <2>2, <3>1, <3>2 DEF SaveMessage, TypeInv, RoomTypeOK, Known, Holding
  <2> QED
    BY <2>1, <2>2
<1>18. ASSUME NEW k \in Conn, ReadMembers(k)
       PROVE  TypeInv'
  <2>1. /\ Done(k) \/ UNCHANGED msg
        /\ pc'[k] = "push" => msg' = msg
        /\ pc' \in [Conn -> Place] /\ pc[k] = "members" /\ pc'[k] \in {"push", "ready"}
        /\ \A j \in Conn \ {k} : pc'[j] = pc[j]
    BY <1>18 DEF ReadMembers, Goto, Place, Serving, TypeInv, RoomTypeOK
  <2>2. /\ todo' \in [Conn -> SUBSET User] /\ \A j \in Conn \ {k} : todo'[j] = todo[j]
        /\ pc'[k] = "push" \/ todo'[k] = {}
    BY <1>18, <2>1 DEF ReadMembers, Goto, TypeInv, RoomTypeOK
  <2> QED
    BY <1>15, <1>18, <2>2, <2>1 DEF ReadMembers, TypeInv, RoomTypeOK, Known, Holding
<1>19. ASSUME NEW k \in Conn, NEW u \in User, Push(k, u)
       PROVE  TypeInv'
  <2>1. /\ Done(k) \/ UNCHANGED msg
        /\ pc'[k] = "push" => msg' = msg
        /\ pc' \in [Conn -> Place] /\ pc[k] = "push" /\ pc'[k] \in {"push", "ready"}
        /\ \A j \in Conn \ {k} : pc'[j] = pc[j]
    BY <1>19 DEF Push, LookedAt, Goto, Place, Serving, TypeInv, RoomTypeOK
  <2>2. /\ todo' \in [Conn -> SUBSET User] /\ \A j \in Conn \ {k} : todo'[j] = todo[j]
        /\ pc'[k] = "push" \/ todo'[k] = {}
    BY <1>19, <2>1 DEF Push, LookedAt, Goto, TypeInv, RoomTypeOK
  <2>3. msg[k] \in Message
    BY <2>1 DEF TypeInv, RoomTypeOK, Known, Holding
  <2>4. pushed' \subseteq Message \X User
    BY <1>19, <2>3 DEF Push, TypeInv, RoomTypeOK
  <2> QED
    BY <1>15, <1>19, <2>2, <2>1, <2>4 DEF Push, LookedAt, TypeInv, RoomTypeOK, Known, Holding
<1>20. ASSUME NEW k \in Conn, GroupMessage(k)
       PROVE  TypeInv'
  <2>1. Head(inbox[k]) \in Message /\ Tail(inbox[k]) \in Seq(Message)
    BY <1>20, TailElements DEF GroupMessage, TypeInv, RoomTypeOK
  <2> QED
    BY <1>20, <2>1 DEF GroupMessage, TypeInv, RoomTypeOK, Known
<1>21. ASSUME NEW k \in Conn, NotifyOff(k)
       PROVE  TypeInv'
  <2>1. CASE Crash(k, "notify_off")
    BY <2>1, CrashType DEF Place, Leaving
  <2>2. CASE ~Crash(k, "notify_off")
    <3>1. /\ pc' \in [Conn -> Place] /\ pc'[k] = "discard" /\ pc[k] = "notify_off"
          /\ \A j \in Conn \ {k} : pc'[j] = pc[j]
      BY <1>21, <2>2 DEF NotifyOff, Goto, Place, Leaving, TypeInv, RoomTypeOK
    <3> QED
      BY <1>21, <2>2, <3>1 DEF NotifyOff, TypeInv, RoomTypeOK, Known, Holding
  <2> QED
    BY <2>1, <2>2
<1>22. ASSUME NEW k \in Conn, Die(k) \/ ScheduleMessage(k)
       PROVE  TypeInv'
  <2>1. \E from \in Place : Crash(k, from)
    BY <1>22 DEF Die, ScheduleMessage, Place, Serving, TypeInv, RoomTypeOK
  <2> QED
    BY <2>1, CrashType
<1>23. CASE Http
  <2>1. ASSUME NEW m \in Message, PostMessage(m)
        PROVE  TypeInv'
    BY <2>1 DEF PostMessage, TypeInv, RoomTypeOK, Known
  <2>2. ASSUME NEW u \in User, JoinGroup(u) \/ LeaveGroup(u)
        PROVE  TypeInv'
    BY <2>2 DEF JoinGroup, LeaveGroup, TypeInv, RoomTypeOK, Known
  <2>3. ASSUME NEW us \in SUBSET User, AddMembers(us)
        PROVE  TypeInv'
    BY <2>3 DEF AddMembers, TypeInv, RoomTypeOK, Known
  <2>4. ASSUME NEW r \in SUBSET Right, UpdatePermissions(r)
        PROVE  TypeInv'
    BY <2>4 DEF UpdatePermissions, TypeInv, RoomTypeOK, Known
  <2>5. CASE DeleteGroup
    BY <2>5 DEF DeleteGroup, TypeInv, RoomTypeOK, Known
  <2>6. ASSUME NEW u \in Roaming, Elsewhere(u)
        PROVE  TypeInv'
    BY <2>6, GroupAssumption DEF Elsewhere, TypeInv, RoomTypeOK, Known
  <2> QED
    BY <1>23, <2>1, <2>2, <2>3, <2>4, <2>5, <2>6 DEF Http
<1>24. CASE UNCHANGED vars
  BY <1>24 DEF vars, TypeInv, RoomTypeOK, Known
<1> QED
  BY <1>1, <1>2, <1>3, <1>4, <1>5, <1>6, <1>7, <1>8, <1>9, <1>10, <1>11, <1>12, <1>13, <1>14,
     <1>16, <1>17, <1>18, <1>19, <1>20, <1>21, <1>22, <1>23, <1>24 DEF Next, Handler, Client

\* Every variable of the room has its type.
THEOREM RoomTypeCorrect == Spec => []RoomTypeOK
<1>1. TypeInv => RoomTypeOK
  BY DEF TypeInv
<1> QED
  BY <1>1, TypeInit, TypeStep, PTL DEF Spec

-----------------------------------------------------------------------------
(* The arrows between the places: where a handler may be after a step, and which  *)
(* actions of its own take it there.                                              *)
Walked(k) ==
  \/ pc'[k] = pc[k] \/ pc'[k] = "crashed"
  \/ pc[k] = "absent" /\ pc'[k] \in {"refused", "access", "group_add"}
  \/ pc[k] = "access" /\ pc'[k] \in {"refused", "group_add"}
  \/ pc[k] = "group_add" /\ pc'[k] = "add_user" /\ GroupAdd(k)
  \/ pc[k] = "add_user" /\ pc'[k] = "status_on"
  \/ pc[k] = "status_on" /\ pc'[k] = "notify_on"
  \/ pc[k] = "notify_on" /\ pc'[k] = "get_messages"
  \/ pc[k] = "get_messages" /\ pc'[k] = "ready" /\ FirstMessages(k)
  \/ pc[k] = "ready" /\ pc'[k] = "right"
  \/ pc[k] = "right" /\ pc'[k] \in {"save", "ready"}
  \/ pc[k] = "save" /\ pc'[k] = "broadcast"
  \/ pc[k] = "broadcast" /\ pc'[k] = "members" /\ Broadcast(k)
  \/ pc[k] \in {"members", "push"} /\ pc'[k] \in {"push", "ready"}
  \/ pc[k] \in {"ready", "refused"} /\ pc'[k] = "remove"
  \/ pc[k] \in {"ready", "refused"} /\ pc'[k] = "discard" /\ UserOf[k] = Anonymous
  \/ pc[k] = "remove" /\ pc'[k] = "status_off" /\ RemoveUser(k)
  \/ pc[k] = "status_off" /\ pc'[k] = "notify_off" /\ StatusOff(k)
  \/ pc[k] = "notify_off" /\ pc'[k] = "discard"
  \/ pc[k] = "discard" /\ pc'[k] = "closed"

LEMMA PlaceStep ==
  ASSUME TypeInv, [Next]_vars
  PROVE  \A k \in Conn : Walked(k)
<1> USE DEF TypeInv, RoomTypeOK
<1>1. ASSUME NEW k \in Conn, NEW from, Crash(k, from)
      PROVE  \A j \in Conn : Walked(j)
  BY <1>1 DEF Crash, Goto, Walked
<1>2. ASSUME NEW k \in Conn, Connect(k) \/ Access(k) \/ GroupAdd(k)
      PROVE  \A j \in Conn : Walked(j)
  BY <1>2 DEF Connect, Access, GroupAdd, Goto, Walked
<1>3. ASSUME NEW k \in Conn, AddUser(k) \/ StatusOn(k) \/ NotifyOn(k) \/ FirstMessages(k)
      PROVE  \A j \in Conn : Walked(j)
  BY <1>1, <1>3 DEF AddUser, StatusOn, NotifyOn, FirstMessages, Goto, Walked
<1>4. ASSUME NEW k \in Conn, CheckRight(k) \/ SaveMessage(k) \/ Broadcast(k)
      PROVE  \A j \in Conn : Walked(j)
  BY <1>1, <1>4 DEF CheckRight, SaveMessage, Broadcast, Goto, Walked
<1>5. ASSUME NEW k \in Conn, ReadMembers(k) \/ \E u \in User : Push(k, u)
      PROVE  \A j \in Conn : Walked(j)
  BY <1>5 DEF ReadMembers, Push, LookedAt, Goto, Walked
<1>6. ASSUME NEW k \in Conn, RemoveUser(k) \/ StatusOff(k) \/ NotifyOff(k) \/ GroupDiscard(k)
      PROVE  \A j \in Conn : Walked(j)
  BY <1>1, <1>6 DEF RemoveUser, StatusOff, NotifyOff, GroupDiscard, Goto, Walked
<1>7. ASSUME NEW k \in Conn, Disconnect(k)
      PROVE  \A j \in Conn : Walked(j)
  BY <1>7 DEF Disconnect, Walked
<1>8. ASSUME NEW k \in Conn, NEW m \in Message, NEW elsewhere \in BOOLEAN,
             CreateMessage(k, m, elsewhere)
      PROVE  \A j \in Conn : Walked(j)
  BY <1>8 DEF CreateMessage, Goto, Walked
<1>9. ASSUME NEW k \in Conn, Die(k) \/ ScheduleMessage(k)
      PROVE  \A j \in Conn : Walked(j)
  BY <1>1, <1>9 DEF Die, ScheduleMessage
<1>10. ASSUME UNCHANGED pc
       PROVE  \A j \in Conn : Walked(j)
  BY <1>10 DEF Walked
<1>11. ASSUME NEW k \in Conn, GetMessages(k) \/ GroupMessage(k)
       PROVE  UNCHANGED pc
  BY <1>11 DEF GetMessages, GroupMessage
<1>12. CASE Http
  BY <1>10, <1>12 DEF Http, JoinGroup, LeaveGroup, AddMembers, UpdatePermissions, PostMessage,
                      DeleteGroup, Elsewhere
<1>13. CASE UNCHANGED vars
  BY <1>10, <1>13 DEF vars
<1> QED
  BY <1>2, <1>3, <1>4, <1>5, <1>6, <1>7, <1>8, <1>9, <1>10, <1>11, <1>12, <1>13
     DEF Next, Handler, Client

-----------------------------------------------------------------------------
(* The row of a participant appears with a connection that enters Enrolled, and   *)
(* the connection leaves by removing it, or dies.                                 *)
LEMMA GhostStep ==
  ASSUME TypeInv, NoGhostParticipant, [Next]_vars
  PROVE  NoGhostParticipant'
<1>1. \/ participants' \subseteq participants
      \/ \E k \in Conn : /\ participants' = participants \cup {UserOf[k]}
                         /\ pc'[k] = "status_on"
  BY DEF Next, Handler, Client, Http, Connect, Access, GroupAdd, AddUser, StatusOn, NotifyOn,
         FirstMessages, CheckRight, SaveMessage, Broadcast, ReadMembers, Push, LookedAt,
         RemoveUser, StatusOff, NotifyOff, GroupDiscard, GetMessages, ScheduleMessage, Disconnect,
         CreateMessage, GroupMessage, Die, JoinGroup, LeaveGroup, AddMembers, UpdatePermissions,
         PostMessage, DeleteGroup, Elsewhere, Crash, Goto, rows, vars, TypeInv, RoomTypeOK
<1>2. ASSUME NEW k \in Conn, pc[k] \in Enrolled \cup {"crashed"}
      PROVE  \/ pc'[k] \in Enrolled \cup {"crashed"} \/ UserOf[k] = Anonymous
             \/ participants' = participants \ {UserOf[k]}
  BY <1>2, PlaceStep DEF Walked, Enrolled, Serving, RemoveUser
<1>3. ASSUME NEW u \in participants', NEW k \in Conn, UserOf[k] = u,
             pc[k] \in Enrolled \cup {"crashed"}, u \in participants
      PROVE  pc'[k] \in Enrolled \cup {"crashed"}
  BY <1>2, <1>3, GroupAssumption DEF TypeInv, RoomTypeOK
<1>4. "status_on" \in Enrolled
  BY DEF Enrolled
<1> QED
  BY <1>1, <1>3, <1>4 DEF NoGhostParticipant

\* Every row of GroupParticipant has its connection, or one that died.
THEOREM ParticipantsAnswered == Spec => []NoGhostParticipant
<1> DEFINE IInv == TypeInv /\ NoGhostParticipant
<1>1. Init => IInv
  BY TypeInit DEF Init, NoGhostParticipant
<1>2. IInv /\ [Next]_vars => IInv'
  BY TypeStep, GhostStep
<1>3. IInv => NoGhostParticipant
  OBVIOUS
<1> QED
  BY <1>1, <1>2, <1>3, PTL DEF Spec

-----------------------------------------------------------------------------
(* An online flag was set by something else, or by a connection that is served, is *)
(* about to take the flag back, or died.                                          *)
Lit == {"notify_on", "get_messages", "remove", "status_off", "crashed"} \cup Serving

LitInv == \A u \in online \ touched : \E k \in Conn : UserOf[k] = u /\ pc[k] \in Lit

LEMMA LitStep ==
  ASSUME TypeInv, LitInv, [Next]_vars
  PROVE  LitInv'
<1>1. \/ online' \ touched' \subseteq online \ touched
      \/ \E k \in Conn : /\ online' = online \cup {UserOf[k]} /\ touched' = touched
                         /\ pc'[k] = "notify_on"
  BY DEF Next, Handler, Client, Http, Connect, Access, GroupAdd, AddUser, StatusOn, NotifyOn,
         FirstMessages, CheckRight, SaveMessage, Broadcast, ReadMembers, Push, LookedAt,
         RemoveUser, StatusOff, NotifyOff, GroupDiscard, GetMessages, ScheduleMessage, Disconnect,
         CreateMessage, GroupMessage, Die, JoinGroup, LeaveGroup, AddMembers, UpdatePermissions,
         PostMessage, DeleteGroup, Elsewhere, Crash, Goto, rows, ghosts, vars, TypeInv, RoomTypeOK
<1>2. ASSUME NEW u \in online' \ touched', u \in online \ touched
      PROVE  \E k \in Conn : UserOf[k] = u /\ pc'[k] \in Lit
  <2>1. PICK k \in Conn : UserOf[k] = u /\ pc[k] \in Lit
    BY <1>2 DEF LitInv
  <2>2. pc'[k] \in Lit \/ UserOf[k] = Anonymous \/ StatusOff(k)
    BY <2>1, PlaceStep DEF Walked, Lit, Serving
  <2>3. UserOf[k] # Anonymous
    BY <1>2, <2>1, GroupAssumption DEF TypeInv, RoomTypeOK
  <2>4. ~StatusOff(k)
    BY <1>2, <2>1 DEF StatusOff
  <2> QED
    BY <2>1, <2>2, <2>3, <2>4
<1>3. "notify_on" \in Lit
  BY DEF Lit
<1> QED
  BY <1>1, <1>2, <1>3 DEF LitInv

-----------------------------------------------------------------------------
(* A connection that a broadcast must reach is in the group.                      *)
Joining == {"add_user", "status_on", "notify_on", "get_messages"} \cup Serving

JoinedInv == \A k \in Conn : pc[k] \in Joining => k \in joined

LEMMA JoinedStep ==
  ASSUME TypeInv, JoinedInv, [Next]_vars
  PROVE  JoinedInv'
<1>1. ASSUME NEW k \in Conn, pc'[k] \in Joining
      PROVE  k \in joined \/ GroupAdd(k)
  BY <1>1, PlaceStep DEF Walked, Joining, Serving, JoinedInv
<1>2. ASSUME NEW k \in Conn, k \in joined \ joined'
      PROVE  pc'[k] = "closed"
  BY <1>2 DEF Next, Handler, Client, Http, Connect, Access, GroupAdd, AddUser, StatusOn, NotifyOn,
         FirstMessages, CheckRight, SaveMessage, Broadcast, ReadMembers, Push, LookedAt,
         RemoveUser, StatusOff, NotifyOff, GroupDiscard, GetMessages, ScheduleMessage, Disconnect,
         CreateMessage, GroupMessage, Die, JoinGroup, LeaveGroup, AddMembers, UpdatePermissions,
         PostMessage, DeleteGroup, Elsewhere, Crash, Goto, layer, vars, TypeInv, RoomTypeOK
<1>3. \A k \in Conn : GroupAdd(k) => k \in joined'
  BY DEF GroupAdd
<1>4. "closed" \notin Joining
  BY DEF Joining, Serving
<1> QED
  BY <1>1, <1>2, <1>3, <1>4 DEF JoinedInv

-----------------------------------------------------------------------------
(* Two handlers never have the same message at hand.                              *)
OwnInv ==
  \A j, k \in Conn : pc[j] \in Holding /\ pc[k] \in Holding /\ j # k => msg[j] # msg[k]

\* a handler keeps its message; it gets one by create_message
LEMMA MessageStep ==
  ASSUME TypeInv, [Next]_vars, NEW k \in Conn, pc'[k] \in Holding
  PROVE  \/ pc[k] \in Holding /\ msg'[k] = msg[k]
         \/ pc[k] = "ready" /\ msg'[k] \notin used
            /\ \A j \in Conn \ {k} : pc'[j] = pc[j] /\ msg'[j] = msg[j]
  BY DEF Next, Handler, Client, Http, Connect, Access, GroupAdd, AddUser, StatusOn, NotifyOn,
         FirstMessages, CheckRight, SaveMessage, Broadcast, ReadMembers, Push, LookedAt,
         RemoveUser, StatusOff, NotifyOff, GroupDiscard, GetMessages, ScheduleMessage, Disconnect,
         CreateMessage, GroupMessage, Die, JoinGroup, LeaveGroup, AddMembers, UpdatePermissions,
         PostMessage, DeleteGroup, Elsewhere, Crash, Goto, request, Done, vars,
         TypeInv, RoomTypeOK, Holding

LEMMA OwnStep ==
  ASSUME TypeInv, OwnInv, [Next]_vars
  PROVE  OwnInv'
<1> SUFFICES ASSUME NEW j \in Conn, NEW k \in Conn, pc'[j] \in Holding, pc'[k] \in Holding,
                    j # k
             PROVE  msg'[j] # msg'[k]
  BY DEF OwnInv
<1>1. CASE pc[j] \in Holding /\ msg'[j] = msg[j] /\ pc[k] \in Holding /\ msg'[k] = msg[k]
  BY <1>1 DEF OwnInv
<1>2. \A i \in Conn : pc[i] \in Holding => msg[i] \in used
  BY DEF TypeInv, Known
<1>3. "ready" \notin Holding
  BY DEF Holding
<1> QED
  BY <1>1, <1>2, <1>3, MessageStep

-----------------------------------------------------------------------------
(* Once a stored message is broadcast to its group, every connection that is       *)
(* served has it on its screen or on its way.                                     *)
Had(k) == shown[k] \cup Elements(inbox[k])

ReachInv ==
  \A k, j \in Conn :
    /\ pc[k] \in {"members", "push"} /\ msg[k] \in log \ astray
    /\ pc[j] \in Serving
    => msg[k] \in Had(j)

\* a connection that stays served loses nothing
LEMMA HadStep ==
  ASSUME TypeInv, [Next]_vars, NEW j \in Conn, pc'[j] \in Serving
  PROVE  \/ pc[j] \in Serving /\ Had(j) \subseteq Had(j)'
         \/ log' \subseteq Had(j)'
<1> USE DEF TypeInv, RoomTypeOK
<1>1. pc[j] \in Serving \/ FirstMessages(j)
  BY PlaceStep DEF Walked, Serving
<1>2. CASE FirstMessages(j)
  BY <1>2 DEF FirstMessages, Had, rows
<1>3. shown[j] \subseteq shown'[j]
  BY DEF Next, Handler, Client, Http, Connect, Access, GroupAdd, AddUser, StatusOn, NotifyOn,
         FirstMessages, CheckRight, SaveMessage, Broadcast, ReadMembers, Push, LookedAt,
         RemoveUser, StatusOff, NotifyOff, GroupDiscard, GetMessages, ScheduleMessage, Disconnect,
         CreateMessage, GroupMessage, Die, JoinGroup, LeaveGroup, AddMembers, UpdatePermissions,
         PostMessage, DeleteGroup, Elsewhere, Crash, Goto, vars
<1>4. \/ inbox'[j] = inbox[j]
      \/ /\ inbox[j] # <<>> /\ inbox'[j] = Tail(inbox[j])
         /\ shown'[j] = shown[j] \cup {Head(inbox[j])}
      \/ \E k \in Conn : pc[k] = "broadcast" /\ inbox'[j] = Append(inbox[j], msg[k])
  BY DEF Next, Handler, Client, Http, Connect, Access, GroupAdd, AddUser, StatusOn, NotifyOn,
         FirstMessages, CheckRight, SaveMessage, Broadcast, ReadMembers, Push, LookedAt,
         RemoveUser, StatusOff, NotifyOff, GroupDiscard, GetMessages, ScheduleMessage, Disconnect,
         CreateMessage, GroupMessage, Die, JoinGroup, LeaveGroup, AddMembers, UpdatePermissions,
         PostMessage, DeleteGroup, Elsewhere, Crash, Goto, layer, vars, Serving
<1>5. CASE /\ inbox[j] # <<>> /\ inbox'[j] = Tail(inbox[j])
           /\ shown'[j] = shown[j] \cup {Head(inbox[j])}
  <2>1. Elements(inbox[j]) \subseteq Elements(Tail(inbox[j])) \cup {Head(inbox[j])}
    BY <1>5, TailElements
  <2> QED
    BY <1>1, <1>2, <1>5, <2>1 DEF Had
<1>6. ASSUME NEW k \in Conn, pc[k] = "broadcast", inbox'[j] = Append(inbox[j], msg[k])
      PROVE  Elements(inbox[j]) \subseteq Elements(inbox'[j])
  <2>1. msg[k] \in Message
    BY <1>6 DEF Known, Holding
  <2> QED
    BY <1>6, <2>1, AppendElements
<1> QED
  BY <1>1, <1>2, <1>3, <1>4, <1>5, <1>6 DEF Had

LEMMA ReachStep ==
  ASSUME TypeInv, JoinedInv, OwnInv, ReachInv, [Next]_vars
  PROVE  ReachInv'
<1> SUFFICES ASSUME NEW k \in Conn, NEW j \in Conn,
                    pc'[k] \in {"members", "push"}, msg'[k] \in log' \ astray',
                    pc'[j] \in Serving
             PROVE  msg'[k] \in Had(j)'
  BY DEF ReachInv
<1>1. pc[k] \in Holding /\ msg'[k] = msg[k] /\ msg[k] \in used
  BY MessageStep, PlaceStep DEF Walked, Holding, TypeInv, Known
<1>2. astray \subseteq astray'
  BY DEF Next, Handler, Client, Http, Connect, Access, GroupAdd, AddUser, StatusOn, NotifyOn,
         FirstMessages, CheckRight, SaveMessage, Broadcast, ReadMembers, Push, LookedAt,
         RemoveUser, StatusOff, NotifyOff, GroupDiscard, GetMessages, ScheduleMessage, Disconnect,
         CreateMessage, GroupMessage, Die, JoinGroup, LeaveGroup, AddMembers, UpdatePermissions,
         PostMessage, DeleteGroup, Elsewhere, Crash, Goto, request, vars
<1>3. CASE Broadcast(k)
  <2>1. msg[k] \in Message /\ msg[k] \notin astray
    BY <1>1, <1>2 DEF TypeInv, RoomTypeOK
  <2>2. pc[j] \in Serving
    BY <1>3, PlaceStep DEF Walked, Serving, Broadcast, Goto, TypeInv, RoomTypeOK
  <2>3. j \in Listeners
    BY <2>2 DEF JoinedInv, Joining, Listeners, Gone, Serving
  <2>4. inbox'[j] = Append(inbox[j], msg[k])
    BY <1>3, <2>1, <2>3 DEF Broadcast, TypeInv, RoomTypeOK
  <2> QED
    BY <1>1, <2>1, <2>4, AppendElements DEF Had, TypeInv, RoomTypeOK
<1>4. CASE ~Broadcast(k)
  <2>1. pc[k] \in {"members", "push"}
    BY <1>4, PlaceStep DEF Walked
  <2>2. msg[k] \in log
    <3>1. \/ log' \subseteq log
          \/ \E i \in Conn : pc[i] = "save" /\ log' = log \cup {msg[i]}
          \/ \E m \in Message \ used : log' = log \cup {m}
      BY DEF Next, Handler, Client, Http, Connect, Access, GroupAdd, AddUser, StatusOn, NotifyOn,
         FirstMessages, CheckRight, SaveMessage, Broadcast, ReadMembers, Push, LookedAt,
         RemoveUser, StatusOff, NotifyOff, GroupDiscard, GetMessages, ScheduleMessage, Disconnect,
         CreateMessage, GroupMessage, Die, JoinGroup, LeaveGroup, AddMembers, UpdatePermissions,
         PostMessage, DeleteGroup, Elsewhere, Crash, Goto, rows, vars
    <3>2. ASSUME NEW i \in Conn, pc[i] = "save"
          PROVE  msg[i] # msg[k]
      BY <2>1, <3>2 DEF OwnInv, Holding
    <3> QED
      BY <1>1, <3>1, <3>2
  <2>3. pc[j] \in Serving => msg[k] \in Had(j)
    BY <1>1, <1>2, <2>1, <2>2 DEF ReachInv
  <2> QED
    BY <1>1, <2>3, HadStep
<1> QED
  BY <1>3, <1>4

-----------------------------------------------------------------------------
(* The one look at the flag of a member: whoever it takes for served is.          *)
LEMMA Informed ==
  ASSUME TypeInv, LitInv, ReachInv, NEW k \in Conn, NEW u \in User, Push(k, u),
         msg[k] \in log \ astray, u \notin Muted
  PROVE  \/ <<msg[k], u>> \in pushed'
         \/ u \in touched
         \/ \E j \in Conn : UserOf[j] = u /\
              (Reached(j, msg[k]) \/ pc[j] \in {"remove", "status_off", "crashed"})
<1>1. pc[k] = "push"
  BY DEF Push, LookedAt
<1>2. CASE u \notin online
  BY <1>2 DEF Push
<1>3. CASE u \in online \ touched
  <2>1. PICK j \in Conn : UserOf[j] = u /\ pc[j] \in Lit
    BY <1>3 DEF LitInv
  <2>2. CASE pc[j] \in Serving
    BY <1>1, <2>1, <2>2 DEF ReachInv, Reached, Had
  <2>3. CASE pc[j] \notin Serving
    BY <2>1, <2>3 DEF Lit, Reached
  <2> QED
    BY <2>1, <2>2, <2>3
<1> QED
  BY <1>2, <1>3

\* Whom the one look at is_online takes for served has the message, or will list it.
THEOREM MembersInformed == Spec => MemberInformed
<1> DEFINE IInv == TypeInv /\ LitInv /\ JoinedInv /\ OwnInv /\ ReachInv
<1>1. Init => IInv
  BY TypeInit DEF Init, LitInv, JoinedInv, OwnInv, ReachInv, Joining, Serving, Holding
<1>2. IInv /\ [Next]_vars => IInv'
  BY TypeStep, LitStep, JoinedStep, OwnStep, ReachStep
<1>3. ASSUME IInv, [Next]_vars, NEW k \in Conn, NEW u \in User,
             u \in todo[k] \ todo'[k], msg[k] \in log \ astray, u \notin Muted
      PROVE  \/ <<msg[k], u>> \in pushed'
             \/ u \in touched
             \/ \E j \in Conn : UserOf[j] = u /\
                  (Reached(j, msg[k]) \/ pc[j] \in {"remove", "status_off", "crashed"})
  <2>1. pc[k] \in {"push", "crashed"}
    BY <1>3 DEF TypeInv, Known
  <2>2. \/ UNCHANGED todo
        \/ \E i \in Conn : ReadMembers(i)
        \/ \E i \in Conn, v \in User : Push(i, v)
    BY <1>3 DEF Next, Handler, Client, Http, Connect, Access, GroupAdd, AddUser, StatusOn, NotifyOn,
         FirstMessages, CheckRight, SaveMessage, Broadcast,
         RemoveUser, StatusOff, NotifyOff, GroupDiscard, GetMessages, ScheduleMessage, Disconnect,
         CreateMessage, GroupMessage, Die, JoinGroup, LeaveGroup, AddMembers, UpdatePermissions,
         PostMessage, DeleteGroup, Elsewhere, Crash, Goto, request, vars
  <2>3. \A i \in Conn : ~ReadMembers(i)
    BY <1>3, <2>1 DEF ReadMembers, TypeInv, RoomTypeOK
  <2>4. \A i \in Conn, v \in User : Push(i, v) => i = k /\ v = u
    BY <1>3 DEF Push, LookedAt, TypeInv, RoomTypeOK
  <2>5. Push(k, u)
    BY <1>3, <2>2, <2>3, <2>4
  <2> QED
    BY <1>3, <2>5, Informed
<1>4. IInv /\ [Next]_vars =>
        \A k \in Conn, u \in User :
          u \in todo[k] \ todo'[k] /\ msg[k] \in log \ astray /\ u \notin Muted =>
            \/ <<msg[k], u>> \in pushed'
            \/ u \in touched
            \/ \E j \in Conn : UserOf[j] = u /\
                 (Reached(j, msg[k]) \/ pc[j] \in {"remove", "status_off", "crashed"})
  BY <1>3
<1> QED
  BY <1>1, <1>2, <1>4, PTL DEF Spec, MemberInformed
=============================================================================
