-------------------------- MODULE ChatConsumer_proofs ---------------------------
(* Proofs about ChatConsumer, for any set of users, chats, connections and         *)
(* messages and any capacity of the inboxes.                                      *)
EXTENDS ChatConsumer, TLAPS

---------------------------------------------------------------------------------
(* Facts about events, sequences and the channel layer *)

\* What events are made of.
LEMMA EventFacts ==
  /\ \A m \in Message : NewMessage(m) \in Event /\ KeyOf(NewMessage(m)) = m
  /\ \A us \in SUBSET User : UpdateUsers(us) \in Event
  /\ \A e \in Event : KeyOf(e) \in Message \cup {NoMessage}
  /\ \A e \in Event : e.kind = "chat_message" => e.msg \in Message
  /\ \A e \in Event : e.kind = "update_users" => e.users \in SUBSET User
BY DEF NewMessage, UpdateUsers, KeyOf, Event

\* Appending adds one element.
LEMMA AppendElements ==
  ASSUME NEW S, NEW s \in Seq(S), NEW x \in S
  PROVE  /\ Append(s, x) \in Seq(S)
         /\ Elements(Append(s, x)) = Elements(s) \cup {x}
<1>1. /\ Append(s, x) \in Seq(S)
      /\ Len(s) \in Nat
      /\ DOMAIN s = 1 .. Len(s)
      /\ DOMAIN Append(s, x) = 1 .. Len(s) + 1
  OBVIOUS
<1>2. /\ \A i \in 1 .. Len(s) : Append(s, x)[i] = s[i]
      /\ Append(s, x)[Len(s) + 1] = x
  OBVIOUS
<1>3. \A i \in 1 .. Len(s) + 1 : i \in 1 .. Len(s) \/ i = Len(s) + 1
  BY <1>1
<1>4. 1 .. Len(s) \subseteq 1 .. Len(s) + 1 /\ Len(s) + 1 \in 1 .. Len(s) + 1
  BY <1>1
<1> QED
  BY <1>1, <1>2, <1>3, <1>4 DEF Elements

\* A nonempty sequence is its head and its tail.
LEMMA HeadTailElements ==
  ASSUME NEW S, NEW s \in Seq(S), s # <<>>
  PROVE  /\ Head(s) \in S
         /\ Tail(s) \in Seq(S)
         /\ Elements(s) = {Head(s)} \cup Elements(Tail(s))
<1>1. /\ Head(s) \in S /\ Tail(s) \in Seq(S) /\ Len(s) \in Nat \ {0}
      /\ Head(s) = s[1] /\ Len(Tail(s)) = Len(s) - 1
  OBVIOUS
<1>2. \A i \in 1 .. Len(s) - 1 : Tail(s)[i] = s[i + 1]
  OBVIOUS
<1>3. \A i \in 1 .. Len(s) : i = 1 \/ (i - 1 \in 1 .. Len(s) - 1 /\ s[i] = Tail(s)[i - 1])
  BY <1>1, <1>2
<1>4. DOMAIN s = 1 .. Len(s) /\ DOMAIN Tail(s) = 1 .. Len(s) - 1
  BY <1>1
<1>5. ASSUME NEW x \in Elements(s)
      PROVE  x \in {Head(s)} \cup Elements(Tail(s))
  <2>1. PICK i \in 1 .. Len(s) : x = s[i]
    BY <1>4 DEF Elements
  <2>2. CASE i = 1
    BY <2>1, <2>2, <1>1
  <2>3. CASE i # 1
    BY <2>1, <2>3, <1>3, <1>4 DEF Elements
  <2> QED
    BY <2>2, <2>3
<1>6. ASSUME NEW x \in Elements(Tail(s))
      PROVE  x \in Elements(s)
  <2>1. PICK i \in 1 .. Len(s) - 1 : x = Tail(s)[i]
    BY <1>4 DEF Elements
  <2>2. x = s[i + 1] /\ i + 1 \in 1 .. Len(s)
    BY <2>1, <1>1, <1>2
  <2> QED
    BY <2>2, <1>4 DEF Elements
<1>7. Head(s) \in Elements(s)
  BY <1>1, <1>4 DEF Elements
<1> QED
  BY <1>1, <1>5, <1>6, <1>7

\* A group_send keeps the inboxes well formed.
LEMMA GroupSendType ==
  ASSUME inbox \in [Conn -> Seq(Event)],
         dropped \in [Conn -> SUBSET (Message \cup {NoMessage})],
         NEW c \in Chat, NEW e \in Event, GroupSend(c, e)
  PROVE  /\ inbox' \in [Conn -> Seq(Event)]
         /\ dropped' \in [Conn -> SUBSET (Message \cup {NoMessage})]
<1>1. PICK refused \in SUBSET Full(c) :
        /\ inbox' = [k \in Conn |-> Queued(k, e, c, refused)]
        /\ dropped' = [k \in Conn |-> dropped[k] \cup Lost(k, e, c, refused)]
  BY DEF GroupSend
<1>2. ASSUME NEW k \in Conn, k \in Full(c)
      PROVE  inbox[k] # <<>> /\ Tail(inbox[k]) \in Seq(Event) /\ Head(inbox[k]) \in Event
  <2>1. inbox[k] # <<>>
    BY <1>2, LayerAssumption DEF Full
  <2> QED
    BY <2>1, HeadTailElements
<1>3. \A k \in Conn : Queued(k, e, c, refused) \in Seq(Event)
  BY <1>2, AppendElements DEF Queued
<1>4. \A k \in Conn : Lost(k, e, c, refused) \in SUBSET (Message \cup {NoMessage})
  BY <1>1, <1>2, EventFacts DEF Lost, Full
<1> QED
  BY <1>1, <1>3, <1>4

\* A group_send delivers its event to every member, or the member's full inbox
\* loses something, and what it loses is on record.
LEMMA GroupSendEffect ==
  ASSUME inbox \in [Conn -> Seq(Event)],
         dropped \in [Conn -> SUBSET (Message \cup {NoMessage})],
         NEW c \in Chat, NEW e \in Event, GroupSend(c, e),
         NEW k \in Conn
  PROVE  /\ dropped[k] \subseteq dropped'[k]
         /\ \A x \in Elements(inbox[k]) : x \in Elements(inbox'[k]) \/ KeyOf(x) \in dropped'[k]
         /\ k \in Members(c) => e \in Elements(inbox'[k]) \/ KeyOf(e) \in dropped'[k]
<1>1. PICK refused \in SUBSET Full(c) :
        /\ inbox' = [j \in Conn |-> Queued(j, e, c, refused)]
        /\ dropped' = [j \in Conn |-> dropped[j] \cup Lost(j, e, c, refused)]
  BY DEF GroupSend
<1>2. inbox'[k] = Queued(k, e, c, refused) /\ dropped'[k] = dropped[k] \cup Lost(k, e, c, refused)
  BY <1>1
<1>3. CASE k \notin Members(c)
  BY <1>2, <1>3 DEF Queued
<1>4. CASE k \in refused
  BY <1>2, <1>4 DEF Queued, Lost
<1>5. CASE k \in Full(c) /\ k \notin refused
  <2>1. k \in Members(c) /\ inbox[k] # <<>>
    BY <1>5, LayerAssumption DEF Full
  <2>2. /\ Elements(inbox[k]) = {Head(inbox[k])} \cup Elements(Tail(inbox[k]))
        /\ Tail(inbox[k]) \in Seq(Event)
    BY <2>1, HeadTailElements
  <2>3. Elements(Append(Tail(inbox[k]), e)) = Elements(Tail(inbox[k])) \cup {e}
    <3> DEFINE q == Tail(inbox[k])
    <3>1. q \in Seq(Event)
      BY <2>2
    <3> HIDE DEF q
    <3>2. Elements(Append(q, e)) = Elements(q) \cup {e}
      BY <3>1, AppendElements
    <3> QED
      BY <3>2 DEF q
  <2> QED
    BY <1>2, <1>5, <2>1, <2>2, <2>3 DEF Queued, Lost
<1>6. CASE k \in Members(c) /\ k \notin Full(c) /\ k \notin refused
  <2>1. Elements(Append(inbox[k], e)) = Elements(inbox[k]) \cup {e}
    BY AppendElements
  <2> QED
    BY <1>2, <1>6, <2>1 DEF Queued, Lost
<1> QED
  BY <1>3, <1>4, <1>5, <1>6

---------------------------------------------------------------------------------
(* Type correctness.  It is inductive together with two facts about where a        *)
(* handler stands: past connect's checks and past disconnect's, it runs for a      *)
(* registered user; and create_message has a message in hand once it is under way. *)

Known ==
  \A k \in Conn : pc[k] \in Connecting \cup Serving \cup Leaving => UserOf[k] \in User

Pending ==
  \A k \in Conn : pc[k] \in {"save", "broadcast"} => msg[k] \in Message

TypeInv == TypeOK /\ Known /\ Pending

\* A step of one connection to another place keeps Known when the user is known.
LEMMA GotoKeeps ==
  ASSUME TypeInv, NEW k \in Conn, NEW from, NEW to \in Place, Goto(k, from, to),
         to \in {"save", "broadcast"} => msg'[k] \in Message,
         \A j \in Conn \ {k} : msg'[j] = msg[j],
         to \in Connecting \cup Serving \cup Leaving => UserOf[k] \in User
  PROVE  pc' \in [Conn -> Place] /\ Known' /\ Pending'
<1>1. /\ pc' \in [Conn -> Place] /\ pc'[k] = to
      /\ \A j \in Conn \ {k} : pc'[j] = pc[j]
  BY DEF TypeInv, TypeOK, Goto
<1> QED
  BY <1>1 DEF TypeInv, Known, Pending

LEMMA TypeInit == Init => TypeInv
BY UserAssumption, ConnAssumption, LayerAssumption
   DEF Init, TypeInv, TypeOK, Known, Pending, Place, Connecting, Serving, Leaving, Gone

\* Type correctness of a step that leaves pc where it is.
LEMMA TypeStay ==
  ASSUME TypeInv, TypeOK', pc' = pc, msg' = msg
  PROVE  TypeInv'
BY DEF TypeInv, Known, Pending

LEMMA CrashType ==
  ASSUME TypeInv, NEW k \in Conn, NEW from, Crash(k, from)
  PROVE  TypeInv'
<1>1. pc' \in [Conn -> Place] /\ Known' /\ Pending'
  <2>1. Goto(k, from, "crashed") /\ UNCHANGED msg
    BY DEF Crash, locals
  <2>2. "crashed" \in Place /\ "crashed" \notin Connecting \cup Serving \cup Leaving
    BY DEF Place, Gone, Connecting, Serving, Leaving
  <2> QED
    BY <2>1, <2>2, GotoKeeps
<1>2. inbox' \in [Conn -> Seq(Event)]
  BY DEF Crash, TypeInv, TypeOK
<1> QED
  BY <1>1, <1>2 DEF Crash, TypeInv, TypeOK, db, locals, client, ghosts

LEMMA ConnectType ==
  ASSUME TypeInv, NEW k \in Conn, ConnectRefused(k) \/ ConnectAllowed(k)
  PROVE  TypeInv'
<1>1. pc' \in [Conn -> Place] /\ Known' /\ Pending'
  <2>1. UNCHANGED msg
    BY DEF ConnectRefused, ConnectAllowed, locals
  <2>2. CASE ConnectRefused(k)
    <3>1. Goto(k, "absent", "refused") /\ "refused" \in Place
      BY <2>2 DEF ConnectRefused, Place
    <3> QED
      BY <2>1, <3>1, GotoKeeps DEF Connecting, Serving, Leaving
  <2>3. CASE ConnectAllowed(k)
    <3>1. Goto(k, "absent", "group_add") /\ "group_add" \in Place
      BY <2>3 DEF ConnectAllowed, Place, Connecting
    <3>2. UserOf[k] \in User
      BY <2>3, ConnAssumption DEF ConnectAllowed, Allowed
    <3> QED
      BY <2>1, <3>1, <3>2, GotoKeeps
  <2> QED
    BY <2>2, <2>3
<1> QED
  BY <1>1 DEF ConnectRefused, ConnectAllowed, TypeInv, TypeOK, db, layer, locals, client, ghosts

LEMMA GroupAddType ==
  ASSUME TypeInv, NEW k \in Conn, GroupAdd(k)
  PROVE  TypeInv'
<1>1. pc' \in [Conn -> Place] /\ Known' /\ Pending'
  <2>1. Goto(k, "group_add", "add_user") /\ UNCHANGED msg /\ UserOf[k] \in User
    BY DEF GroupAdd, Goto, locals, TypeInv, Known, Connecting
  <2>2. "add_user" \in Place
    BY DEF Place, Connecting
  <2> QED
    BY <2>1, <2>2, GotoKeeps
<1>2. joined' \subseteq Conn /\ since' \in [Conn -> Nat]
  <2>1. ChatOf[k] \in Chat
    BY ConnAssumption
  <2>2. feed[ChatOf[k]] \in Seq(Message)
    BY <2>1 DEF TypeInv, TypeOK
  <2>3. Len(feed[ChatOf[k]]) \in Nat
    BY <2>2
  <2> QED
    BY <2>3 DEF GroupAdd, TypeInv, TypeOK
<1> QED
  BY <1>1, <1>2 DEF GroupAdd, TypeInv, TypeOK, db, locals, client

LEMMA AddUserType ==
  ASSUME TypeInv, NEW k \in Conn, AddUser(k)
  PROVE  TypeInv'
<1>0. UserOf[k] \in User /\ ChatOf[k] \in Chat
  BY ConnAssumption DEF AddUser, Goto, TypeInv, Known, Connecting
<1>1. pc' \in [Conn -> Place] /\ Known' /\ Pending'
  <2>1. Goto(k, "add_user", "status_on") /\ UNCHANGED msg
    BY DEF AddUser, locals
  <2>2. "status_on" \in Place
    BY DEF Place, Connecting
  <2> QED
    BY <1>0, <2>1, <2>2, GotoKeeps
<1>2. participants' \subseteq User \X Chat
  BY <1>0 DEF AddUser, TypeInv, TypeOK
<1> QED
  BY <1>1, <1>2 DEF AddUser, TypeInv, TypeOK, layer, locals, client, ghosts

LEMMA StatusType ==
  ASSUME TypeInv, NEW k \in Conn, StatusOn(k) \/ StatusOff(k)
  PROVE  TypeInv'
<1>1. pc' \in [Conn -> Place] /\ Known' /\ Pending'
  <2>1. UNCHANGED msg /\ UserOf[k] \in User
    BY DEF StatusOn, StatusOff, Goto, locals, TypeInv, Known, Connecting, Leaving
  <2>2. PICK from \in {"status_on", "status_off"}, to \in {"read_on", "read_off"} :
          Goto(k, from, to)
    BY DEF StatusOn, StatusOff
  <2>3. to \in Place /\ to \notin {"save", "broadcast"}
    BY <2>2 DEF Place, Connecting, Leaving
  <2> QED
    BY <2>1, <2>2, <2>3, GotoKeeps
<1>2. online' \in [User -> BOOLEAN] /\ touched' \subseteq User
  BY DEF StatusOn, StatusOff, TypeInv, TypeOK, ghosts
<1> QED
  BY <1>1, <1>2 DEF StatusOn, StatusOff, TypeInv, TypeOK, layer, locals, client, ghosts

LEMMA ReadUsersType ==
  ASSUME TypeInv, NEW k \in Conn, NEW from, NEW to,
         ReadUsers(k, from, to), <<from, to>> \in {<<"read_on", "send_on">>, <<"read_off", "send_off">>}
  PROVE  TypeInv'
<1>1. pc' \in [Conn -> Place] /\ Known' /\ Pending'
  <2>1. Goto(k, from, to) /\ UNCHANGED msg /\ UserOf[k] \in User
    BY DEF ReadUsers, Goto, TypeInv, Known, Connecting, Leaving
  <2>2. to \in Place /\ to \notin {"save", "broadcast"}
    BY DEF Place, Connecting, Leaving
  <2> QED
    BY <2>1, <2>2, GotoKeeps
<1>2. users' \in [Conn -> SUBSET User]
  BY DEF ReadUsers, CurrentUsers, TypeInv, TypeOK
<1> QED
  BY <1>1, <1>2 DEF ReadUsers, TypeInv, TypeOK, db, layer, client, ghosts

LEMMA SendUsersType ==
  ASSUME TypeInv, NEW k \in Conn, NEW from, NEW to,
         SendUsers(k, from, to),
         <<from, to>> \in {<<"send_on", "get_messages">>, <<"send_off", "discard">>}
  PROVE  TypeInv'
<1>1. pc' \in [Conn -> Place] /\ Known' /\ Pending'
  <2>1. Goto(k, from, to) /\ UNCHANGED msg /\ UserOf[k] \in User
    BY DEF SendUsers, Goto, TypeInv, Known, Connecting, Leaving
  <2>2. to \in Place /\ to \notin {"save", "broadcast"}
    BY DEF Place, Connecting, Leaving
  <2> QED
    BY <2>1, <2>2, GotoKeeps
<1>2. /\ inbox' \in [Conn -> Seq(Event)]
      /\ dropped' \in [Conn -> SUBSET (Message \cup {NoMessage})]
  <2>1. ChatOf[k] \in Chat /\ users[k] \in SUBSET User
    BY ConnAssumption DEF TypeInv, TypeOK
  <2>2. UpdateUsers(users[k]) \in Event
    BY <2>1, EventFacts
  <2>3. GroupSend(ChatOf[k], UpdateUsers(users[k]))
    BY DEF SendUsers
  <2> QED
    BY <2>1, <2>2, <2>3, GroupSendType DEF TypeInv, TypeOK
<1>3. users' \in [Conn -> SUBSET User]
  BY DEF SendUsers, TypeInv, TypeOK
<1> QED
  BY <1>1, <1>2, <1>3 DEF SendUsers, TypeInv, TypeOK, db, client

LEMMA ListingType ==
  ASSUME TypeInv, NEW k \in Conn, FirstMessages(k) \/ \E c \in Chat : GetMessages(k, c)
  PROVE  TypeInv'
<1>1. history' \in [Conn -> SUBSET Message]
  <2>1. \A c \in Chat : [history EXCEPT ![k] = @ \cup log[c]] \in [Conn -> SUBSET Message]
    BY DEF TypeInv, TypeOK
  <2>2. \E c \in Chat : history' = [history EXCEPT ![k] = @ \cup log[c]]
    BY ConnAssumption DEF FirstMessages, GetMessages
  <2> QED
    BY <2>1, <2>2
<1>2. CASE FirstMessages(k)
  <2>1. Goto(k, "get_messages", "ready") /\ UNCHANGED msg /\ UserOf[k] \in User
    BY <1>2 DEF FirstMessages, Goto, locals, TypeInv, Known, Connecting
  <2>2. "ready" \in Place
    BY DEF Place, Serving
  <2>3. pc' \in [Conn -> Place] /\ Known' /\ Pending'
    BY <2>1, <2>2, GotoKeeps
  <2> QED
    BY <1>1, <1>2, <2>3 DEF FirstMessages, TypeInv, TypeOK, db, layer, locals, ghosts
<1>3. CASE \E c \in Chat : GetMessages(k, c)
  <2>1. TypeOK' /\ UNCHANGED <<pc, msg>>
    BY <1>1, <1>3 DEF GetMessages, TypeInv, TypeOK, db, layer, locals, ghosts
  <2> QED
    BY <2>1, TypeStay
<1> QED
  BY <1>2, <1>3

LEMMA CreateMessageType ==
  ASSUME TypeInv, NEW k \in Conn, NEW c \in Chat, CreateMessage(k, c)
  PROVE  TypeInv'
<1>1. PICK m \in Message \ used : msg' = [msg EXCEPT ![k] = m] /\ used' = used \cup {m}
  BY DEF CreateMessage
<1>2. /\ msg' \in [Conn -> Message \cup {NoMessage}] /\ used' \subseteq Message
      /\ msg'[k] \in Message /\ \A j \in Conn \ {k} : msg'[j] = msg[j]
  BY <1>1 DEF TypeInv, TypeOK
<1>3. pc' \in [Conn -> Place] /\ Known' /\ Pending'
  <2>1. Goto(k, "ready", "save") /\ UserOf[k] \in User
    BY DEF CreateMessage, Goto, TypeInv, Known, Serving
  <2>2. "save" \in Place
    BY DEF Place, Serving
  <2> QED
    BY <1>2, <2>1, <2>2, GotoKeeps
<1>4. target' \in [Conn -> Chat]
  BY DEF CreateMessage, TypeInv, TypeOK
<1> QED
  BY <1>2, <1>3, <1>4 DEF CreateMessage, TypeInv, TypeOK, db, layer, client

LEMMA SaveMessageType ==
  ASSUME TypeInv, NEW k \in Conn, SaveMessage(k)
  PROVE  TypeInv'
<1>1. Goto(k, "save", "broadcast") /\ UNCHANGED msg /\ UserOf[k] \in User /\ msg[k] \in Message
  BY DEF SaveMessage, Goto, locals, TypeInv, Known, Pending, Serving
<1>2. "broadcast" \in Place
  BY DEF Place, Serving
<1>3. pc' \in [Conn -> Place] /\ Known' /\ Pending'
  BY <1>1, <1>2, GotoKeeps
<1>4. log' \in [Chat -> SUBSET Message]
  BY <1>1 DEF SaveMessage, TypeInv, TypeOK
<1> QED
  BY <1>3, <1>4 DEF SaveMessage, TypeInv, TypeOK, layer, locals, client, ghosts

LEMMA BroadcastMessageType ==
  ASSUME TypeInv, NEW k \in Conn, BroadcastMessage(k)
  PROVE  TypeInv'
<1>1. Goto(k, "broadcast", "ready") /\ UserOf[k] \in User /\ msg[k] \in Message
  BY DEF BroadcastMessage, Goto, TypeInv, Known, Pending, Serving
<1>2. /\ msg' \in [Conn -> Message \cup {NoMessage}]
      /\ \A j \in Conn \ {k} : msg'[j] = msg[j]
      /\ target' \in [Conn -> Chat]
  BY ConnAssumption DEF BroadcastMessage, TypeInv, TypeOK
<1>3. pc' \in [Conn -> Place] /\ Known' /\ Pending'
  <2>1. "ready" \in Place
    BY DEF Place, Serving
  <2> QED
    BY <1>1, <1>2, <2>1, GotoKeeps
<1>4. /\ inbox' \in [Conn -> Seq(Event)]
      /\ dropped' \in [Conn -> SUBSET (Message \cup {NoMessage})]
  <2>1. target[k] \in Chat /\ NewMessage(msg[k]) \in Event
    BY <1>1, EventFacts DEF TypeInv, TypeOK
  <2>2. GroupSend(target[k], NewMessage(msg[k]))
    BY DEF BroadcastMessage
  <2> QED
    BY <2>1, <2>2, GroupSendType DEF TypeInv, TypeOK
<1>5. feed' \in [Chat -> Seq(Message)]
  <2>1. target[k] \in Chat /\ feed[target[k]] \in Seq(Message)
    BY DEF TypeInv, TypeOK
  <2>2. Append(feed[target[k]], msg[k]) \in Seq(Message)
    BY <1>1, <2>1, AppendElements
  <2> QED
    BY <2>2 DEF BroadcastMessage, TypeInv, TypeOK
<1> QED
  BY <1>2, <1>3, <1>4, <1>5 DEF BroadcastMessage, TypeInv, TypeOK, db, client

LEMMA DeliverType ==
  ASSUME TypeInv, NEW k \in Conn, Deliver(k)
  PROVE  TypeInv'
<1> DEFINE e == Head(inbox[k])
<1>1. inbox[k] \in Seq(Event) /\ inbox[k] # <<>>
  BY DEF Deliver, TypeInv, TypeOK
<1>2. e \in Event /\ Tail(inbox[k]) \in Seq(Event)
  BY <1>1, HeadTailElements
<1>3. inbox' \in [Conn -> Seq(Event)]
  BY <1>2 DEF Deliver, TypeInv, TypeOK
<1>4. seen' \in [Conn -> Seq(Message)] /\ roster' \in [Conn -> SUBSET User]
  <2>1. CASE /\ e.kind = "chat_message"
             /\ seen' = [seen EXCEPT ![k] = Append(@, e.msg)]
             /\ UNCHANGED roster
    <3>1. e.msg \in Message /\ seen[k] \in Seq(Message)
      BY <1>2, <2>1, EventFacts DEF TypeInv, TypeOK
    <3>2. Append(seen[k], e.msg) \in Seq(Message)
      BY <3>1, AppendElements
    <3> QED
      BY <2>1, <3>2 DEF TypeInv, TypeOK
  <2>2. CASE /\ e.kind = "update_users"
             /\ roster' = [roster EXCEPT ![k] = e.users]
             /\ UNCHANGED seen
    BY <1>2, <2>2, EventFacts DEF TypeInv, TypeOK
  <2> QED
    BY <2>1, <2>2 DEF Deliver
<1>5. TypeOK' /\ UNCHANGED <<pc, msg>>
  BY <1>3, <1>4 DEF Deliver, TypeInv, TypeOK, db, locals, ghosts
<1> QED
  BY <1>5, TypeStay

LEMMA LeaveType ==
  ASSUME TypeInv, NEW k \in Conn, Disconnect(k) \/ RemoveUser(k) \/ GroupDiscard(k)
  PROVE  TypeInv'
<1>1. UNCHANGED msg
  BY DEF Disconnect, RemoveUser, GroupDiscard, locals
<1>2. PICK from \in {"ready", "refused", "remove", "discard"},
           to \in {"closed", "remove", "status_off"} : Goto(k, from, to)
  BY DEF Disconnect, RemoveUser, GroupDiscard, Goto
<1>3. to \in Place /\ to \notin {"save", "broadcast"}
  BY <1>2 DEF Place, Gone, Leaving
<1>4. to \in Connecting \cup Serving \cup Leaving => UserOf[k] \in User
  <2>1. CASE Disconnect(k)
    BY <1>2, <2>1, ConnAssumption
       DEF Disconnect, Goto, TypeInv, TypeOK, Connecting, Serving, Leaving
  <2>2. CASE RemoveUser(k) \/ GroupDiscard(k)
    BY <2>2 DEF RemoveUser, GroupDiscard, Goto, TypeInv, Known, Leaving
  <2> QED
    BY <2>1, <2>2
<1>5. pc' \in [Conn -> Place] /\ Known' /\ Pending'
  BY <1>1, <1>2, <1>3, <1>4, GotoKeeps
<1>6. /\ participants' \subseteq User \X Chat
      /\ joined' \subseteq Conn
      /\ inbox' \in [Conn -> Seq(Event)]
  <2>1. [inbox EXCEPT ![k] = <<>>] \in [Conn -> Seq(Event)]
    BY DEF TypeInv, TypeOK
  <2>2. CASE Disconnect(k) \/ RemoveUser(k)
    BY <2>2 DEF Disconnect, RemoveUser, TypeInv, TypeOK, db, layer
  <2>3. CASE GroupDiscard(k)
    BY <2>1, <2>3 DEF GroupDiscard, TypeInv, TypeOK, db
  <2> QED
    BY <2>2, <2>3
<1> QED
  BY <1>5, <1>6 DEF Disconnect, RemoveUser, GroupDiscard, TypeInv, TypeOK, db, layer, locals, client, ghosts

LEMMA EnvironmentType ==
  ASSUME TypeInv, Environment
  PROVE  TypeInv'
<1>1. CASE \E c \in Chat : DeleteChat(c) \/ PostMessage(c)
  <2> PICK c \in Chat : DeleteChat(c) \/ PostMessage(c)
    BY <1>1
  <2>1. ASSUME DeleteChat(c) PROVE TypeOK' /\ UNCHANGED <<pc, msg>>
    <3>1. /\ chats' \subseteq Chat /\ participants' \subseteq User \X Chat
          /\ log' \in [Chat -> SUBSET Message]
      BY <2>1 DEF DeleteChat, TypeInv, TypeOK
    <3> QED
      BY <2>1, <3>1 DEF DeleteChat, TypeInv, TypeOK, layer, locals, client, ghosts
  <2>2. ASSUME PostMessage(c) PROVE TypeOK' /\ UNCHANGED <<pc, msg>>
    BY <2>2 DEF PostMessage, TypeInv, TypeOK, layer, locals, client
  <2> QED
    BY <2>1, <2>2, TypeStay
<1>2. CASE \E u \in HttpUser : HttpRequest(u)
  <2>1. TypeOK' /\ UNCHANGED <<pc, msg>>
    BY <1>2, UserAssumption DEF HttpRequest, TypeInv, TypeOK, layer, locals, client, ghosts
  <2> QED
    BY <2>1, TypeStay
<1>3. CASE Restart
  <2>1. /\ pc' \in [Conn -> Place]
        /\ \A k \in Conn : pc'[k] \in Gone \cup {"absent"}
        /\ UNCHANGED msg
    BY <1>3 DEF Restart, TypeInv, TypeOK, Place, Gone, locals
  <2>2. Known' /\ Pending'
    BY <2>1 DEF Known, Pending, Connecting, Serving, Leaving, Gone
  <2>3. inbox' \in [Conn -> Seq(Event)]
    BY <1>3 DEF Restart
  <2> QED
    BY <1>3, <2>1, <2>2, <2>3 DEF Restart, TypeInv, TypeOK, db, locals, client, ghosts
<1> QED
  BY <1>1, <1>2, <1>3 DEF Environment

LEMMA TypeStep == TypeInv /\ [Next]_vars => TypeInv'
<1> SUFFICES ASSUME TypeInv, [Next]_vars PROVE TypeInv'
  OBVIOUS
<1>1. CASE \E k \in Conn : Handler(k)
  <2>1. PICK k \in Conn : Handler(k)
    BY <1>1
  <2> QED
    BY <2>1, GroupAddType, AddUserType, CrashType, StatusType, ReadUsersType, SendUsersType,
       ListingType, SaveMessageType, BroadcastMessageType, LeaveType
       DEF Handler, AddUserFails, SaveMessageFails
<1>2. CASE \E k \in Conn : Deliver(k)
  BY <1>2, DeliverType
<1>3. CASE \E k \in Conn : Request(k)
  BY <1>3, ConnectType, ListingType, CreateMessageType, CrashType, LeaveType
     DEF Request, RequestFails
<1>4. CASE Environment
  BY <1>4, EnvironmentType
<1>5. CASE UNCHANGED vars
  BY <1>5 DEF vars, db, layer, locals, client, ghosts, TypeInv, TypeOK, Known, Pending
<1> QED
  BY <1>1, <1>2, <1>3, <1>4, <1>5 DEF Next

\* Every variable keeps its type, and handlers keep their user and message.
THEOREM TypeCorrect == Spec => []TypeOK
<1>1. Spec => []TypeInv
  BY TypeInit, TypeStep, PTL DEF Spec
<1>2. TypeInv => TypeOK
  BY DEF TypeInv
<1> QED
  BY <1>1, <1>2, PTL

---------------------------------------------------------------------------------
(* Presence.  Both invariants say that a mark in the database has a connection to  *)
(* answer for it.  A connection that moves keeps answering unless its step is the  *)
(* one that takes the mark away.                                                  *)

LEMMA GotoKeepsSet ==
  ASSUME TypeInv, NEW E, NEW k \in Conn, NEW from, NEW to, Goto(k, from, to),
         from \in E => to \in E
  PROVE  \A j \in Conn : pc[j] \in E => pc'[j] \in E
BY DEF Goto, TypeInv, TypeOK

Answering == Enrolled \cup {"crashed"}

\* Only remove_user_from_chat ends a connection's answering for its row.
LEMMA AnsweringKept ==
  ASSUME TypeInv, Next, ~ \E k \in Conn : RemoveUser(k)
  PROVE  \A j \in Conn : pc[j] \in Answering => pc'[j] \in Answering
<1>1. ASSUME NEW k \in Conn, Handler(k) \/ Deliver(k) \/ Request(k)
      PROVE  \A j \in Conn : pc[j] \in Answering => pc'[j] \in Answering
  <2>1. \/ UNCHANGED pc
        \/ \E from, to \in Place : Goto(k, from, to) /\ (from \in Answering => to \in Answering)
    <3>1. CASE Handler(k)
      BY <3>1 DEF Handler, GroupAdd, AddUser, AddUserFails, StatusOn, ReadUsers, SendUsers,
         FirstMessages, SaveMessage, SaveMessageFails, BroadcastMessage, StatusOff, GroupDiscard,
         Crash, Answering, Enrolled, Place, Connecting, Serving, Leaving, Gone
    <3>2. CASE Deliver(k)
      BY <3>2 DEF Deliver
    <3>3. CASE Request(k) /\ ~Disconnect(k)
      BY <3>3 DEF Request, ConnectRefused, ConnectAllowed, GetMessages, CreateMessage,
         RequestFails, Crash, Answering, Enrolled, Place, Connecting, Serving, Leaving, Gone
    <3>4. CASE Disconnect(k)
      <4>1. pc[k] = "ready" => UserOf[k] # Anonymous
        BY UserAssumption DEF TypeInv, Known, Serving
      <4>2. \/ Goto(k, "ready", "remove")
            \/ Goto(k, "refused", "remove")
            \/ Goto(k, "refused", "closed")
        BY <3>4, <4>1 DEF Disconnect, Goto
      <4> QED
        BY <4>2 DEF Answering, Enrolled, Place, Leaving, Gone, Serving
    <3> QED
      BY <1>1, <3>1, <3>2, <3>3, <3>4
  <2> QED
    BY <2>1, GotoKeepsSet
<1>2. ASSUME Environment
      PROVE  \A j \in Conn : pc[j] \in Answering => pc'[j] \in Answering
  BY <1>2 DEF Environment, DeleteChat, PostMessage, HttpRequest, Restart, Answering, TypeInv, TypeOK
<1> QED
  BY <1>1, <1>2 DEF Next

\* A row of ChatParticipant appears in add_user_to_chat only.
LEMMA RowsAppear ==
  ASSUME Next, NEW p \in participants', p \notin participants
  PROVE  \E k \in Conn : AddUser(k) /\ p = <<UserOf[k], ChatOf[k]>>
<1>1. CASE \E k \in Conn : Handler(k)
  BY <1>1 DEF Handler, GroupAdd, AddUser, AddUserFails, StatusOn, ReadUsers, SendUsers,
     FirstMessages, SaveMessage, SaveMessageFails, BroadcastMessage, RemoveUser, StatusOff,
     GroupDiscard, Crash, db
<1>2. CASE \E k \in Conn : Deliver(k) \/ Request(k)
  BY <1>2 DEF Deliver, Request, ConnectRefused, ConnectAllowed, GetMessages, CreateMessage,
     RequestFails, Disconnect, Crash, db
<1>3. CASE Environment
  BY <1>3 DEF Environment, DeleteChat, PostMessage, HttpRequest, Restart, db
<1> QED
  BY <1>1, <1>2, <1>3 DEF Next

LEMMA GhostParticipantStep ==
  ASSUME TypeInv, NoGhostParticipant, [Next]_vars
  PROVE  NoGhostParticipant'
<1> SUFFICES ASSUME NEW p \in participants'
             PROVE  \E k \in Conn : /\ UserOf[k] = p[1] /\ ChatOf[k] = p[2]
                                    /\ pc'[k] \in Answering
  BY DEF NoGhostParticipant, Answering
<1>1. CASE UNCHANGED vars
  BY <1>1 DEF vars, db, NoGhostParticipant, Answering
<1>2. CASE Next /\ p \notin participants
  <2>1. PICK k \in Conn : AddUser(k) /\ p = <<UserOf[k], ChatOf[k]>>
    BY <1>2, RowsAppear
  <2>2. pc'[k] = "status_on"
    BY <2>1 DEF AddUser, Goto, TypeInv, TypeOK
  <2> QED
    BY <2>1, <2>2 DEF Answering, Enrolled
<1>3. CASE Next /\ p \in participants
  <2>1. PICK k \in Conn : UserOf[k] = p[1] /\ ChatOf[k] = p[2] /\ pc[k] \in Answering
    BY <1>3 DEF NoGhostParticipant, Answering
  <2>2. CASE ~ \E j \in Conn : RemoveUser(j)
    BY <1>3, <2>1, <2>2, AnsweringKept
  <2>3. ASSUME NEW j \in Conn, RemoveUser(j)
        PROVE  pc'[k] \in Answering
    <3>1. p # <<UserOf[j], ChatOf[j]>>
      BY <2>3 DEF RemoveUser
    <3>2. p = <<p[1], p[2]>>
      BY <1>3 DEF TypeInv, TypeOK
    <3>3. k # j
      BY <2>1, <3>1, <3>2
    <3>4. pc'[k] = pc[k]
      BY <2>3, <3>3 DEF RemoveUser, Goto, TypeInv, TypeOK
    <3> QED
      BY <2>1, <3>4
  <2> QED
    BY <2>1, <2>2, <2>3
<1> QED
  BY <1>1, <1>2, <1>3

\* Every row of ChatParticipant has a connection to answer for it
\* (add_user_to_chat and remove_user_from_chat, consumers.py:111-119).
THEOREM ParticipantsAnswered == Spec => []NoGhostParticipant
<1>1. Init => NoGhostParticipant
  BY DEF Init, NoGhostParticipant
<1>2. TypeInv /\ NoGhostParticipant /\ [Next]_vars => NoGhostParticipant'
  BY GhostParticipantStep
<1> QED
  BY <1>1, <1>2, TypeInit, TypeStep, PTL DEF Spec

Online == Active \cup {"crashed"}

\* Only update_user_status(False) ends a connection's answering for is_online.
LEMMA OnlineKept ==
  ASSUME TypeInv, Next, ~ \E k \in Conn : StatusOff(k)
  PROVE  \A j \in Conn : pc[j] \in Online => pc'[j] \in Online
<1>1. ASSUME NEW k \in Conn, Handler(k) \/ Deliver(k) \/ Request(k)
      PROVE  \A j \in Conn : pc[j] \in Online => pc'[j] \in Online
  <2>1. \/ UNCHANGED pc
        \/ \E from, to \in Place : Goto(k, from, to) /\ (from \in Online => to \in Online)
    <3>1. CASE Handler(k)
      BY <3>1 DEF Handler, GroupAdd, AddUser, AddUserFails, StatusOn, ReadUsers, SendUsers,
         FirstMessages, SaveMessage, SaveMessageFails, BroadcastMessage, RemoveUser, GroupDiscard,
         Crash, Online, Active, Place, Connecting, Serving, Leaving, Gone
    <3>2. CASE Deliver(k)
      BY <3>2 DEF Deliver
    <3>3. CASE Request(k) /\ ~Disconnect(k)
      BY <3>3 DEF Request, ConnectRefused, ConnectAllowed, GetMessages, CreateMessage,
         RequestFails, Crash, Online, Active, Place, Connecting, Serving, Leaving, Gone
    <3>4. CASE Disconnect(k)
      <4>1. pc[k] = "ready" => UserOf[k] # Anonymous
        BY UserAssumption DEF TypeInv, Known, Serving
      <4>2. \/ Goto(k, "ready", "remove")
            \/ Goto(k, "refused", "remove")
            \/ Goto(k, "refused", "closed")
        BY <3>4, <4>1 DEF Disconnect, Goto
      <4> QED
        BY <4>2 DEF Online, Active, Place, Leaving, Gone, Serving
    <3> QED
      BY <1>1, <3>1, <3>2, <3>3, <3>4
  <2> QED
    BY <2>1, GotoKeepsSet
<1>2. ASSUME Environment
      PROVE  \A j \in Conn : pc[j] \in Online => pc'[j] \in Online
  BY <1>2 DEF Environment, DeleteChat, PostMessage, HttpRequest, Restart, Online, TypeInv, TypeOK
<1> QED
  BY <1>1, <1>2 DEF Next

\* A user becomes online, with no HTTP request to account for it, in
\* update_user_status(True) only.
LEMMA OnlineAppears ==
  ASSUME TypeInv, Next, NEW u \in User,
         online'[u], u \notin touched', ~(online[u] /\ u \notin touched)
  PROVE  \E k \in Conn : StatusOn(k) /\ UserOf[k] = u
<1>1. CASE \E k \in Conn : StatusOn(k)
  <2>1. PICK k \in Conn : StatusOn(k)
    BY <1>1
  <2>2. touched' = touched
    BY <2>1 DEF StatusOn, ghosts
  <2>3. UserOf[k] # u => online'[u] = online[u]
    BY <2>1 DEF StatusOn, TypeInv, TypeOK
  <2> QED
    BY <2>1, <2>2, <2>3
<1>2. CASE \E k \in Conn : StatusOff(k)
  <2>1. PICK k \in Conn : StatusOff(k)
    BY <1>2
  <2>2. UserOf[k] = u => ~online'[u]
    BY <2>1 DEF StatusOff, TypeInv, TypeOK
  <2>3. UserOf[k] # u => online'[u] = online[u] /\ (u \in touched <=> u \in touched')
    BY <2>1 DEF StatusOff, TypeInv, TypeOK
  <2> QED
    BY <2>2, <2>3
<1>3. CASE \E v \in HttpUser : HttpRequest(v)
  <2>1. PICK v \in HttpUser : HttpRequest(v)
    BY <1>3
  <2>2. u # v /\ touched \subseteq touched'
    BY <2>1 DEF HttpRequest
  <2>3. online'[u] = online[u]
    BY <2>1, <2>2 DEF HttpRequest, TypeInv, TypeOK
  <2> QED
    BY <2>2, <2>3
<1>4. CASE UNCHANGED <<online, touched>>
  BY <1>4
<1>5. \/ \E k \in Conn : StatusOn(k) \/ StatusOff(k)
      \/ \E v \in HttpUser : HttpRequest(v)
      \/ UNCHANGED <<online, touched>>
  <2>1. CASE \E k \in Conn : Handler(k)
    BY <2>1 DEF Handler, GroupAdd, AddUser, AddUserFails, ReadUsers, SendUsers, FirstMessages,
       SaveMessage, SaveMessageFails, BroadcastMessage, RemoveUser, GroupDiscard, Crash, db, ghosts
  <2>2. CASE \E k \in Conn : Deliver(k) \/ Request(k)
    BY <2>2 DEF Deliver, Request, ConnectRefused, ConnectAllowed, GetMessages, CreateMessage,
       RequestFails, Disconnect, Crash, db, ghosts
  <2>3. CASE Environment
    BY <2>3 DEF Environment, DeleteChat, PostMessage, Restart, db, ghosts
  <2> QED
    BY <2>1, <2>2, <2>3 DEF Next
<1> QED
  BY <1>1, <1>2, <1>3, <1>4, <1>5

LEMMA GhostOnlineStep ==
  ASSUME TypeInv, NoGhostOnline, [Next]_vars
  PROVE  NoGhostOnline'
<1> SUFFICES ASSUME NEW u \in User, online'[u], u \notin touched'
             PROVE  \E k \in Conn : UserOf[k] = u /\ pc'[k] \in Online
  BY DEF NoGhostOnline, Online
<1>1. CASE UNCHANGED vars
  BY <1>1 DEF vars, db, ghosts, NoGhostOnline, Online
<1>2. CASE Next /\ ~(online[u] /\ u \notin touched)
  <2>1. PICK k \in Conn : StatusOn(k) /\ UserOf[k] = u
    BY <1>2, OnlineAppears
  <2>2. pc'[k] = "read_on"
    BY <2>1 DEF StatusOn, Goto, TypeInv, TypeOK
  <2> QED
    BY <2>1, <2>2 DEF Online, Active
<1>3. CASE Next /\ online[u] /\ u \notin touched
  <2>1. PICK k \in Conn : UserOf[k] = u /\ pc[k] \in Online
    BY <1>3 DEF NoGhostOnline, Online
  <2>2. CASE ~ \E j \in Conn : StatusOff(j)
    BY <1>3, <2>1, <2>2, OnlineKept
  <2>3. ASSUME NEW j \in Conn, StatusOff(j)
        PROVE  pc'[k] \in Online
    <3>1. UserOf[j] # u
      BY <2>3 DEF StatusOff, TypeInv, TypeOK
    <3>2. pc'[k] = pc[k]
      BY <2>1, <2>3, <3>1 DEF StatusOff, Goto, TypeInv, TypeOK
    <3> QED
      BY <2>1, <3>2
  <2> QED
    BY <2>1, <2>2, <2>3
<1> QED
  BY <1>1, <1>2, <1>3

\* A user shown online has a connection to answer for it, unless an HTTP request
\* set the mark (update_user_status, consumers.py:127-131).
THEOREM OnlineAnswered == Spec => []NoGhostOnline
<1>1. Init => NoGhostOnline
  BY DEF Init, NoGhostOnline
<1>2. TypeInv /\ NoGhostOnline /\ [Next]_vars => NoGhostOnline'
  BY GhostOnlineStep
<1> QED
  BY <1>1, <1>2, TypeInit, TypeStep, PTL DEF Spec

---------------------------------------------------------------------------------
(* Nobody misses a message.  The strengthening: a connection is in its group from   *)
(* group_add on, as long as it is connecting or served.                           *)

Listening == {"add_user", "status_on", "read_on", "send_on", "get_messages"} \cup Serving

Subscribed == \A k \in Conn : pc[k] \in Listening => k \in joined

LEMMA SubscribedStep ==
  ASSUME TypeInv, Subscribed, [Next]_vars
  PROVE  Subscribed'
<1>1. CASE \E k \in Conn : GroupAdd(k)
  BY <1>1 DEF GroupAdd, Goto, TypeInv, TypeOK, Subscribed
<1>2. CASE \E k \in Conn : GroupDiscard(k)
  BY <1>2 DEF GroupDiscard, Goto, TypeInv, TypeOK, Subscribed, Listening, Serving
<1>3. CASE joined' = joined /\ \A j \in Conn : pc'[j] \in Listening => pc[j] \in Listening
  BY <1>3 DEF Subscribed
<1>4. ASSUME NEW k \in Conn, Handler(k), ~GroupAdd(k), ~GroupDiscard(k)
      PROVE  joined' = joined /\ \A j \in Conn : pc'[j] \in Listening => pc[j] \in Listening
  <2>1. joined' = joined
    BY <1>4 DEF Handler, AddUser, AddUserFails, StatusOn, ReadUsers, SendUsers, FirstMessages,
       SaveMessage, SaveMessageFails, BroadcastMessage, RemoveUser, StatusOff, Crash, layer
  <2>2. PICK from, to \in Place : Goto(k, from, to) /\ (to \in Listening => from \in Listening)
    BY <1>4 DEF Handler, AddUser, AddUserFails, StatusOn, ReadUsers, SendUsers, FirstMessages,
       SaveMessage, SaveMessageFails, BroadcastMessage, RemoveUser, StatusOff, Crash,
       Listening, Place, Connecting, Serving, Leaving, Gone
  <2> QED
    BY <2>1, <2>2 DEF Goto, TypeInv, TypeOK
<1>5. ASSUME NEW k \in Conn, Deliver(k) \/ Request(k)
      PROVE  joined' = joined /\ \A j \in Conn : pc'[j] \in Listening => pc[j] \in Listening
  BY <1>5 DEF Deliver, Request, ConnectRefused, ConnectAllowed, GetMessages, CreateMessage,
     RequestFails, Disconnect, Crash, Goto, layer, TypeInv, TypeOK, Listening, Serving
<1>6. ASSUME Environment
      PROVE  joined' = joined /\ \A j \in Conn : pc'[j] \in Listening => pc[j] \in Listening
  BY <1>6 DEF Environment, DeleteChat, PostMessage, HttpRequest, Restart, layer, TypeInv, TypeOK,
     Listening, Serving, Gone
<1>7. CASE UNCHANGED vars
  BY <1>7 DEF vars, layer, Subscribed
<1> QED
  BY <1>1, <1>2, <1>3, <1>4, <1>5, <1>6, <1>7 DEF Next

\* Steps that add nothing to the log, serve nobody new and finish no broadcast:
\* it is enough that what accounted for a message still does.
LEMMA AccountKept ==
  ASSUME TypeInv, NoMessageMissed, NEW k \in Conn, pc[k] \in Serving,
         NEW m \in log[ChatOf[k]],
         history[k] \subseteq history'[k],
         Elements(seen[k]) \subseteq Elements(seen'[k]),
         dropped[k] \subseteq dropped'[k],
         viaApi \subseteq viaApi',
         NewMessage(m) \in Elements(inbox[k]) =>
           NewMessage(m) \in Elements(inbox'[k]) \/ m \in Elements(seen'[k]) \cup dropped'[k],
         \A a \in Conn : pc[a] = "broadcast" /\ msg[a] = m /\ target[a] = ChatOf[k] =>
           pc'[a] = "broadcast" /\ msg'[a] = m /\ target'[a] = ChatOf[k]
  PROVE  Accounted(k, m)'
<1>1. Accounted(k, m)
  BY DEF NoMessageMissed
<1> QED
  BY <1>1 DEF Accounted

\* Steps of connect and disconnect, requests, and the environment.
QuietStep ==
  \/ \E k \in Conn :
       \/ GroupAdd(k) \/ AddUser(k) \/ AddUserFails(k) \/ StatusOn(k)
       \/ ReadUsers(k, "read_on", "send_on") \/ ReadUsers(k, "read_off", "send_off")
       \/ SaveMessageFails(k) \/ RemoveUser(k) \/ StatusOff(k) \/ GroupDiscard(k)
       \/ Request(k)
  \/ \E c \in Chat : DeleteChat(c)
  \/ \E u \in HttpUser : HttpRequest(u)

LEMMA QuietStepAccounts ==
  ASSUME TypeInv, NoMessageMissed, QuietStep
  PROVE  NoMessageMissed'
<1> SUFFICES ASSUME NEW k \in Conn, pc'[k] \in Serving, NEW m \in log'[ChatOf[k]]
             PROVE  Accounted(k, m)'
  BY DEF NoMessageMissed
<1>0. ChatOf[k] \in Chat
  BY ConnAssumption
<1>1. /\ log'[ChatOf[k]] \subseteq log[ChatOf[k]]
      /\ history[k] \subseteq history'[k]
      /\ UNCHANGED <<seen, dropped, viaApi>>
  <2>1. UNCHANGED log \/ \E c \in Chat : DeleteChat(c)
    BY DEF QuietStep, GroupAdd, AddUser, AddUserFails, StatusOn, ReadUsers, SaveMessageFails,
       RemoveUser, StatusOff, GroupDiscard, Request, ConnectRefused, ConnectAllowed, GetMessages,
       CreateMessage, RequestFails, Disconnect, Crash, DeleteChat, HttpRequest, db
  <2>2. log'[ChatOf[k]] \subseteq log[ChatOf[k]]
    BY <1>0, <2>1 DEF DeleteChat, TypeInv, TypeOK
  <2>3. UNCHANGED history \/ \E j \in Conn, c \in Chat : GetMessages(j, c)
    BY DEF QuietStep, GroupAdd, AddUser, AddUserFails, StatusOn, ReadUsers, SaveMessageFails,
       RemoveUser, StatusOff, GroupDiscard, Request, ConnectRefused, ConnectAllowed, GetMessages,
       CreateMessage, RequestFails, Disconnect, Crash, DeleteChat, HttpRequest, client
  <2>4. history[k] \subseteq history'[k]
    BY <2>3 DEF GetMessages, TypeInv, TypeOK
  <2>5. UNCHANGED seen
    BY DEF QuietStep, GroupAdd, AddUser, AddUserFails, StatusOn, ReadUsers, SaveMessageFails,
       RemoveUser, StatusOff, GroupDiscard, Request, ConnectRefused, ConnectAllowed, GetMessages,
       CreateMessage, RequestFails, Disconnect, Crash, DeleteChat, HttpRequest, client
  <2>6. UNCHANGED <<dropped, viaApi>>
    BY DEF QuietStep, GroupAdd, AddUser, AddUserFails, StatusOn, ReadUsers, SaveMessageFails,
       RemoveUser, StatusOff, GroupDiscard, Request, ConnectRefused, ConnectAllowed, GetMessages,
       CreateMessage, RequestFails, Disconnect, Crash, DeleteChat, HttpRequest, ghosts
  <2> QED
    BY <2>2, <2>4, <2>5, <2>6
<1>2. /\ pc[k] \in Serving
      /\ inbox'[k] = inbox[k]
  BY DEF QuietStep, GroupAdd, AddUser, AddUserFails, StatusOn, ReadUsers, SaveMessageFails,
     RemoveUser, StatusOff, GroupDiscard, Request, ConnectRefused, ConnectAllowed, GetMessages,
     CreateMessage, RequestFails, Disconnect, Crash, DeleteChat, HttpRequest, Goto,
     layer, TypeInv, TypeOK, Serving
<1>3. \A a \in Conn : pc[a] = "broadcast" =>
        pc'[a] = "broadcast" /\ msg'[a] = msg[a] /\ target'[a] = target[a]
  BY DEF QuietStep, GroupAdd, AddUser, AddUserFails, StatusOn, ReadUsers, SaveMessageFails,
     RemoveUser, StatusOff, GroupDiscard, Request, ConnectRefused, ConnectAllowed, GetMessages,
     CreateMessage, RequestFails, Disconnect, Crash, DeleteChat, HttpRequest, Goto,
     locals, TypeInv, TypeOK
<1> QED
  BY <1>1, <1>2, <1>3, AccountKept

\* The notify_users broadcasts: they may push messages out of full inboxes.
LEMMA SendUsersAccounts ==
  ASSUME TypeInv, NoMessageMissed, NEW j \in Conn,
         SendUsers(j, "send_on", "get_messages") \/ SendUsers(j, "send_off", "discard")
  PROVE  NoMessageMissed'
<1> SUFFICES ASSUME NEW k \in Conn, pc'[k] \in Serving, NEW m \in log'[ChatOf[k]]
             PROVE  Accounted(k, m)'
  BY DEF NoMessageMissed
<1>1. /\ UNCHANGED <<log, history, seen, viaApi, msg, target>>
      /\ pc[k] \in Serving
      /\ \A a \in Conn : pc[a] = "broadcast" => pc'[a] = "broadcast"
      /\ GroupSend(ChatOf[j], UpdateUsers(users[j]))
  BY DEF SendUsers, Goto, Serving, db, client, TypeInv, TypeOK
<1>2. ChatOf[j] \in Chat /\ UpdateUsers(users[j]) \in Event
  <2>1. ChatOf[j] \in Chat /\ users[j] \in SUBSET User
    BY ConnAssumption DEF TypeInv, TypeOK
  <2> QED
    BY <2>1, EventFacts
<1>3. /\ dropped[k] \subseteq dropped'[k]
      /\ \A x \in Elements(inbox[k]) : x \in Elements(inbox'[k]) \/ KeyOf(x) \in dropped'[k]
  BY <1>1, <1>2, GroupSendEffect DEF TypeInv, TypeOK
<1>4. m \in Message /\ KeyOf(NewMessage(m)) = m
  <2>1. ChatOf[k] \in Chat
    BY ConnAssumption
  <2>2. m \in Message
    BY <1>1, <2>1 DEF TypeInv, TypeOK
  <2> QED
    BY <2>2, EventFacts
<1> QED
  BY <1>1, <1>3, <1>4, AccountKept

\* Whoever finishes connect has just been listed the whole log.
LEMMA FirstMessagesAccounts ==
  ASSUME TypeInv, NoMessageMissed, NEW j \in Conn, FirstMessages(j)
  PROVE  NoMessageMissed'
<1> SUFFICES ASSUME NEW k \in Conn, pc'[k] \in Serving, NEW m \in log'[ChatOf[k]]
             PROVE  Accounted(k, m)'
  BY DEF NoMessageMissed
<1>1. CASE k = j
  BY <1>1 DEF FirstMessages, Accounted, db, TypeInv, TypeOK
<1>2. CASE k # j
  <2>1. /\ UNCHANGED <<log, seen, viaApi, dropped, inbox, msg, target>>
        /\ pc[k] \in Serving /\ history'[k] = history[k]
        /\ \A a \in Conn : pc[a] = "broadcast" => pc'[a] = "broadcast"
    BY <1>2 DEF FirstMessages, Goto, db, layer, locals, ghosts, TypeInv, TypeOK
  <2> QED
    BY <2>1, AccountKept
<1> QED
  BY <1>1, <1>2

\* A stored message is its author's to broadcast.
LEMMA SaveMessageAccounts ==
  ASSUME TypeInv, NoMessageMissed, NEW j \in Conn, SaveMessage(j)
  PROVE  NoMessageMissed'
<1> SUFFICES ASSUME NEW k \in Conn, pc'[k] \in Serving, NEW m \in log'[ChatOf[k]]
             PROVE  Accounted(k, m)'
  BY DEF NoMessageMissed
<1>1. CASE m = msg[j] /\ ChatOf[k] = target[j]
  <2>1. pc'[j] = "broadcast" /\ UNCHANGED <<msg, target>>
    BY DEF SaveMessage, Goto, locals, TypeInv, TypeOK
  <2> QED
    BY <1>1, <2>1 DEF Accounted
<1>2. CASE ~(m = msg[j] /\ ChatOf[k] = target[j])
  <2>0. ChatOf[k] \in Chat
    BY ConnAssumption
  <2>1. m \in log[ChatOf[k]]
    BY <1>2, <2>0 DEF SaveMessage, TypeInv, TypeOK
  <2>2. /\ UNCHANGED <<history, seen, viaApi, dropped, inbox, msg, target>>
        /\ pc[k] \in Serving
        /\ \A a \in Conn : pc[a] = "broadcast" => pc'[a] = "broadcast"
    BY DEF SaveMessage, Goto, client, layer, locals, ghosts, Serving, TypeInv, TypeOK
  <2> QED
    BY <2>1, <2>2, AccountKept
<1> QED
  BY <1>1, <1>2

\* The broadcast hands the message over to the inbox of everybody being served.
LEMMA BroadcastAccounts ==
  ASSUME TypeInv, Subscribed, NoMessageMissed, NEW j \in Conn, BroadcastMessage(j)
  PROVE  NoMessageMissed'
<1> SUFFICES ASSUME NEW k \in Conn, pc'[k] \in Serving, NEW m \in log'[ChatOf[k]]
             PROVE  Accounted(k, m)'
  BY DEF NoMessageMissed
<1>1. /\ UNCHANGED <<log, history, seen, viaApi>>
      /\ pc[k] \in Serving
      /\ \A a \in Conn \ {j} : UNCHANGED <<pc[a], msg[a], target[a]>>
      /\ pc[j] = "broadcast"
      /\ GroupSend(target[j], NewMessage(msg[j]))
  BY DEF BroadcastMessage, Goto, Serving, db, client, TypeInv, TypeOK
<1>2. target[j] \in Chat /\ msg[j] \in Message /\ NewMessage(msg[j]) \in Event
  <2>1. target[j] \in Chat /\ msg[j] \in Message
    BY <1>1 DEF TypeInv, TypeOK, Pending
  <2> QED
    BY <2>1, EventFacts
<1>3. /\ dropped[k] \subseteq dropped'[k]
      /\ \A x \in Elements(inbox[k]) : x \in Elements(inbox'[k]) \/ KeyOf(x) \in dropped'[k]
      /\ k \in Members(target[j]) =>
           \/ NewMessage(msg[j]) \in Elements(inbox'[k])
           \/ KeyOf(NewMessage(msg[j])) \in dropped'[k]
  BY <1>1, <1>2, GroupSendEffect DEF TypeInv, TypeOK
<1>4. m \in Message /\ KeyOf(NewMessage(m)) = m
  <2>1. ChatOf[k] \in Chat
    BY ConnAssumption
  <2>2. m \in Message
    BY <1>1, <2>1 DEF TypeInv, TypeOK
  <2> QED
    BY <2>2, EventFacts
<1>5. CASE m = msg[j] /\ target[j] = ChatOf[k]
  <2>1. k \in Members(target[j])
    BY <1>1, <1>5 DEF Members, Subscribed, Listening, Serving, Gone
  <2> QED
    BY <1>3, <1>4, <1>5, <2>1 DEF Accounted
<1>6. CASE ~(m = msg[j] /\ target[j] = ChatOf[k])
  BY <1>1, <1>3, <1>4, <1>6, AccountKept
<1> QED
  BY <1>5, <1>6

\* What leaves the inbox at its head has been pushed to the client.
LEMMA DeliverAccounts ==
  ASSUME TypeInv, NoMessageMissed, NEW j \in Conn, Deliver(j)
  PROVE  NoMessageMissed'
<1> SUFFICES ASSUME NEW k \in Conn, pc'[k] \in Serving, NEW m \in log'[ChatOf[k]]
             PROVE  Accounted(k, m)'
  BY DEF NoMessageMissed
<1>1. UNCHANGED <<log, history, viaApi, dropped, pc, msg, target>>
  BY DEF Deliver, db, locals, ghosts
<1>2. m \in Message
  <2>1. ChatOf[k] \in Chat
    BY ConnAssumption
  <2> QED
    BY <1>1, <2>1 DEF TypeInv, TypeOK
<1>3. CASE k # j
  <2>1. inbox'[k] = inbox[k] /\ seen'[k] = seen[k]
    BY <1>3 DEF Deliver, TypeInv, TypeOK
  <2> QED
    BY <1>1, <2>1, AccountKept
<1>4. CASE k = j
  <2> DEFINE e == Head(inbox[j])
  <2>1. inbox[j] \in Seq(Event) /\ inbox[j] # <<>> /\ seen[j] \in Seq(Message)
    BY DEF Deliver, TypeInv, TypeOK
  <2>2. e \in Event /\ Elements(inbox[j]) = {e} \cup Elements(Tail(inbox[j]))
    BY <2>1, HeadTailElements
  <2>3. inbox'[j] = Tail(inbox[j])
    BY DEF Deliver, TypeInv, TypeOK
  <2>4. CASE e.kind = "chat_message" /\ seen' = [seen EXCEPT ![j] = Append(@, e.msg)]
    <3>1. e.msg \in Message
      BY <2>2, <2>4, EventFacts
    <3>2. Elements(seen'[j]) = Elements(seen[j]) \cup {e.msg}
      <4>1. Elements(Append(seen[j], e.msg)) = Elements(seen[j]) \cup {e.msg}
        BY <2>1, <3>1, AppendElements
      <4>2. seen'[j] = Append(seen[j], e.msg)
        BY <2>4 DEF TypeInv, TypeOK
      <4> QED
        BY <4>1, <4>2
    <3>3. NewMessage(m) = e => m = e.msg
      BY DEF NewMessage
    <3> QED
      BY <1>1, <1>4, <2>2, <2>3, <3>2, <3>3, AccountKept
  <2>5. CASE e.kind = "update_users" /\ UNCHANGED seen
    <3>1. NewMessage(m) # e
      BY <2>5 DEF NewMessage
    <3> QED
      BY <1>1, <1>4, <2>2, <2>3, <2>5, <3>1, AccountKept
  <2> QED
    BY <2>4, <2>5 DEF Deliver
<1> QED
  BY <1>3, <1>4

LEMMA PostMessageAccounts ==
  ASSUME TypeInv, NoMessageMissed, NEW c \in Chat, PostMessage(c)
  PROVE  NoMessageMissed'
<1> SUFFICES ASSUME NEW k \in Conn, pc'[k] \in Serving, NEW m \in log'[ChatOf[k]]
             PROVE  Accounted(k, m)'
  BY DEF NoMessageMissed
<1>1. UNCHANGED <<history, seen, dropped, inbox, pc, msg, target>> /\ viaApi \subseteq viaApi'
  BY DEF PostMessage, client, layer, locals
<1>2. m \in log[ChatOf[k]] \/ m \in viaApi'
  BY ConnAssumption DEF PostMessage, TypeInv, TypeOK
<1>3. CASE m \in viaApi'
  BY <1>3 DEF Accounted
<1>4. CASE m \in log[ChatOf[k]]
  BY <1>1, <1>4, AccountKept
<1> QED
  BY <1>2, <1>3, <1>4

LEMMA MissedStep ==
  ASSUME TypeInv, Subscribed, NoMessageMissed, [Next]_vars
  PROVE  NoMessageMissed'
<1>1. CASE QuietStep
  BY <1>1, QuietStepAccounts
<1>2. CASE \E k \in Conn : \/ SendUsers(k, "send_on", "get_messages")
                           \/ SendUsers(k, "send_off", "discard")
                           \/ FirstMessages(k) \/ SaveMessage(k) \/ BroadcastMessage(k)
                           \/ Deliver(k)
  BY <1>2, SendUsersAccounts, FirstMessagesAccounts, SaveMessageAccounts, BroadcastAccounts,
     DeliverAccounts
<1>3. CASE \E c \in Chat : PostMessage(c)
  BY <1>3, PostMessageAccounts
<1>4. CASE Restart
  BY <1>4 DEF Restart, NoMessageMissed, Serving, Gone, TypeInv, TypeOK
<1>5. CASE UNCHANGED vars
  BY <1>5 DEF vars, db, layer, locals, client, ghosts, NoMessageMissed, Accounted
<1> QED
  BY <1>1, <1>2, <1>3, <1>4, <1>5 DEF Next, Handler, Environment, QuietStep

\* No message falls between a client's history and its inbox (connect joins the
\* group before it reads the history, consumers.py:42-47; create_message stores
\* before it sends, consumers.py:156-161).
THEOREM MessagesAccounted == Spec => []NoMessageMissed
<1>1. Init => Subscribed /\ NoMessageMissed
  BY DEF Init, Subscribed, NoMessageMissed, Listening, Serving
<1>2. TypeInv /\ Subscribed /\ NoMessageMissed /\ [Next]_vars => Subscribed' /\ NoMessageMissed'
  BY SubscribedStep, MissedStep
<1> QED
  BY <1>1, <1>2, TypeInit, TypeStep, PTL DEF Spec
================================================================================
