------------------------------ MODULE GroupRoom ------------------------------
(* The WebSocket consumer of one group (apps/group/consumers.py) with the HTTP    *)
(* requests that change the rows it reads (apps/group/views.py).  It differs from *)
(* ChatConsumer in its rights, which are read from the database at every message, *)
(* and in the pushes: after a message is broadcast its author's handler looks at  *)
(* the members one by one and pushes to those who are offline.                    *)
(* pc[k] is the await at which the handler of connection k stands.                *)
EXTENDS Naturals, Sequences

CONSTANTS
  User, Anonymous,
  Owner,      \* Group.owner
  Muted,      \* users without an enabled NotificationPreference
  Roaming,    \* users who also use other parts of the system
  Conn,       \* WebSocket connections to the group; each is opened at most once
  UserOf,     \* UserOf[k]: scope["user"]
  Message, NoMessage

ASSUME GroupAssumption ==
  /\ Anonymous \notin User
  /\ Owner \in User /\ Muted \subseteq User /\ Roaming \subseteq User
  /\ UserOf \in [Conn -> User \cup {Anonymous}]
  /\ NoMessage \notin Message

VARIABLES
  \* database
  exists,        \* the row of the group is there
  isPrivate,
  members,       \* Group.members
  participants,  \* users with a row of GroupParticipant
  rights,        \* rows of GroupPermission: none or one, what it allows
  log,           \* rows of GroupMessage
  online,        \* users with is_online
  \* channel layer
  joined, inbox,
  \* consumers
  pc, found,     \* found: connections with self.group
  msg, astray,   \* astray: messages sent to another group than they are stored in
  todo,          \* todo[k]: members the handler has still to look at
  \* clients
  shown,         \* shown[k]: messages k was sent, by get_messages or as they came
  \* history variables
  used,
  pushed,        \* <<m, u>>: a push to u about m was handed to the broker
  touched        \* users marked online by something else than a socket of this group

rows    == <<exists, isPrivate, members, participants, rights, log>>
layer   == <<joined, inbox>>
request == <<msg, astray, todo>>
ghosts  == <<used, pushed, touched>>
vars    == <<rows, online, layer, pc, found, request, shown, ghosts>>

Right == {"messages", "media"}

Gone       == {"closed", "crashed"}
Connecting == {"access", "group_add", "add_user", "status_on", "notify_on", "get_messages"}
Serving    == {"ready", "right", "save", "broadcast", "members", "push"}
Leaving    == {"remove", "status_off", "notify_off", "discard"}
Place      == {"absent", "refused"} \cup Connecting \cup Serving \cup Leaving \cup Gone

\* between add_user_to_group and remove_user_from_group
Enrolled == {"status_on", "notify_on", "get_messages", "remove"} \cup Serving

Elements(s) == {s[i] : i \in DOMAIN s}
NextKey     == CHOOSE m \in Message : m \notin used

\* is_user_group_member
IsMember(u) == u = Owner \/ u \in members

Goto(k, from, to) == pc[k] = from /\ pc' = [pc EXCEPT ![k] = to]

\* the task ends without disconnect()
Crash(k, from) ==
  /\ Goto(k, from, "crashed")
  /\ inbox' = [inbox EXCEPT ![k] = <<>>]
  /\ UNCHANGED <<rows, online, joined, found, request, shown, ghosts>>

Init ==
  /\ exists = TRUE /\ isPrivate \in BOOLEAN
  /\ members = {} /\ participants = {}
  /\ rights \in {{}, {Right}}
  /\ log = {} /\ online = {}
  /\ joined = {} /\ inbox = [k \in Conn |-> <<>>]
  /\ pc = [k \in Conn |-> "absent"] /\ found = {}
  /\ msg = [k \in Conn |-> NoMessage] /\ astray = {}
  /\ todo = [k \in Conn |-> {}]
  /\ shown = [k \in Conn |-> {}]
  /\ used = {} /\ pushed = {} /\ touched = {}

-----------------------------------------------------------------------------
(* connect *)

\* is_authenticated; has_group_access reads the group, and for a private one the members
Connect(k) ==
  /\ \/ /\ UserOf[k] = Anonymous \/ ~exists
        /\ Goto(k, "absent", "refused") /\ UNCHANGED found
     \/ /\ UserOf[k] # Anonymous /\ exists
        /\ Goto(k, "absent", IF isPrivate THEN "access" ELSE "group_add")
        /\ found' = found \cup {k}
  /\ UNCHANGED <<rows, online, layer, request, shown, ghosts>>

Access(k) ==
  /\ Goto(k, "access", IF IsMember(UserOf[k]) THEN "group_add" ELSE "refused")
  /\ UNCHANGED <<rows, online, layer, found, request, shown, ghosts>>

GroupAdd(k) ==
  /\ Goto(k, "group_add", "add_user")
  /\ joined' = joined \cup {k}
  /\ UNCHANGED <<rows, online, inbox, found, request, shown, ghosts>>

\* mutant: the row is keyed by the connection
AddUserByConnection(k) ==
  \/ /\ exists
     /\ Goto(k, "add_user", "status_on")
     /\ participants' = participants \cup {k}
     /\ UNCHANGED <<exists, isPrivate, members, rights, log>>
     /\ UNCHANGED <<online, layer, found, request, shown, ghosts>>
  \/ ~exists /\ Crash(k, "add_user")

\* get_or_create; the foreign key fails when the group was deleted in between
AddUser(k) ==
  \/ /\ exists
     /\ Goto(k, "add_user", "status_on")
     /\ participants' = participants \cup {UserOf[k]}
     /\ UNCHANGED <<exists, isPrivate, members, rights, log>>
     /\ UNCHANGED <<online, layer, found, request, shown, ghosts>>
  \/ ~exists /\ Crash(k, "add_user")

StatusOn(k) ==
  /\ Goto(k, "status_on", "notify_on")
  /\ online' = online \cup {UserOf[k]}
  /\ UNCHANGED <<rows, layer, found, request, shown, ghosts>>

\* the list of members goes to the group; what clients show of it is left out
\* (RostersAgree in ChatConsumer is about the same two steps)
NotifyOn(k) ==
  /\ Goto(k, "notify_on", "get_messages")
  /\ UNCHANGED <<rows, online, layer, found, request, shown, ghosts>>

FirstMessages(k) ==
  /\ Goto(k, "get_messages", "ready")
  /\ shown' = [shown EXCEPT ![k] = @ \cup log]
  /\ UNCHANGED <<rows, online, layer, found, request, ghosts>>

-----------------------------------------------------------------------------
(* requests and events of a connected client *)

\* actions get_messages and get_group_messages
GetMessages(k) ==
  /\ pc[k] = "ready"
  /\ shown' = [shown EXCEPT ![k] = @ \cup log]
  /\ UNCHANGED <<rows, online, layer, pc, found, request, ghosts>>

\* action create_message; pk may name another group than the connection's
CreateMessage(k, m, elsewhere) ==
  /\ m \notin used /\ m = NextKey
  /\ IsMember(UserOf[k])
  /\ Goto(k, "ready", "right")
  /\ msg' = [msg EXCEPT ![k] = m]
  /\ used' = used \cup {m}
  /\ astray' = IF elsewhere THEN astray \cup {m} ELSE astray
  /\ UNCHANGED <<rows, online, layer, found, todo, shown, pushed, touched>>

\* the handler returns; nothing of the request is left
Done(k) == msg' = [msg EXCEPT ![k] = NoMessage]

\* can_send_message; without a permission row it raises
CheckRight(k) ==
  \/ rights = {} /\ Crash(k, "right")
  \/ /\ \E r \in rights :
          \/ "messages" \in r /\ Goto(k, "right", "save") /\ UNCHANGED msg
          \/ "messages" \notin r /\ Goto(k, "right", "ready") /\ Done(k)
     /\ UNCHANGED <<rows, online, layer, found, astray, todo, shown, ghosts>>

SaveMessage(k) ==
  \/ /\ exists
     /\ Goto(k, "save", "broadcast")
     /\ log' = log \cup {msg[k]}
     /\ UNCHANGED <<exists, isPrivate, members, participants, rights>>
     /\ UNCHANGED <<online, layer, found, request, shown, ghosts>>
  \/ ~exists /\ Crash(k, "save")

\* mutant: events go to the members of the group, not to all its connections
MembersOnly == {k \in joined : pc[k] \notin Gone /\ UserOf[k] \in members}

Listeners == {k \in joined : pc[k] \notin Gone}

Broadcast(k) ==
  /\ Goto(k, "broadcast", "members")
  /\ inbox' = [j \in Conn |->
                 IF j \in Listeners /\ msg[k] \notin astray
                 THEN Append(inbox[j], msg[k]) ELSE inbox[j]]
  /\ UNCHANGED <<rows, online, joined, found, request, shown, ghosts>>

\* get_group_members, a second time
ReadMembers(k) ==
  /\ pc[k] = "members"
  /\ todo' = [todo EXCEPT ![k] = members]
  /\ \/ members # {} /\ Goto(k, "members", "push") /\ UNCHANGED msg
     \/ members = {} /\ Goto(k, "members", "ready") /\ Done(k)
  /\ UNCHANGED <<rows, online, layer, found, astray, shown, ghosts>>

LookedAt(k, u) ==
  /\ pc[k] = "push" /\ u \in todo[k]
  /\ todo' = [todo EXCEPT ![k] = @ \ {u}]
  /\ \/ todo[k] # {u} /\ UNCHANGED <<pc, msg>>
     \/ todo[k] = {u} /\ Goto(k, "push", "ready") /\ Done(k)
  /\ UNCHANGED <<rows, online, layer, found, astray, shown, used, touched>>

\* one member: get_user, and a push when he is offline and wants it; the handler goes
\* on although the push cannot be queued (the exception is swallowed)
Push(k, u) ==
  /\ LookedAt(k, u)
  /\ \/ u \in online \cup Muted /\ UNCHANGED pushed
     \/ u \notin online \cup Muted /\ pushed' = pushed \cup {<<msg[k], u>>}

\* schedule_message calls get_group with an argument it does not take
ScheduleMessage(k) == Crash(k, "ready")

\* event group_message
GroupMessage(k) ==
  /\ pc[k] = "ready" /\ inbox[k] # <<>>
  /\ inbox' = [inbox EXCEPT ![k] = Tail(@)]
  /\ shown' = [shown EXCEPT ![k] = @ \cup {Head(inbox[k])}]
  /\ UNCHANGED <<rows, online, joined, pc, found, request, ghosts>>

-----------------------------------------------------------------------------
(* disconnect: runs for a refused connection as well *)

Disconnect(k) ==
  /\ pc[k] \in {"ready", "refused"}
  /\ pc' = [pc EXCEPT ![k] = IF UserOf[k] = Anonymous THEN "discard" ELSE "remove"]
  /\ UNCHANGED <<rows, online, layer, found, request, shown, ghosts>>

\* mutant: disconnect forgets the row
RemoveUserForgotten(k) ==
  /\ Goto(k, "remove", "status_off")
  /\ UNCHANGED <<rows, online, layer, found, request, shown, ghosts>>

RemoveUser(k) ==
  /\ Goto(k, "remove", "status_off")
  /\ participants' = participants \ {UserOf[k]}
  /\ UNCHANGED <<exists, isPrivate, members, rights, log>>
  /\ UNCHANGED <<online, layer, found, request, shown, ghosts>>

StatusOff(k) ==
  /\ Goto(k, "status_off", "notify_off")
  /\ online' = online \ {UserOf[k]}
  /\ touched' = touched \ {UserOf[k]}
  /\ UNCHANGED <<rows, layer, found, request, shown, used, pushed>>

\* without a group, get_group_members raises
NotifyOff(k) ==
  \/ k \notin found /\ Crash(k, "notify_off")
  \/ /\ k \in found
     /\ Goto(k, "notify_off", "discard")
     /\ UNCHANGED <<rows, online, layer, found, request, shown, ghosts>>

GroupDiscard(k) ==
  /\ Goto(k, "discard", "closed")
  /\ joined' = joined \ {k}
  /\ inbox' = [inbox EXCEPT ![k] = <<>>]
  /\ UNCHANGED <<rows, online, found, request, shown, ghosts>>

\* the server restarts, or gives up waiting for the task
Die(k) == pc[k] \notin Gone \cup {"absent"} /\ Crash(k, pc[k])

-----------------------------------------------------------------------------
(* HTTP requests.  What a request does after its checks is one query or one       *)
(* transaction, and adding or removing a member twice is the same as once.        *)

\* GroupMembershipsView.post, delete
JoinGroup(u) ==
  /\ exists /\ ~isPrivate
  /\ members' = members \cup {u}
  /\ UNCHANGED <<exists, isPrivate, participants, rights, log>>
  /\ UNCHANGED <<online, layer, pc, found, request, shown, ghosts>>

LeaveGroup(u) ==
  /\ u \in members
  /\ members' = members \ {u}
  /\ UNCHANGED <<exists, isPrivate, participants, rights, log>>
  /\ UNCHANGED <<online, layer, pc, found, request, shown, ghosts>>

\* GroupMembersView.patch: the members become the users of the request; the owner
\* may always do it
AddMembers(us) ==
  /\ exists /\ isPrivate
  /\ members' = us
  /\ UNCHANGED <<exists, isPrivate, participants, rights, log>>
  /\ UNCHANGED <<online, layer, pc, found, request, shown, ghosts>>

\* GroupPermissionsUpdateView.patch as a whole; GroupRights has its steps
UpdatePermissions(r) ==
  /\ exists
  /\ rights' = {r}
  /\ UNCHANGED <<exists, isPrivate, members, participants, log>>
  /\ UNCHANGED <<online, layer, pc, found, request, shown, ghosts>>

\* GroupMessageView.perform_create: the row is stored; it is broadcast to the group
\* group_<id>, which no connection joins
PostMessage(m) ==
  /\ m \notin used /\ m = NextKey
  /\ exists /\ \E r \in rights : "media" \in r
  /\ log' = log \cup {m}
  /\ used' = used \cup {m}
  /\ UNCHANGED <<exists, isPrivate, members, participants, rights>>
  /\ UNCHANGED <<online, layer, pc, found, request, shown, pushed, touched>>

\* GroupDetailView.perform_destroy: one transaction that cascades
DeleteGroup ==
  /\ exists
  /\ exists' = FALSE
  /\ members' = {} /\ participants' = {} /\ rights' = {} /\ log' = {}
  /\ UNCHANGED <<isPrivate, online, layer, pc, found, request, shown, ghosts>>

\* an HTTP request, or a socket of another room, sets the flag; such a socket clears it
Elsewhere(u) ==
  /\ \/ online' = online \cup {u} /\ touched' = touched \cup {u}
     \/ online' = online \ {u} /\ touched' = touched \ {u}
  /\ UNCHANGED <<rows, layer, pc, found, request, shown, used, pushed>>

-----------------------------------------------------------------------------
Handler(k) ==
  \/ Access(k) \/ GroupAdd(k) \/ AddUser(k) \/ StatusOn(k) \/ NotifyOn(k) \/ FirstMessages(k)
  \/ CheckRight(k) \/ SaveMessage(k) \/ Broadcast(k) \/ ReadMembers(k)
  \/ \E u \in User : Push(k, u)
  \/ RemoveUser(k) \/ StatusOff(k) \/ NotifyOff(k) \/ GroupDiscard(k)

Client(k) ==
  \/ Connect(k) \/ GetMessages(k) \/ ScheduleMessage(k) \/ Disconnect(k)
  \/ \E m \in Message, elsewhere \in BOOLEAN : CreateMessage(k, m, elsewhere)

Http ==
  \/ \E u \in User : JoinGroup(u) \/ LeaveGroup(u)
  \/ \E us \in SUBSET User : AddMembers(us)
  \/ \E r \in SUBSET Right : UpdatePermissions(r)
  \/ \E m \in Message : PostMessage(m)
  \/ DeleteGroup
  \/ \E u \in Roaming : Elsewhere(u)

Next ==
  \/ \E k \in Conn : Handler(k) \/ GroupMessage(k) \/ Client(k) \/ Die(k)
  \/ Http

Spec == Init /\ [][Next]_vars

-----------------------------------------------------------------------------
RoomTypeOK ==
  /\ exists \in BOOLEAN /\ isPrivate \in BOOLEAN
  /\ members \subseteq User /\ participants \subseteq User
  /\ rights \subseteq SUBSET Right
  /\ log \subseteq Message /\ online \subseteq User
  /\ joined \subseteq Conn /\ inbox \in [Conn -> Seq(Message)]
  /\ pc \in [Conn -> Place] /\ found \subseteq Conn
  /\ msg \in [Conn -> Message \cup {NoMessage}] /\ astray \subseteq Message
  /\ todo \in [Conn -> SUBSET User]
  /\ shown \in [Conn -> SUBSET Message]
  /\ used \subseteq Message
  /\ pushed \subseteq Message \X User /\ touched \subseteq User

\* k has message m on its screen or on its way, or will list it before it serves
Reached(k, m) ==
  /\ pc[k] \in Serving \cup {"notify_on", "get_messages"}
  /\ m \in shown[k] \cup Elements(inbox[k]) \/ pc[k] \in {"notify_on", "get_messages"}

\* The members a message was not pushed to because they were online have it: the one
\* look at is_online, long after the broadcast (apps/group/consumers.py:201), never
\* takes a member for served who came too late for the broadcast and too early for the
\* history.  Left are flags with no connection behind them: of a connection that is
\* leaving or died, or that something else set.
MemberInformed ==
  [][\A k \in Conn, u \in User :
       u \in todo[k] \ todo'[k] /\ msg[k] \in log \ astray /\ u \notin Muted =>
         \/ <<msg[k], u>> \in pushed'
         \/ u \in touched
         \/ \E j \in Conn : UserOf[j] = u /\
              (Reached(j, msg[k]) \/ pc[j] \in {"remove", "status_off", "crashed"})]_vars

\* A row of GroupParticipant stands for a connection that has not removed it, or that
\* died (schedule_message always does, apps/group/consumers.py:248).
NoGhostParticipant ==
  \A u \in participants :
    \E k \in Conn : UserOf[k] = u /\ pc[k] \in Enrolled \cup {"crashed"}
=============================================================================
