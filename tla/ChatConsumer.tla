------------------------------ MODULE ChatConsumer ------------------------------
(* The WebSocket consumer of one-to-one chats (apps/chat/consumers.py), the rows  *)
(* it shares with the HTTP API of chats (apps/chat/views.py), and the channel     *)
(* layer that carries events between connections.                                 *)
(*                                                                                *)
(* A connection runs one handler at a time, so pc[k] is the await its handler is  *)
(* standing at.  Other connections, HTTP requests and a restart of the server     *)
(* interleave at every await.  A @database_sync_to_async function runs whole on   *)
(* the process's one database thread and is one step.                             *)
EXTENDS Naturals, Sequences, FiniteSets

CONSTANTS
  User,       \* registered users
  Anonymous,  \* the user of a connection whose token the middleware refused
  Chat,       \* primary keys of chats
  Owner,      \* Owner[c], Peer[c]: Chat.owner and Chat.user of chat c
  Peer,
  Conn,       \* WebSocket connections; each is opened at most once
  UserOf,     \* UserOf[k]: scope["user"] of connection k
  ChatOf,     \* ChatOf[k]: the chat in the URL of connection k
  Message,    \* message primary keys (fresh UUIDs, never reused)
  NoMessage,
  HttpUser,   \* the users who also make HTTP requests
  Faults,     \* what may go wrong in an instance, of FaultKind
  Capacity    \* capacity of one connection's inbox in the channel layer

FaultKind == {"request", "restart", "delete"}

ASSUME UserAssumption ==
  /\ Anonymous \notin User
  /\ HttpUser \subseteq User
  /\ Owner \in [Chat -> User]
  /\ Peer \in [Chat -> User]

ASSUME ConnAssumption ==
  /\ UserOf \in [Conn -> User \cup {Anonymous}]
  /\ ChatOf \in [Conn -> Chat]

ASSUME LayerAssumption ==
  /\ NoMessage \notin Message
  /\ Capacity \in Nat \ {0}
  /\ Faults \subseteq FaultKind

VARIABLES
  \* database
  chats,         \* rows of Chat that exist
  participants,  \* rows of ChatParticipant, unique per (user, chat)
  log,           \* log[c]: rows of Message in chat c
  online,        \* User.is_online
  \* channel layer
  joined,        \* members of the groups chat__<pk>: k is in the group of ChatOf[k]
  inbox,         \* inbox[k]: events queued for connection k
  \* consumers
  pc, target, msg, users,
  \* clients
  history,       \* history[k]: messages listed to k by get_messages
  seen,          \* seen[k]: messages pushed to k by chat_message, in order
  roster,        \* roster[k]: users listed in the last update_users k received
  \* history variables
  used,          \* keys ever given to a message
  viaApi,        \* messages stored by POST /api/chats/<id>/messages/
  feed,          \* feed[c]: messages ever sent to group chat__<c>, in order
  since,         \* since[k]: length of the feed when k joined its group
  dropped,       \* dropped[k]: KeyOf the events the full inbox of k lost
  touched        \* users marked online by an HTTP request, not by a socket

db      == <<chats, participants, log, online>>
layer   == <<joined, inbox>>
locals  == <<target, msg, users>>
client  == <<history, seen, roster>>
ghosts  == <<used, viaApi, feed, since, dropped, touched>>
vars    == <<db, layer, pc, locals, client, ghosts>>

---------------------------------------------------------------------------------
(* Where a connection can stand. *)

Gone        == {"closed", "crashed"}   \* crashed: the task died without disconnect
Serving     == {"ready", "save", "broadcast"}
Connecting  == {"group_add", "add_user", "status_on", "read_on", "send_on", "get_messages"}
Leaving     == {"remove", "status_off", "read_off", "send_off", "discard"}
Place       == {"absent", "refused"} \cup Connecting \cup Serving \cup Leaving \cup Gone

\* between add_user_to_chat and remove_user_from_chat
Enrolled == {"status_on", "read_on", "send_on", "get_messages", "remove"} \cup Serving
\* between update_user_status(True) and update_user_status(False)
Active   == {"read_on", "send_on", "get_messages", "remove", "status_off"} \cup Serving

Event == [kind : {"chat_message"}, msg : Message] \cup
         [kind : {"update_users"}, users : SUBSET User]

NewMessage(m)   == [kind |-> "chat_message", msg |-> m]
UpdateUsers(us) == [kind |-> "update_users", users |-> us]

\* an update_users event carries no message
KeyOf(e)        == IF e.kind = "chat_message" THEN e.msg ELSE NoMessage
Elements(s)     == {s[i] : i \in DOMAIN s}
CurrentUsers(c) == {u \in User : <<u, c>> \in participants}
IsParty(u, c)   == u \in {Owner[c], Peer[c]}

\* the next fresh key: keys are interchangeable, so one choice stands for all
NextKey == CHOOSE m \in Message : m \notin used

Goto(k, from, to) == pc[k] = from /\ pc' = [pc EXCEPT ![k] = to]

\* A handler raises: the task ends without disconnect(), its inbox is read no more.
Crash(k, from) ==
  /\ Goto(k, from, "crashed")
  /\ inbox' = [inbox EXCEPT ![k] = <<>>]
  /\ UNCHANGED <<db, joined, locals, client, ghosts>>

---------------------------------------------------------------------------------
(* The channel layer.  A full inbox loses either the new event (refused by the    *)
(* layer) or its oldest one (pushed out of the receive buffer).                   *)

\* mutant: a consumer whose handler is running gets no event
IdleMembers(c) == {k \in joined : ChatOf[k] = c /\ pc[k] = "ready"}

Members(c) == {k \in joined : ChatOf[k] = c /\ pc[k] \notin Gone}
Full(c)    == {k \in Members(c) : Len(inbox[k]) >= Capacity}

Queued(k, e, c, refused) ==
  IF k \notin Members(c) \/ k \in refused THEN inbox[k]
  ELSE IF k \in Full(c) THEN Append(Tail(inbox[k]), e)
  ELSE Append(inbox[k], e)

Lost(k, e, c, refused) ==
  IF k \in refused THEN {KeyOf(e)}
  ELSE IF k \in Full(c) THEN {KeyOf(Head(inbox[k]))}
  ELSE {}

GroupSend(c, e) ==
  \E refused \in SUBSET Full(c) :
    /\ inbox' = [k \in Conn |-> Queued(k, e, c, refused)]
    /\ dropped' = [k \in Conn |-> dropped[k] \cup Lost(k, e, c, refused)]

---------------------------------------------------------------------------------
(* connect *)

Allowed(k) ==
  /\ UserOf[k] # Anonymous
  /\ ChatOf[k] \in chats
  /\ IsParty(UserOf[k], ChatOf[k])

ConnectRefused(k) ==
  /\ ~Allowed(k)
  /\ Goto(k, "absent", "refused")
  /\ UNCHANGED <<db, layer, locals, client, ghosts>>

ConnectAllowed(k) ==
  /\ Allowed(k)
  /\ Goto(k, "absent", "group_add")
  /\ UNCHANGED <<db, layer, locals, client, ghosts>>

GroupAdd(k) ==
  /\ Goto(k, "group_add", "add_user")
  /\ joined' = joined \cup {k}
  /\ since' = [since EXCEPT ![k] = Len(feed[ChatOf[k]])]
  /\ UNCHANGED <<db, inbox, locals, client, used, viaApi, feed, dropped, touched>>

\* mutant: the columns of the row are swapped
AddUserSwapped(k) ==
  /\ ChatOf[k] \in chats
  /\ Goto(k, "add_user", "status_on")
  /\ participants' = participants \cup {<<ChatOf[k], UserOf[k]>>}
  /\ UNCHANGED <<chats, log, online, layer, locals, client, ghosts>>

AddUser(k) ==
  /\ ChatOf[k] \in chats
  /\ Goto(k, "add_user", "status_on")
  /\ participants' = participants \cup {<<UserOf[k], ChatOf[k]>>}
  /\ UNCHANGED <<chats, log, online, layer, locals, client, ghosts>>

\* Chat.objects.get raises when the chat was deleted since connect read it
AddUserFails(k) ==
  /\ ChatOf[k] \notin chats
  /\ Crash(k, "add_user")

\* accept, then update_user_status(True)
StatusOn(k) ==
  /\ Goto(k, "status_on", "read_on")
  /\ online' = [online EXCEPT ![UserOf[k]] = TRUE]
  /\ UNCHANGED <<chats, participants, log, layer, locals, client, ghosts>>

---------------------------------------------------------------------------------
(* notify_users: read the participants, then send what was read *)

ReadUsers(k, from, to) ==
  /\ Goto(k, from, to)
  /\ users' = [users EXCEPT ![k] = CurrentUsers(ChatOf[k])]
  /\ UNCHANGED <<db, layer, target, msg, client, ghosts>>

\* mutant: the list is sent back to the consumer itself, not to the group
SendUsersToSelf(k, from, to) ==
  /\ Goto(k, from, to)
  /\ inbox' = [inbox EXCEPT ![k] = Append(@, UpdateUsers(users[k]))]
  /\ users' = [users EXCEPT ![k] = {}]
  /\ UNCHANGED <<db, joined, target, msg, client, ghosts>>

SendUsers(k, from, to) ==
  /\ Goto(k, from, to)
  /\ GroupSend(ChatOf[k], UpdateUsers(users[k]))
  /\ users' = [users EXCEPT ![k] = {}]
  /\ UNCHANGED <<db, joined, target, msg, client, used, viaApi, feed, since, touched>>

\* mutant: connect ends without get_messages
NoFirstMessages(k) ==
  /\ Goto(k, "get_messages", "ready")
  /\ UNCHANGED <<db, layer, locals, client, ghosts>>

\* the get_messages call that ends connect
FirstMessages(k) ==
  /\ Goto(k, "get_messages", "ready")
  /\ history' = [history EXCEPT ![k] = @ \cup log[ChatOf[k]]]
  /\ UNCHANGED <<db, layer, locals, seen, roster, ghosts>>

---------------------------------------------------------------------------------
(* requests of a connected client *)

\* action get_messages, with any chat as pk
GetMessages(k, c) ==
  /\ pc[k] = "ready"
  /\ history' = [history EXCEPT ![k] = @ \cup log[c]]
  /\ UNCHANGED <<db, layer, pc, locals, seen, roster, ghosts>>

\* action create_message: get_chat and get_recipient let it through
CreateMessage(k, c) ==
  /\ c \in chats
  /\ IsParty(UserOf[k], c)
  /\ Goto(k, "ready", "save")
  /\ target' = [target EXCEPT ![k] = c]
  /\ \E m \in Message \ used :
       /\ m = NextKey
       /\ msg' = [msg EXCEPT ![k] = m]
       /\ used' = used \cup {m}
  /\ UNCHANGED <<db, layer, users, client, viaApi, feed, since, dropped, touched>>

SaveMessage(k) ==
  /\ target[k] \in chats
  /\ Goto(k, "save", "broadcast")
  /\ log' = [log EXCEPT ![target[k]] = @ \cup {msg[k]}]
  /\ UNCHANGED <<chats, participants, online, layer, locals, client, ghosts>>

\* the foreign key of the new row fails: the chat was deleted in between
SaveMessageFails(k) ==
  /\ target[k] \notin chats
  /\ Crash(k, "save")

\* mutant: the message is stored and not sent
BroadcastForgotten(k) ==
  /\ Goto(k, "broadcast", "ready")
  /\ msg' = [msg EXCEPT ![k] = NoMessage]
  /\ target' = [target EXCEPT ![k] = ChatOf[k]]
  /\ UNCHANGED <<db, layer, users, client, ghosts>>

BroadcastMessage(k) ==
  /\ Goto(k, "broadcast", "ready")
  /\ GroupSend(target[k], NewMessage(msg[k]))
  /\ feed' = [feed EXCEPT ![target[k]] = Append(@, msg[k])]
  /\ msg' = [msg EXCEPT ![k] = NoMessage]
  /\ target' = [target EXCEPT ![k] = ChatOf[k]]
  /\ UNCHANGED <<db, joined, users, client, used, viaApi, since, touched>>

\* A handler raises something that is not an API exception: schedule_message with
\* a naive or a future time, a pk that is not a UUID, a missing argument.
RequestFails(k) == "request" \in Faults /\ Crash(k, "ready")

---------------------------------------------------------------------------------
(* events of the channel layer: chat_message and update_users *)

\* mutant: the newest event first
DeliverNewest(k) ==
  LET e == inbox[k][Len(inbox[k])] IN
  /\ pc[k] = "ready"
  /\ inbox[k] # <<>>
  /\ inbox' = [inbox EXCEPT ![k] = SubSeq(@, 1, Len(@) - 1)]
  /\ \/ e.kind = "chat_message" /\ seen' = [seen EXCEPT ![k] = Append(@, e.msg)]
                                /\ UNCHANGED roster
     \/ e.kind = "update_users" /\ roster' = [roster EXCEPT ![k] = e.users]
                                /\ UNCHANGED seen
  /\ UNCHANGED <<db, joined, pc, locals, history, ghosts>>

Deliver(k) ==
  LET e == Head(inbox[k]) IN
  /\ pc[k] = "ready"
  /\ inbox[k] # <<>>
  /\ inbox' = [inbox EXCEPT ![k] = Tail(@)]
  /\ \/ /\ e.kind = "chat_message"
        /\ seen' = [seen EXCEPT ![k] = Append(@, e.msg)]
        /\ UNCHANGED roster
     \/ /\ e.kind = "update_users"
        /\ roster' = [roster EXCEPT ![k] = e.users]
        /\ UNCHANGED seen
  /\ UNCHANGED <<db, joined, pc, locals, history, ghosts>>

---------------------------------------------------------------------------------
(* disconnect: also runs for a connection that connect refused *)

Disconnect(k) ==
  /\ pc[k] \in {"ready", "refused"}
  /\ pc' = [pc EXCEPT ![k] = IF UserOf[k] = Anonymous THEN "closed" ELSE "remove"]
  /\ UNCHANGED <<db, layer, locals, client, ghosts>>

\* mutant: disconnect forgets the row
RemoveUserForgotten(k) ==
  /\ Goto(k, "remove", "status_off")
  /\ UNCHANGED <<db, layer, locals, client, ghosts>>

\* mutant: disconnect first waits for an empty inbox
RemoveUserWhenDrained(k) ==
  /\ inbox[k] = <<>>
  /\ Goto(k, "remove", "status_off")
  /\ participants' = participants \ {<<UserOf[k], ChatOf[k]>>}
  /\ UNCHANGED <<chats, log, online, layer, locals, client, ghosts>>

RemoveUser(k) ==
  /\ Goto(k, "remove", "status_off")
  /\ participants' = participants \ {<<UserOf[k], ChatOf[k]>>}
  /\ UNCHANGED <<chats, log, online, layer, locals, client, ghosts>>

\* mutant: disconnect forgets the status
StatusOffForgotten(k) ==
  /\ Goto(k, "status_off", "read_off")
  /\ UNCHANGED <<db, layer, locals, client, ghosts>>

StatusOff(k) ==
  /\ Goto(k, "status_off", "read_off")
  /\ online' = [online EXCEPT ![UserOf[k]] = FALSE]
  /\ touched' = touched \ {UserOf[k]}
  /\ UNCHANGED <<chats, participants, log, layer, locals, client,
                 used, viaApi, feed, since, dropped>>

GroupDiscard(k) ==
  /\ Goto(k, "discard", "closed")
  /\ joined' = joined \ {k}
  /\ inbox' = [inbox EXCEPT ![k] = <<>>]
  /\ UNCHANGED <<db, locals, client, ghosts>>

---------------------------------------------------------------------------------
(* the HTTP side and the environment *)

\* DELETE /api/chats/<id>/: one transaction that cascades
DeleteChat(c) ==
  /\ "delete" \in Faults
  /\ c \in chats
  /\ chats' = chats \ {c}
  /\ participants' = {p \in participants : p[2] # c}
  /\ log' = [log EXCEPT ![c] = {}]
  /\ UNCHANGED <<online, layer, pc, locals, client, ghosts>>

\* POST /api/chats/<id>/messages/: the row is stored, and what is broadcast of it
\* goes to the group chat_<id>, which no connection joins
PostMessage(c) ==
  \E m \in Message \ used :
    /\ m = NextKey
    /\ c \in chats
    /\ HttpUser # {}
    /\ log' = [log EXCEPT ![c] = @ \cup {m}]
    /\ used' = used \cup {m}
    /\ viaApi' = viaApi \cup {m}
    /\ UNCHANGED <<chats, participants, online, layer, pc, locals, client,
                   feed, since, dropped, touched>>

\* TrackLoginActivity: after an authenticated HTTP request
HttpRequest(u) ==
  /\ online' = [online EXCEPT ![u] = TRUE]
  /\ touched' = touched \cup {u}
  /\ UNCHANGED <<chats, participants, log, layer, pc, locals, client,
                 used, viaApi, feed, since, dropped>>

\* The server process restarts: every task dies where it stands.
Restart ==
  /\ "restart" \in Faults
  /\ \E k \in Conn : pc[k] \notin Gone \cup {"absent"}
  /\ pc' = [k \in Conn |->
              IF pc[k] \in Gone \cup {"absent"} THEN pc[k] ELSE "crashed"]
  /\ inbox' = [k \in Conn |-> <<>>]
  /\ UNCHANGED <<db, joined, locals, client, ghosts>>

---------------------------------------------------------------------------------

Init ==
  /\ chats = Chat
  /\ participants = {}
  /\ log = [c \in Chat |-> {}]
  /\ online = [u \in User |-> FALSE]
  /\ joined = {}
  /\ inbox = [k \in Conn |-> <<>>]
  /\ pc = [k \in Conn |-> "absent"]
  /\ target = ChatOf
  /\ msg = [k \in Conn |-> NoMessage]
  /\ users = [k \in Conn |-> {}]
  /\ history = [k \in Conn |-> {}]
  /\ seen = [k \in Conn |-> <<>>]
  /\ roster = [k \in Conn |-> {}]
  /\ used = {}
  /\ viaApi = {}
  /\ feed = [c \in Chat |-> <<>>]
  /\ since = [k \in Conn |-> 0]
  /\ dropped = [k \in Conn |-> {}]
  /\ touched = {}

\* what the consumer of k does by itself once its handler has started
Handler(k) ==
  \/ GroupAdd(k)
  \/ AddUser(k)
  \/ AddUserFails(k)
  \/ StatusOn(k)
  \/ ReadUsers(k, "read_on", "send_on")
  \/ SendUsers(k, "send_on", "get_messages")
  \/ FirstMessages(k)
  \/ SaveMessage(k)
  \/ SaveMessageFails(k)
  \/ BroadcastMessage(k)
  \/ RemoveUser(k)
  \/ StatusOff(k)
  \/ ReadUsers(k, "read_off", "send_off")
  \/ SendUsers(k, "send_off", "discard")
  \/ GroupDiscard(k)

\* what a client does
Request(k) ==
  \/ ConnectRefused(k)
  \/ ConnectAllowed(k)
  \/ \E c \in Chat : GetMessages(k, c) \/ CreateMessage(k, c)
  \/ RequestFails(k)
  \/ Disconnect(k)

Environment ==
  \/ \E c \in Chat : DeleteChat(c) \/ PostMessage(c)
  \/ \E u \in HttpUser : HttpRequest(u)
  \/ Restart

Next ==
  \/ \E k \in Conn : Handler(k) \/ Deliver(k) \/ Request(k)
  \/ Environment

Spec == Init /\ [][Next]_vars

(* The event loop runs every started handler to its end; it takes from the inbox   *)
(* of a connection again and again however many requests the client sends; the     *)
(* server closes the socket of a connection that connect refused.                 *)
Fairness ==
  \A k \in Conn :
    /\ WF_vars(Handler(k))
    /\ SF_vars(Deliver(k))
    /\ WF_vars(pc[k] = "refused" /\ Disconnect(k))

FairSpec == Spec /\ Fairness

---------------------------------------------------------------------------------
(* Properties *)

TypeOK ==
  /\ chats \subseteq Chat
  /\ participants \subseteq User \X Chat
  /\ log \in [Chat -> SUBSET Message]
  /\ online \in [User -> BOOLEAN]
  /\ joined \subseteq Conn
  /\ inbox \in [Conn -> Seq(Event)]
  /\ pc \in [Conn -> Place]
  /\ target \in [Conn -> Chat]
  /\ msg \in [Conn -> Message \cup {NoMessage}]
  /\ users \in [Conn -> SUBSET User]
  /\ history \in [Conn -> SUBSET Message]
  /\ seen \in [Conn -> Seq(Message)]
  /\ roster \in [Conn -> SUBSET User]
  /\ used \subseteq Message
  /\ viaApi \subseteq Message
  /\ feed \in [Chat -> Seq(Message)]
  /\ since \in [Conn -> Nat]
  /\ dropped \in [Conn -> SUBSET (Message \cup {NoMessage})]
  /\ touched \subseteq User

(* Nobody misses a message.  Whatever is stored in the chat of a connection that   *)
(* finished connect was listed to it, pushed to it, waits in its inbox, was lost   *)
(* by its full inbox, came through the HTTP API, or is about to be broadcast by    *)
(* its author's handler.  connect joins the group before it reads the history and  *)
(* create_message stores before it sends: swap either and a message falls between. *)
Accounted(k, m) ==
  \/ m \in history[k] \cup Elements(seen[k]) \cup dropped[k] \cup viaApi
  \/ NewMessage(m) \in Elements(inbox[k])
  \/ \E a \in Conn : pc[a] = "broadcast" /\ msg[a] = m /\ target[a] = ChatOf[k]

NoMessageMissed ==
  \A k \in Conn : pc[k] \in Serving => \A m \in log[ChatOf[k]] : Accounted(k, m)

(* A row of ChatParticipant stands for a connection: one that added its user and   *)
(* has not removed it yet, or one whose task died without disconnect.             *)
NoGhostParticipant ==
  \A p \in participants :
    \E k \in Conn : /\ UserOf[k] = p[1] /\ ChatOf[k] = p[2]
                    /\ pc[k] \in Enrolled \cup {"crashed"}

(* is_online stands for a connection in the same way, unless an HTTP request was   *)
(* the last to set it.                                                            *)
NoGhostOnline ==
  \A u \in User : online[u] /\ u \notin touched =>
    \E k \in Conn : UserOf[k] = u /\ pc[k] \in Active \cup {"crashed"}

(* Two clients of one chat that have caught up with their inboxes and lost no      *)
(* update_users show the same list of users: the last list sent reaches both.      *)
CaughtUp(k) ==
  /\ pc[k] \in Serving
  /\ inbox[k] = <<>>
  /\ NoMessage \notin dropped[k]

RostersAgree ==
  \A j, k \in Conn :
    CaughtUp(j) /\ CaughtUp(k) /\ ChatOf[j] = ChatOf[k] => roster[j] = roster[k]

(* Clients hear the messages of their own chat only, each at most once, none from  *)
(* before they joined, in the one order in which the layer published them.         *)
Feed == INSTANCE RoomFeed WITH tuned <- joined, view <- seen

FeedImplemented == Feed!Spec

(* Every message a socket stored reaches every connection that is being served,    *)
(* unless the inbox lost it, the connection ends, or the chat is deleted.          *)
EveryMessageArrives ==
  \A k \in Conn, m \in Message :
    (pc[k] \in Serving /\ m \in log[ChatOf[k]] \ viaApi) ~>
      \/ m \in history[k] \cup Elements(seen[k]) \cup dropped[k]
      \/ pc[k] \in Leaving \cup Gone
      \/ m \notin log[ChatOf[k]]

(* A connection that starts to leave, or was refused, is cleaned up to the end.    *)
LeaversLeave ==
  \A k \in Conn : pc[k] \in {"refused", "remove"} ~> pc[k] \in Gone /\ inbox[k] = <<>>

\* The code's comments, as properties.

(* "Chatdagi hozirgi ishtirokchilarni olish" (consumers.py:103): the participants  *)
(* read back are the users who are in the chat now.                               *)
OpenIsListed ==
  \A k \in Conn : pc[k] = "ready" /\ ChatOf[k] \in chats =>
                   UserOf[k] \in CurrentUsers(ChatOf[k])

(* "Barcha foydalanuvchilarga yangi ishtirokchilar haqida xabar berish"            *)
(* (consumers.py:46): once nothing is on its way, every client shows the users who *)
(* are in the chat.                                                               *)
Quiet == \A k \in Conn : pc[k] \in {"absent", "ready", "closed"} /\ inbox[k] = <<>>

RosterIsCurrent ==
  Quiet => \A k \in Conn : pc[k] = "ready" /\ ChatOf[k] \in chats =>
                            roster[k] = CurrentUsers(ChatOf[k])
================================================================================
