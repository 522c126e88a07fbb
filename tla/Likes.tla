--------------------------------- MODULE Likes ---------------------------------
(* The likes of one message as its clients see them.  The consumers of chats and  *)
(* of groups share the code (apps/chat/consumers.py, apps/group/consumers.py): a  *)
(* handler changes the row, serializes the likes, and sends what it serialized to *)
(* the room, with an await between each.  The clients replace what they show by   *)
(* whatever comes.  Inboxes that overflow are in ChatConsumer.                     *)
EXTENDS Naturals, Sequences

CONSTANTS
  Liker,     \* users
  Socket,    \* connections to the room of the message
  LikerOf,   \* LikerOf[s]: the user of connection s
  MaxLikes   \* bound: how often the likes are changed

ASSUME LikesAssumption == LikerOf \in [Socket -> Liker] /\ MaxLikes \in Nat

VARIABLES
  stored, likedBy,  \* the row of the message and its liked_by
  stand, wish,      \* where the handler of s stands, and whether it is to like
  list,             \* list[s]: what it serialized
  queue,            \* queue[s]: the lists on their way to s
  view,             \* view[s]: the list client s shows
  \* history: changes so far, the change each handler serialized last, the newest one
  \* that was sent, whether the latest list sent was not the newest, whether a
  \* handler died between its change and its broadcast
  changes, asOf, newest, overtaken, unsent

likesVars == <<stored, likedBy, stand, wish, list, queue, view,
               changes, asOf, newest, overtaken, unsent>>
likesHistory == <<changes, asOf, newest, overtaken, unsent>>

Standing == {"absent", "listing", "idle", "change", "serialize", "send", "gone"}
Walk(s, from, to) == stand[s] = from /\ stand' = [stand EXCEPT ![s] = to]

LikesInit ==
  /\ stored = TRUE /\ likedBy = {}
  /\ stand = [s \in Socket |-> "absent"] /\ wish = [s \in Socket |-> TRUE]
  /\ list = [s \in Socket |-> {}] /\ queue = [s \in Socket |-> <<>>]
  /\ view = [s \in Socket |-> {}]
  /\ changes = 0 /\ asOf = [s \in Socket |-> 0] /\ newest = 0
  /\ overtaken = FALSE /\ unsent = FALSE

-----------------------------------------------------------------------------
\* connect: group_add, and a few awaits later get_messages
EnterRoom(s) ==
  /\ Walk(s, "absent", "listing")
  /\ UNCHANGED <<stored, likedBy, wish, list, queue, view, likesHistory>>

\* get_messages at the end of connect, or asked for by the client
ListLikes(s) ==
  /\ Walk(s, "listing", "idle") \/ Walk(s, "idle", "idle")
  /\ view' = [view EXCEPT ![s] = likedBy]
  /\ UNCHANGED <<stored, likedBy, wish, list, queue, likesHistory>>

\* like_message, unlike_message: get_message finds the row
StartLike(s, w) ==
  /\ stored
  /\ Walk(s, "idle", "change")
  /\ wish' = [wish EXCEPT ![s] = w]
  /\ UNCHANGED <<stored, likedBy, list, queue, view, likesHistory>>

\* add_like, remove_like
ChangeLike(s) ==
  /\ stored /\ changes < MaxLikes
  /\ Walk(s, "change", "serialize")
  /\ likedBy' = IF wish[s] THEN likedBy \cup {LikerOf[s]} ELSE likedBy \ {LikerOf[s]}
  /\ changes' = changes + 1
  /\ UNCHANGED <<stored, wish, list, queue, view, asOf, newest, overtaken, unsent>>

\* serialize_message reads liked_by
SerializeLikes(s) ==
  /\ stored
  /\ Walk(s, "serialize", "send")
  /\ list' = [list EXCEPT ![s] = likedBy]
  /\ asOf' = [asOf EXCEPT ![s] = changes]
  /\ UNCHANGED <<stored, likedBy, wish, queue, view, changes, newest, overtaken, unsent>>

\* mutant: a connection that has a handler running is not in the group
IdleSockets == {s \in Socket : stand[s] = "idle"}

Listening == {s \in Socket : stand[s] \notin {"absent", "gone"}}

\* group_send to the room of the message
SendLikes(s) ==
  /\ Walk(s, "send", "idle")
  /\ queue' = [t \in Socket |-> IF t \in Listening THEN Append(queue[t], list[s])
                                ELSE queue[t]]
  /\ overtaken' = (asOf[s] < newest)
  /\ newest' = IF overtaken' THEN newest ELSE asOf[s]
  /\ UNCHANGED <<stored, likedBy, wish, list, view, changes, asOf, unsent>>

\* message_liked, message_unliked: the consumer handles an event when no handler runs
ShowLikes(s) ==
  /\ stand[s] = "idle" /\ queue[s] # <<>>
  /\ view' = [view EXCEPT ![s] = Head(queue[s])]
  /\ queue' = [queue EXCEPT ![s] = Tail(@)]
  /\ UNCHANGED <<stored, likedBy, stand, wish, list, likesHistory>>

\* The connection ends: the client leaves, the server restarts, or the handler raises
\* because the message went with its chat (the row of the like and save() fail by their
\* foreign keys, message.chat.id after the serialization by a query without result).
EndSocket(s) ==
  /\ s \in Listening
  /\ Walk(s, stand[s], "gone")
  /\ queue' = [queue EXCEPT ![s] = <<>>]
  /\ unsent' = (unsent \/ stand[s] \in {"serialize", "send"})
  /\ UNCHANGED <<stored, likedBy, wish, list, view, changes, asOf, newest, overtaken>>

\* the chat or group is deleted, and the message with it
DeleteRoom ==
  /\ stored
  /\ stored' = FALSE /\ likedBy' = {}
  /\ UNCHANGED <<stand, wish, list, queue, view, likesHistory>>

-----------------------------------------------------------------------------
LikesNext ==
  \/ DeleteRoom
  \/ \E s \in Socket :
       \/ EnterRoom(s) \/ ListLikes(s) \/ ChangeLike(s) \/ SerializeLikes(s)
       \/ SendLikes(s) \/ ShowLikes(s) \/ EndSocket(s)
       \/ \E w \in BOOLEAN : StartLike(s, w)

LikesSpec == LikesInit /\ [][LikesNext]_likesVars

-----------------------------------------------------------------------------
LikesTypeOK ==
  /\ stored \in BOOLEAN /\ likedBy \subseteq Liker
  /\ stand \in [Socket -> Standing] /\ wish \in [Socket -> BOOLEAN]
  /\ list \in [Socket -> SUBSET Liker] /\ queue \in [Socket -> Seq(SUBSET Liker)]
  /\ view \in [Socket -> SUBSET Liker]
  /\ changes \in Nat /\ asOf \in [Socket -> Nat] /\ newest \in Nat
  /\ overtaken \in BOOLEAN /\ unsent \in BOOLEAN

\* no handler is between its change and its broadcast, and every event was handled
Settled == \A s \in Listening : stand[s] \in {"idle", "change"} /\ queue[s] = <<>>

\* When all is settled every client shows the likes of the database, however likes,
\* unlikes, joins and listings were interleaved, unless the list sent last was older
\* than one sent before it (chat/consumers.py:249: the list is serialized one await
\* before it is sent), or the newest was never sent because its handler died.
LikesCurrent ==
  stored /\ Settled =>
    /\ newest < changes => unsent
    /\ newest = changes /\ ~overtaken => \A s \in Listening : view[s] = likedBy
=============================================================================
