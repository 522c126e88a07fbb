-------------------------------- MODULE RoomFeed --------------------------------
(* What the live feed of a room promises, whatever the consumers and the channel   *)
(* layer do inside: every room has one order of published messages, and a listener *)
(* hears messages of its room only, published after it tuned in, in that order,    *)
(* each at most once.  Messages may be skipped; that none is skipped without cause *)
(* is the subject of NoMessageMissed and EveryMessageArrives of ChatConsumer.      *)
EXTENDS Naturals, Sequences

CONSTANTS Chat, Conn, ChatOf, Message

VARIABLES
  feed,   \* feed[c]: the messages published in room c
  tuned,  \* listeners that are tuned in
  since,  \* since[k]: length of the feed when k tuned in
  view    \* view[k]: what k has heard

vars == <<feed, tuned, since, view>>

Init ==
  /\ feed = [c \in Chat |-> <<>>]
  /\ tuned = {}
  /\ since = [k \in Conn |-> 0]
  /\ view = [k \in Conn |-> <<>>]

Publish(c, m) ==
  /\ \A d \in Chat : \A i \in DOMAIN feed[d] : feed[d][i] # m
  /\ feed' = [feed EXCEPT ![c] = Append(@, m)]
  /\ UNCHANGED <<tuned, since, view>>

TuneIn(k) ==
  /\ k \notin tuned
  /\ view[k] = <<>>
  /\ tuned' = tuned \cup {k}
  /\ since' = [since EXCEPT ![k] = Len(feed[ChatOf[k]])]
  /\ UNCHANGED <<feed, view>>

Hear(k) ==
  LET f == feed[ChatOf[k]] IN
  /\ k \in tuned
  /\ \E j \in (since[k] + 1) .. Len(f) :
       /\ \A i \in DOMAIN view[k] : \E h \in 1 .. (j - 1) : f[h] = view[k][i]
       /\ view' = [view EXCEPT ![k] = Append(@, f[j])]
  /\ UNCHANGED <<feed, tuned, since>>

TuneOut(k) ==
  /\ k \in tuned
  /\ tuned' = tuned \ {k}
  /\ UNCHANGED <<feed, since, view>>

Next ==
  \/ \E c \in Chat, m \in Message : Publish(c, m)
  \/ \E k \in Conn : TuneIn(k) \/ Hear(k) \/ TuneOut(k)

Spec == Init /\ [][Next]_vars
================================================================================
