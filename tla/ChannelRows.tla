------------------------------ MODULE ChannelRows ------------------------------
(* The HTTP API of one channel, its memberships and its messages                  *)
(* (apps/channel/views.py).  An update loads a row and saves the copy a few       *)
(* queries later, all columns of it; Model.save() that finds no row to update      *)
(* inserts one.  Other requests come in between: updates, deletions, posts.       *)
(* The columns of a row are abstracted to the set of edits one can see in it, an  *)
(* edit being a new value in a column of its own (of two edits of one column the  *)
(* later hides the earlier, and nothing is lost).  Keys are never used twice.     *)

CONSTANTS
  Channel,      \* the key of the channel
  Membership,   \* keys of memberships of one user in the channel
  Post,         \* keys of its messages
  Edit,         \* PATCH requests that change something, each made once
  Fan,          \* users who like messages
  Request,      \* the threads that serve requests, one request at a time
  NoRow, NoEdit

ASSUME RowsAssumption ==
  /\ Channel \notin Membership \cup Post /\ Membership \cap Post = {}
  /\ NoRow \notin {Channel} \cup Membership \cup Post
  /\ NoEdit \notin Edit

VARIABLES
  present,    \* rows that are stored
  content,    \* content[r]: the edits to be seen in row r
  likes,      \* likes[m]: users who like message m
  at,         \* at[t]: where the request on thread t stands
  target, copy, edit,  \* the row it is about, the edits in its copy, its own edit
  someone,    \* whether it found a first member
  \* history
  created,    \* keys given out
  edits,      \* edits[r]: edits of row r that were saved
  deleted,    \* rows that were deleted
  held,       \* deleted rows of which an update had a copy at the deletion
  crossed,    \* rows of which an update saved a copy that another save had outdated
  stale,      \* threads whose copy is outdated
  answered,   \* posts that were answered
  alone,      \* posts whose request found no member
  broken      \* posts whose request died, or whose push could not be queued

tables   == <<present, content, likes>>
locals   == <<target, copy, edit, someone>>
postPast == <<answered, alone, broken>>
rowPast  == <<edits, deleted, held, crossed, stale>>
rowsVars == <<tables, at, locals, created, rowPast, postPast>>

Row  == {Channel} \cup Membership \cup Post
Spot == {"idle", "create", "push", "edit", "recheck", "save"}
Move(t, from, to) == at[t] = from /\ at' = [at EXCEPT ![t] = to]

\* the request is over, what it had in hand is forgotten
Finish(t, from) ==
  /\ Move(t, from, "idle")
  /\ target' = [target EXCEPT ![t] = NoRow] /\ copy' = [copy EXCEPT ![t] = {}]
  /\ edit' = [edit EXCEPT ![t] = NoEdit] /\ someone' = [someone EXCEPT ![t] = FALSE]
  /\ stale' = stale \ {t}

NextMembership == CHOOSE p \in Membership : p \notin created
NextPost       == CHOOSE m \in Post : m \notin created
NewEdits       == {e \in Edit : \A t \in Request : edit[t] # e} \ UNION {edits[r] : r \in Row}

\* mutant: no unique_together
MayRepeat(r) == r = Channel \/ Channel \in present

\* mutant: no foreign key
MayBeOrphan(r) == r \in Membership => present \cap Membership \subseteq {r}

\* the constraints: the foreign key to the channel, and one membership of a user
MayInsert(r) ==
  /\ r = Channel \/ Channel \in present
  /\ r \in Membership => present \cap Membership \subseteq {r}

RowsInit ==
  /\ present = {} /\ content = [r \in Row |-> {}] /\ likes = [m \in Post |-> {}]
  /\ at = [t \in Request |-> "idle"]
  /\ target = [t \in Request |-> NoRow] /\ copy = [t \in Request |-> {}]
  /\ edit = [t \in Request |-> NoEdit] /\ someone = [t \in Request |-> FALSE]
  /\ created = {}
  /\ edits = [r \in Row |-> {}] /\ deleted = {} /\ held = {} /\ crossed = {} /\ stale = {}
  /\ answered = {} /\ alone = {} /\ broken = {}

-----------------------------------------------------------------------------
(* ChannelListCreateView.perform_create *)

CreateChannel ==
  /\ Channel \notin created
  /\ present' = present \cup {Channel} /\ created' = created \cup {Channel}
  /\ UNCHANGED <<content, likes, at, locals, rowPast, postPast>>

-----------------------------------------------------------------------------
(* MembershipListCreateView.perform_create.  Nothing it reads before the insert   *)
(* decides what the insert does: without the channel it fails either way.         *)

AddMembership(p) ==
  /\ p \notin created /\ p = NextMembership
  /\ MayInsert(p) /\ Channel \in present
  /\ present' = present \cup {p} /\ created' = created \cup {p}
  /\ UNCHANGED <<content, likes, at, locals, rowPast, postPast>>

-----------------------------------------------------------------------------
(* MessageViewSet.create *)

\* the channel and its first member are read
StartPost(t, m) ==
  /\ m \notin created /\ m = NextPost
  /\ Channel \in present
  /\ Move(t, "idle", "create")
  /\ target' = [target EXCEPT ![t] = m]
  /\ someone' = [someone EXCEPT ![t] = present \cap Membership # {}]
  /\ created' = created \cup {m}
  /\ UNCHANGED <<tables, copy, edit, rowPast, postPast>>

StorePost(t) ==
  /\ MayInsert(target[t])
  /\ Move(t, "create", "push")
  /\ present' = present \cup {target[t]}
  /\ UNCHANGED <<content, likes, locals, created, rowPast, postPast>>

\* mutant: the first member is read again
PushToSomeoneNow(t) ==
  /\ \/ /\ present \cap Membership # {} /\ answered' = answered \cup {target[t]}
        /\ UNCHANGED alone
     \/ /\ ~someone[t] /\ alone' = alone \cup {target[t]} /\ UNCHANGED answered
     \/ /\ someone[t] /\ present \cap Membership = {} /\ UNCHANGED <<answered, alone>>
  /\ Finish(t, "push")
  /\ UNCHANGED <<tables, created, edits, deleted, held, crossed, broken>>

\* member.user.id: without a member the request fails here, after the message is stored
PushPost(t) ==
  /\ \/ someone[t] /\ answered' = answered \cup {target[t]} /\ UNCHANGED alone
     \/ ~someone[t] /\ alone' = alone \cup {target[t]} /\ UNCHANGED answered
  /\ Finish(t, "push")
  /\ UNCHANGED <<tables, created, edits, deleted, held, crossed, broken>>

-----------------------------------------------------------------------------
(* Updates: ChannelDetailView, MembershipDetailView, MessageViewSet.partial_update. *)

\* mutant: the columns that the request does not name get their defaults
StartBlankEdit(t, r, e) ==
  /\ r \in present /\ e \in NewEdits
  /\ Move(t, "idle", IF r \in Membership THEN "recheck" ELSE "save")
  /\ target' = [target EXCEPT ![t] = r]
  /\ edit' = [edit EXCEPT ![t] = e]
  /\ UNCHANGED <<tables, copy, someone, created, rowPast, postPast>>

\* the row is loaded
StartEdit(t, r, e) ==
  /\ r \in present /\ e \in NewEdits
  /\ Move(t, "idle", IF r \in Membership THEN "recheck" ELSE "save")
  /\ target' = [target EXCEPT ![t] = r] /\ copy' = [copy EXCEPT ![t] = content[r]]
  /\ edit' = [edit EXCEPT ![t] = e]
  /\ UNCHANGED <<tables, someone, created, rowPast, postPast>>

\* MembershipDetailView.perform_update loads the membership again, for its channel, and
\* then saves the first copy
Recheck(t) ==
  /\ target[t] \in present
  /\ Move(t, "recheck", "save")
  /\ UNCHANGED <<tables, locals, created, rowPast, postPast>>

\* save() writes every column, and inserts the row when there is none to update
SaveCopy(t) ==
  LET r == target[t] IN
  /\ r \in present \/ MayInsert(r)
  /\ at[t] = "save"
  /\ present' = present \cup {r}
  /\ content' = [content EXCEPT ![r] = copy[t] \cup {edit[t]}]
  /\ edits' = [edits EXCEPT ![r] = @ \cup {edit[t]}]
  /\ crossed' = IF t \in stale THEN crossed \cup {r} ELSE crossed
  /\ at' = [at EXCEPT ![t] = "idle"]
  /\ target' = [target EXCEPT ![t] = NoRow] /\ copy' = [copy EXCEPT ![t] = {}]
  /\ edit' = [edit EXCEPT ![t] = NoEdit]
  /\ stale' = (stale \cup {s \in Request : target[s] = r}) \ {t}
  /\ UNCHANGED <<likes, someone, created, deleted, held, postPast>>

\* A request that ends without having done its next step: a constraint fails, the
\* membership is gone when it is loaded again, the process dies, or the push cannot be
\* queued.
RequestBreaks(t) ==
  /\ at[t] # "idle"
  /\ broken' = IF at[t] = "push" THEN broken \cup {target[t]} ELSE broken
  /\ Finish(t, at[t])
  /\ UNCHANGED <<tables, created, edits, deleted, held, crossed, answered, alone>>

-----------------------------------------------------------------------------
(* Deletions: one transaction that takes the dependent rows with it. *)

Dependents(r) == IF r = Channel THEN present ELSE {r}

DeleteRow(r) ==
  /\ r \in present
  /\ present' = present \ Dependents(r)
  /\ likes' = [m \in Post |-> IF m \in Dependents(r) THEN {} ELSE likes[m]]
  /\ deleted' = deleted \cup Dependents(r)
  /\ held' = held \cup {x \in Dependents(r) :
                          \E t \in Request : target[t] = x /\ at[t] \in {"recheck", "save"}}
  /\ UNCHANGED <<content, at, locals, created, edits, crossed, stale, postPast>>

-----------------------------------------------------------------------------
\* mutant: the message likes itself
LikeSwapped(m, f) ==
  /\ m \in present
  /\ likes' = [likes EXCEPT ![m] = @ \cup {m}]
  /\ UNCHANGED <<present, content, at, locals, created, rowPast, postPast>>

\* LikeRemoveMessageView.post, delete; adding a like twice is the same as once
Like(m, f) ==
  /\ m \in present
  /\ likes' = [likes EXCEPT ![m] = @ \cup {f}]
  /\ UNCHANGED <<present, content, at, locals, created, rowPast, postPast>>

Unlike(m, f) ==
  /\ m \in present /\ f \in likes[m]
  /\ likes' = [likes EXCEPT ![m] = @ \ {f}]
  /\ UNCHANGED <<present, content, at, locals, created, rowPast, postPast>>

-----------------------------------------------------------------------------
RowsNext ==
  \/ CreateChannel
  \/ \E p \in Membership : AddMembership(p)
  \/ \E r \in Row : DeleteRow(r)
  \/ \E m \in Post, f \in Fan : Like(m, f) \/ Unlike(m, f)
  \/ \E t \in Request :
       \/ StorePost(t) \/ PushPost(t) \/ Recheck(t) \/ SaveCopy(t) \/ RequestBreaks(t)
       \/ \E m \in Post : StartPost(t, m)
       \/ \E r \in Row, e \in Edit : StartEdit(t, r, e)

RowsSpec == RowsInit /\ [][RowsNext]_rowsVars

-----------------------------------------------------------------------------
RowsTypeOK ==
  /\ present \subseteq Row /\ content \in [Row -> SUBSET Edit]
  /\ likes \in [Post -> SUBSET Fan]
  /\ at \in [Request -> Spot] /\ target \in [Request -> Row \cup {NoRow}]
  /\ copy \in [Request -> SUBSET Edit] /\ edit \in [Request -> Edit \cup {NoEdit}]
  /\ someone \in [Request -> BOOLEAN] /\ created \subseteq Row
  /\ edits \in [Row -> SUBSET Edit]
  /\ deleted \subseteq Row /\ held \subseteq Row /\ crossed \subseteq Row
  /\ stale \subseteq Request
  /\ answered \subseteq Post /\ alone \subseteq Post /\ broken \subseteq Post

\* A deleted row comes back only by an update that had it in hand when it was deleted
\* (views.py:120 saves a copy of what line 129 deletes in between), without its likes;
\* and a membership or message that went with its channel only if the channel itself
\* came back in this way.
GoneForGood ==
  \A r \in present :
    /\ r \in deleted => r \in held
    /\ r # Channel => Channel \in present

\* A row shows every edit that was saved, and with it every edit that was answered,
\* whatever updates, deletions and resurrections came between them, unless an update
\* saved over another that was saved after it had loaded the row (views.py:114, 120).
EditKept ==
  \A r \in present \ crossed : content[r] = edits[r]

\* A user has at most one membership of the channel, also when an update brings back
\* a membership that was deleted and given anew.
OneMembership ==
  \A p, q \in present \cap Membership : p = q

\* A message of the channel whose request is over was answered, so that its author
\* does not post it again, unless the channel had no member when the request looked
\* (views.py:98, used at line 104), its push could not be queued or its process died.
PostAnswered ==
  \A m \in present \cap Post :
    \/ m \in answered \cup alone \cup broken
    \/ \E t \in Request : at[t] = "push" /\ target[t] = m
=============================================================================
