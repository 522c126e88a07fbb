------------------------------ MODULE GroupRights ------------------------------
(* The permission row of one group (apps/group/views.py): a group is created in   *)
(* two saves, an update finds or creates the row and saves it, each a query of    *)
(* its own, and no constraint keeps a group from having two rows.  Readers take   *)
(* the first row by key: GroupRoom has them, with the updates as one step each.   *)
(* The two rights of a row are abstracted to the update that wrote them.          *)
EXTENDS Naturals, Sequences

CONSTANTS
  Update,   \* PATCH requests of the owner; each is made once, with rights of its own
  Default   \* the rights of a new row

ASSUME RightsAssumption == Default \notin Update

VARIABLES
  group,      \* the row of Group: "none", "there" or "deleted"
  permission, \* the rows of GroupPermission, in the order of their keys
  creation,   \* where the POST that creates the group stands
  place, row, \* where update u stands, the row it has in hand (0: none)
  latest,     \* history: the update that saved last, or Default
  crossed     \* history: two requests were about to insert at the same time

rightsVars == <<group, permission, creation, place, row, latest, crossed>>

CreationPlace == {"save_group", "save_permission", "answered", "failed"}
UpdatePlace   == {"absent", "find", "insert", "save", "answered", "failed"}

There       == group = "there"
Step(u, from, to) == place[u] = from /\ place' = [place EXCEPT ![u] = to]

\* update u, or with Default the creation, is not the only one about to insert
OthersInsert(u) ==
  \/ creation = "save_permission"
  \/ \E v \in Update \ {u} : place[v] = "insert"

RightsInit ==
  /\ group = "none" /\ permission = <<>>
  /\ creation = "save_group"
  /\ place = [u \in Update |-> "absent"] /\ row = [u \in Update |-> 0]
  /\ latest = Default /\ crossed = FALSE

-----------------------------------------------------------------------------
(* GroupListCreateView.perform_create *)

SaveGroup ==
  /\ creation = "save_group" /\ creation' = "save_permission"
  /\ group' = "there"
  /\ UNCHANGED <<permission, place, row, latest, crossed>>

\* mutant: the group is answered without a permission row
SavePermissionForgotten ==
  /\ creation = "save_permission" /\ There
  /\ creation' = "answered"
  /\ UNCHANGED <<group, permission, place, row, latest, crossed>>

SavePermission ==
  /\ creation = "save_permission" /\ There
  /\ creation' = "answered"
  /\ permission' = Append(permission, Default)
  /\ UNCHANGED <<group, place, row, latest, crossed>>

\* the owner deleted the group he found in his list, or the process dies
CreationFails ==
  /\ creation = "save_permission" /\ creation' = "failed"
  /\ UNCHANGED <<group, permission, place, row, latest, crossed>>

-----------------------------------------------------------------------------
(* GroupPermissionsUpdateView.patch *)

StartUpdate(u) ==
  /\ There
  /\ Step(u, "absent", "find")
  /\ UNCHANGED <<group, permission, creation, row, latest, crossed>>

\* mutant: create in the place of get_or_create
FindOneCreates(u) ==
  /\ Len(permission) = 1
  /\ Step(u, "find", "insert")
  /\ crossed' = (crossed \/ OthersInsert(u))
  /\ UNCHANGED <<group, permission, creation, row, latest>>

\* get_or_create: get() finds the row
FindOne(u) ==
  /\ Len(permission) = 1
  /\ Step(u, "find", "save")
  /\ row' = [row EXCEPT ![u] = 1]
  /\ UNCHANGED <<group, permission, creation, latest, crossed>>

FindNone(u) ==
  /\ permission = <<>>
  /\ Step(u, "find", "insert")
  /\ crossed' = (crossed \/ OthersInsert(u))
  /\ UNCHANGED <<group, permission, creation, row, latest>>

InsertRow(u) ==
  /\ There
  /\ Step(u, "insert", "save")
  /\ permission' = Append(permission, Default)
  /\ row' = [row EXCEPT ![u] = Len(permission) + 1]
  /\ UNCHANGED <<group, creation, latest, crossed>>

\* both columns are set, save() writes the row it has in hand
SaveRow(u) ==
  /\ There
  /\ Step(u, "save", "answered")
  /\ permission' = [permission EXCEPT ![row[u]] = u]
  /\ latest' = u
  /\ UNCHANGED <<group, creation, row, crossed>>

\* get() finds several rows and raises; the group is gone and the foreign key fails
\* (save() turns into an insert when it updates no row); the process dies
UpdateFails(u) ==
  /\ place[u] \in {"find", "insert", "save"}
  /\ Step(u, place[u], "failed")
  /\ UNCHANGED <<group, permission, creation, row, latest, crossed>>

\* GroupDetailView.perform_destroy cascades to the rows
DeleteWithRights ==
  /\ There
  /\ group' = "deleted" /\ permission' = <<>>
  /\ UNCHANGED <<creation, place, row, latest, crossed>>

-----------------------------------------------------------------------------
RightsNext ==
  \/ SaveGroup \/ SavePermission \/ CreationFails \/ DeleteWithRights
  \/ \E u \in Update : \/ StartUpdate(u) \/ FindOne(u) \/ FindNone(u)
                       \/ InsertRow(u) \/ SaveRow(u) \/ UpdateFails(u)

RightsSpec == RightsInit /\ [][RightsNext]_rightsVars

-----------------------------------------------------------------------------
RightsTypeOK ==
  /\ group \in {"none", "there", "deleted"}
  /\ permission \in Seq(Update \cup {Default})
  /\ creation \in CreationPlace
  /\ place \in [Update -> UpdatePlace] /\ row \in [Update -> Nat]
  /\ latest \in Update \cup {Default} /\ crossed \in BOOLEAN

\* What readers find (GroupPermission.objects.filter(...).first(), in
\* group/consumers.py:163 and group/permissions.py:12) are the rights of the update
\* that was saved last, and a group has one row, unless two requests that had both
\* found no row were inserting at the same time: then an update may be answered and
\* stay without effect, and every later one fails.
UpdateInForce ==
  There /\ ~crossed =>
    /\ Len(permission) <= 1
    /\ latest # Default => permission # <<>> /\ permission[1] = latest

\* A group whose creation was answered, or whose permissions were once updated, has a
\* row, without which every message to it raises (group/consumers.py:164): only a
\* creation that broke off between its two saves leaves it without.
RightsPresent ==
  There /\ permission = <<>> =>
    /\ creation # "answered"
    /\ \A u \in Update : place[u] # "answered"
=============================================================================
