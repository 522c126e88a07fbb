-------------------------- MODULE GroupRights_proofs --------------------------
(* Theorems about GroupRights, for any number of updates.                        *)
EXTENDS GroupRights, SequenceTheorems, TLAPS

LEMMA RightsTypeInit == RightsInit => RightsTypeOK
<1> SUFFICES ASSUME RightsInit
             PROVE  RightsTypeOK
  OBVIOUS
<1>1. permission \in Seq(Update \cup {Default})
  BY EmptySeq DEF RightsInit
<1> QED
  BY <1>1 DEF RightsInit, RightsTypeOK, CreationPlace, UpdatePlace

LEMMA RightsTypeStep == RightsTypeOK /\ [RightsNext]_rightsVars => RightsTypeOK'
<1> SUFFICES ASSUME RightsTypeOK, [RightsNext]_rightsVars
             PROVE  RightsTypeOK'
  OBVIOUS
<1> USE DEF RightsTypeOK, CreationPlace, UpdatePlace, There
<1>1. CASE SaveGroup
  BY <1>1 DEF SaveGroup
<1>2. CASE SavePermission
  BY <1>2 DEF SavePermission
<1>3. CASE CreationFails
  BY <1>3 DEF CreationFails
<1>4. CASE DeleteWithRights
  BY <1>4 DEF DeleteWithRights
<1>5. ASSUME NEW u \in Update, StartUpdate(u)
      PROVE  RightsTypeOK'
  BY <1>5 DEF StartUpdate, Step
<1>6. ASSUME NEW u \in Update, FindOne(u)
      PROVE  RightsTypeOK'
  BY <1>6 DEF FindOne, Step
<1>7. ASSUME NEW u \in Update, FindNone(u)
      PROVE  RightsTypeOK'
  <2>1. crossed' \in BOOLEAN
    BY <1>7 DEF FindNone
  <2> QED
    BY <1>7, <2>1 DEF FindNone, Step
<1>8. ASSUME NEW u \in Update, InsertRow(u)
      PROVE  RightsTypeOK'
  BY <1>8 DEF InsertRow, Step
<1>9. ASSUME NEW u \in Update, SaveRow(u)
      PROVE  RightsTypeOK'
  <2>1. CASE row[u] \in 1..Len(permission)
    BY <1>9, <2>1, ExceptSeq DEF SaveRow, Step
  <2>2. CASE row[u] \notin 1..Len(permission)
    <3>1. permission' = permission
      BY <1>9, <2>2, LenProperties DEF SaveRow
    <3> QED
      BY <1>9, <3>1 DEF SaveRow, Step
  <2> QED
    BY <2>1, <2>2
<1>10. ASSUME NEW u \in Update, UpdateFails(u)
       PROVE  RightsTypeOK'
  BY <1>10 DEF UpdateFails, Step
<1>11. CASE UNCHANGED rightsVars
  BY <1>11 DEF rightsVars
<1> QED
  BY <1>1, <1>2, <1>3, <1>4, <1>5, <1>6, <1>7, <1>8, <1>9, <1>10, <1>11 DEF RightsNext

\* Every variable of the permission row and of those who write it has its type.
THEOREM RightsTypeCorrect == RightsSpec => []RightsTypeOK
  BY RightsTypeInit, RightsTypeStep, PTL DEF RightsSpec

-----------------------------------------------------------------------------
(* A group is created first: before that nothing has happened, and there is no    *)
(* creation without a group.                                                     *)
BeforeInv ==
  /\ group = "none" =>
       /\ creation = "save_group" /\ permission = <<>> /\ latest = Default
       /\ \A u \in Update : place[u] = "absent"
  /\ creation = "save_group" => group = "none"

(* An update that is to save has a row in hand that is there, and who was answered *)
(* left one.                                                                     *)
InHandInv ==
  There =>
    /\ \A u \in Update : place[u] = "save" => row[u] \in 1..Len(permission)
    /\ (\E u \in Update : place[u] = "answered") => Len(permission) > 0
    /\ creation = "answered" => Len(permission) > 0

RowInv == RightsTypeOK /\ BeforeInv /\ InHandInv

LEMMA RowInit == RightsInit => RowInv
<1> SUFFICES ASSUME RightsInit
             PROVE  RowInv
  OBVIOUS
<1> QED
  BY RightsTypeInit DEF RightsInit, RowInv, BeforeInv, InHandInv, There

LEMMA RowStep == RowInv /\ [RightsNext]_rightsVars => RowInv'
<1> SUFFICES ASSUME RowInv, [RightsNext]_rightsVars
             PROVE  BeforeInv' /\ InHandInv'
  BY RightsTypeStep DEF RowInv
<1> USE DEF RowInv, RightsTypeOK, BeforeInv, InHandInv, There, Step
<1>1. CASE SaveGroup
  BY <1>1 DEF SaveGroup
<1>2. CASE SavePermission
  BY <1>2 DEF SavePermission
<1>3. CASE CreationFails
  BY <1>3 DEF CreationFails
<1>4. CASE DeleteWithRights
  BY <1>4 DEF DeleteWithRights
<1>5. ASSUME NEW u \in Update, StartUpdate(u)
      PROVE  BeforeInv' /\ InHandInv'
  BY <1>5 DEF StartUpdate
<1>6. ASSUME NEW u \in Update, FindOne(u)
      PROVE  BeforeInv' /\ InHandInv'
  <2>1. row'[u] = 1 /\ \A v \in Update \ {u} : row'[v] = row[v]
    BY <1>6 DEF FindOne
  <2>2. Len(permission') = 1
    BY <1>6 DEF FindOne
  <2>3. /\ \A v \in Update \ {u} : place'[v] = place[v]
        /\ place[u] = "find" /\ place'[u] = "save"
        /\ UNCHANGED <<group, permission, creation, latest>>
    BY <1>6 DEF FindOne
  <2>4. InHandInv'
    <3>1. ASSUME NEW v \in Update, There', place'[v] = "save"
          PROVE  row'[v] \in 1..Len(permission')
      <4>1. CASE v = u
        BY <2>1, <2>2, <4>1
      <4>2. CASE v # u
        BY <2>1, <2>3, <3>1, <4>2
      <4> QED
        BY <4>1, <4>2
    <3>2. Len(permission') > 0
      BY <2>2
    <3> QED
      BY <3>1, <3>2
  <2>5. group # "none"
    BY <2>3
  <2>6. BeforeInv'
    BY <2>3, <2>5
  <2> QED
    BY <2>4, <2>6
<1>7. ASSUME NEW u \in Update, FindNone(u)
      PROVE  BeforeInv' /\ InHandInv'
  BY <1>7 DEF FindNone
<1>8. ASSUME NEW u \in Update, InsertRow(u)
      PROVE  BeforeInv' /\ InHandInv'
  BY <1>8 DEF InsertRow
<1>9. ASSUME NEW u \in Update, SaveRow(u)
      PROVE  BeforeInv' /\ InHandInv'
  <2>1. Len(permission') = Len(permission) /\ Len(permission) > 0
    BY <1>9 DEF SaveRow
  <2> QED
    BY <1>9, <2>1 DEF SaveRow
<1>10. ASSUME NEW u \in Update, UpdateFails(u)
       PROVE  BeforeInv' /\ InHandInv'
  BY <1>10 DEF UpdateFails
<1>11. CASE UNCHANGED rightsVars
  BY <1>11 DEF rightsVars
<1> QED
  BY <1>1, <1>2, <1>3, <1>4, <1>5, <1>6, <1>7, <1>8, <1>9, <1>10, <1>11 DEF RightsNext

\* A group whose creation was answered, or whose permissions were once updated, has a
\* row.
THEOREM RowWhenAnswered == RightsSpec => []RightsPresent
<1>1. RowInv => RightsPresent
  BY DEF RowInv, InHandInv, RightsPresent
<1> QED
  BY <1>1, RowInit, RowStep, PTL DEF RightsSpec

-----------------------------------------------------------------------------
(* Until two insert at once, who is about to insert is alone and there is no row,  *)
(* and the one row that there is later is the one every update saves.            *)
AloneInv ==
  There /\ ~crossed =>
    /\ creation = "save_permission" => permission = <<>>
    /\ \A u \in Update : place[u] = "insert" =>
         /\ permission = <<>> /\ creation # "save_permission"
         /\ \A v \in Update : place[v] = "insert" => v = u

ForceInv == RowInv /\ AloneInv /\ UpdateInForce

LEMMA ForceInit == RightsInit => ForceInv
  BY RowInit DEF RightsInit, ForceInv, AloneInv, UpdateInForce, There

LEMMA ForceStep == ForceInv /\ [RightsNext]_rightsVars => ForceInv'
<1> SUFFICES ASSUME ForceInv, [RightsNext]_rightsVars
             PROVE  AloneInv' /\ UpdateInForce'
  BY RowStep DEF ForceInv
<1> USE RightsAssumption
        DEF ForceInv, RowInv, RightsTypeOK, BeforeInv, InHandInv, AloneInv, UpdateInForce,
            There, Step
<1>1. CASE SaveGroup
  BY <1>1 DEF SaveGroup
<1>2. CASE SavePermission
  BY <1>2 DEF SavePermission
<1>3. CASE CreationFails
  BY <1>3 DEF CreationFails
<1>4. CASE DeleteWithRights
  BY <1>4 DEF DeleteWithRights
<1>5. ASSUME NEW u \in Update, StartUpdate(u)
      PROVE  AloneInv' /\ UpdateInForce'
  BY <1>5 DEF StartUpdate
<1>6. ASSUME NEW u \in Update, FindOne(u)
      PROVE  AloneInv' /\ UpdateInForce'
  BY <1>6 DEF FindOne
<1>7. ASSUME NEW u \in Update, FindNone(u)
      PROVE  AloneInv' /\ UpdateInForce'
  BY <1>7 DEF FindNone, OthersInsert
<1>8. ASSUME NEW u \in Update, InsertRow(u)
      PROVE  AloneInv' /\ UpdateInForce'
  BY <1>8 DEF InsertRow
<1>9. ASSUME NEW u \in Update, SaveRow(u)
      PROVE  AloneInv' /\ UpdateInForce'
  <2>1. Len(permission') = Len(permission) /\ row[u] \in 1..Len(permission)
    BY <1>9 DEF SaveRow
  <2>2. row[u] = 1 => permission'[1] = u
    BY <1>9, <2>1 DEF SaveRow
  <2> QED
    BY <1>9, <2>1, <2>2 DEF SaveRow
<1>10. ASSUME NEW u \in Update, UpdateFails(u)
       PROVE  AloneInv' /\ UpdateInForce'
  BY <1>10 DEF UpdateFails
<1>11. CASE UNCHANGED rightsVars
  BY <1>11 DEF rightsVars
<1> QED
  BY <1>1, <1>2, <1>3, <1>4, <1>5, <1>6, <1>7, <1>8, <1>9, <1>10, <1>11 DEF RightsNext

\* What readers find is what was saved last, and a group has one row, unless two requests
\* that had both found none were inserting at the same time.
THEOREM UpdatesTakeEffect == RightsSpec => []UpdateInForce
<1>1. ForceInv => UpdateInForce
  BY DEF ForceInv
<1> QED
  BY <1>1, ForceInit, ForceStep, PTL DEF RightsSpec
=============================================================================
