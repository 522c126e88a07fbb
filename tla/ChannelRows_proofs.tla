-------------------------- MODULE ChannelRows_proofs --------------------------
(* Theorems about ChannelRows, for any number of rows, edits and requests.       *)
EXTENDS ChannelRows, TLAPS

(* A request that posts has a message in hand, one that updates a row and an edit. *)
HandInv ==
  \A t \in Request :
    /\ at[t] = "idle" => target[t] = NoRow
    /\ at[t] \in {"create", "push"} => target[t] \in Post
    /\ at[t] \in {"recheck", "save"} => target[t] \in Row /\ edit[t] \in Edit

TypeInv == RowsTypeOK /\ HandInv

LEMMA TypeInit == RowsInit => TypeInv
  BY DEF RowsInit, TypeInv, RowsTypeOK, HandInv, Spot

\* what the end of a request does to what it had in hand
LEMMA FinishType ==
  ASSUME TypeInv, NEW t \in Request, NEW from \in Spot, Finish(t, from)
  PROVE  /\ at' \in [Request -> Spot] /\ target' \in [Request -> Row \cup {NoRow}]
         /\ copy' \in [Request -> SUBSET Edit] /\ edit' \in [Request -> Edit \cup {NoEdit}]
         /\ someone' \in [Request -> BOOLEAN] /\ stale' \subseteq Request
         /\ HandInv'
<1> USE DEF TypeInv, RowsTypeOK, Finish, Move
<1>1. /\ at' \in [Request -> Spot] /\ target' \in [Request -> Row \cup {NoRow}]
      /\ copy' \in [Request -> SUBSET Edit] /\ edit' \in [Request -> Edit \cup {NoEdit}]
      /\ stale' \subseteq Request
  BY DEF Spot
<1>2. someone' \in [Request -> BOOLEAN]
  OBVIOUS
<1>3. /\ at'[t] = "idle" /\ target'[t] = NoRow
      /\ \A s \in Request \ {t} : at'[s] = at[s] /\ target'[s] = target[s] /\ edit'[s] = edit[s]
  BY DEF Spot
<1>4. HandInv'
  BY <1>3 DEF HandInv
<1> QED
  BY <1>1, <1>2, <1>4

LEMMA TypeStep == TypeInv /\ [RowsNext]_rowsVars => TypeInv'
<1> SUFFICES ASSUME TypeInv, [RowsNext]_rowsVars
             PROVE  TypeInv'
  OBVIOUS
<1> USE DEF tables, locals, rowPast, postPast
<1>0. CASE CreateChannel
  BY <1>0 DEF CreateChannel, TypeInv, RowsTypeOK, HandInv, Row
<1>1. ASSUME NEW p \in Membership, AddMembership(p)
      PROVE  TypeInv'
  BY <1>1 DEF AddMembership, TypeInv, RowsTypeOK, HandInv, Row
<1>2. ASSUME NEW r \in Row, DeleteRow(r)
      PROVE  TypeInv'
  <2>1. Dependents(r) \subseteq Row
    BY <1>2 DEF Dependents, TypeInv, RowsTypeOK
  <2> QED
    BY <1>2, <2>1 DEF DeleteRow, TypeInv, RowsTypeOK, HandInv
<1>3. ASSUME NEW m \in Post, NEW f \in Fan, Like(m, f)
      PROVE  TypeInv'
  BY <1>3 DEF Like, TypeInv, RowsTypeOK, HandInv
<1>4. ASSUME NEW m \in Post, NEW f \in Fan, Unlike(m, f)
      PROVE  TypeInv'
  BY <1>4 DEF Unlike, TypeInv, RowsTypeOK, HandInv
<1>5. ASSUME NEW t \in Request, NEW m \in Post, StartPost(t, m)
      PROVE  TypeInv'
  <2>1. /\ at' \in [Request -> Spot] /\ target' \in [Request -> Row \cup {NoRow}]
        /\ created' \subseteq Row
    BY <1>5 DEF StartPost, Move, TypeInv, RowsTypeOK, Row, Spot
  <2>2. someone' \in [Request -> BOOLEAN]
    <3>1. (present \cap Membership # {}) \in BOOLEAN
      OBVIOUS
    <3> QED
      BY <1>5, <3>1 DEF StartPost, TypeInv, RowsTypeOK
  <2>3. HandInv'
    BY <1>5 DEF StartPost, Move, TypeInv, RowsTypeOK, HandInv
  <2> QED
    BY <1>5, <2>1, <2>2, <2>3 DEF StartPost, TypeInv, RowsTypeOK
<1>6. ASSUME NEW t \in Request, StorePost(t)
      PROVE  TypeInv'
  BY <1>6 DEF StorePost, Move, TypeInv, RowsTypeOK, HandInv, Row, Spot
<1>7. ASSUME NEW t \in Request, PushPost(t)
      PROVE  TypeInv'
  <2>1. at[t] = "push" /\ target[t] \in Post
    BY <1>7 DEF PushPost, Finish, Move, TypeInv, HandInv
  <2>2. answered' \subseteq Post /\ alone' \subseteq Post
    BY <1>7, <2>1 DEF PushPost, TypeInv, RowsTypeOK
  <2>3. Finish(t, "push") /\ "push" \in Spot
    BY <1>7 DEF PushPost, Spot
  <2> QED
    BY <1>7, <2>2, <2>3, FinishType DEF PushPost, TypeInv, RowsTypeOK
<1>8. ASSUME NEW t \in Request, NEW r \in Row, NEW e \in Edit, StartEdit(t, r, e)
      PROVE  TypeInv'
  <2>1. \E to \in {"recheck", "save"} : at' = [at EXCEPT ![t] = to]
    BY <1>8 DEF StartEdit, Move
  <2>2. at' \in [Request -> Spot] /\ HandInv'
    BY <1>8, <2>1 DEF StartEdit, TypeInv, RowsTypeOK, HandInv, Spot
  <2> QED
    BY <1>8, <2>2 DEF StartEdit, TypeInv, RowsTypeOK
<1>9. ASSUME NEW t \in Request, Recheck(t)
      PROVE  TypeInv'
  BY <1>9 DEF Recheck, Move, TypeInv, RowsTypeOK, HandInv, Spot
<1>10. ASSUME NEW t \in Request, SaveCopy(t)
       PROVE  TypeInv'
  <2>1. target[t] \in Row /\ edit[t] \in Edit
    BY <1>10 DEF SaveCopy, TypeInv, HandInv
  <2>2. /\ present' \subseteq Row /\ content' \in [Row -> SUBSET Edit]
        /\ edits' \in [Row -> SUBSET Edit]
        /\ crossed' \subseteq Row /\ stale' \subseteq Request
    BY <1>10, <2>1 DEF SaveCopy, TypeInv, RowsTypeOK
  <2>3. /\ at' \in [Request -> Spot] /\ target' \in [Request -> Row \cup {NoRow}]
        /\ copy' \in [Request -> SUBSET Edit] /\ edit' \in [Request -> Edit \cup {NoEdit}]
        /\ HandInv'
    BY <1>10 DEF SaveCopy, TypeInv, RowsTypeOK, HandInv, Spot
  <2> QED
    BY <1>10, <2>2, <2>3 DEF SaveCopy, TypeInv, RowsTypeOK
<1>11. ASSUME NEW t \in Request, RequestBreaks(t)
       PROVE  TypeInv'
  <2>1. Finish(t, at[t]) /\ at[t] \in Spot
    BY <1>11 DEF RequestBreaks, TypeInv, RowsTypeOK
  <2>2. broken' \subseteq Post
    BY <1>11 DEF RequestBreaks, TypeInv, RowsTypeOK, HandInv
  <2> QED
    BY <1>11, <2>1, <2>2, FinishType DEF RequestBreaks, TypeInv, RowsTypeOK
<1>12. CASE UNCHANGED rowsVars
  BY <1>12 DEF rowsVars, TypeInv, RowsTypeOK, HandInv
<1> QED
  BY <1>0, <1>1, <1>2, <1>3, <1>4, <1>5, <1>6, <1>7, <1>8, <1>9, <1>10, <1>11, <1>12
     DEF RowsNext

\* Every variable of a channel's rows and of the requests about them has its type.
THEOREM RowsTypeCorrect == RowsSpec => []RowsTypeOK
<1>1. TypeInv => RowsTypeOK
  BY DEF TypeInv
<1> QED
  BY <1>1, TypeInit, TypeStep, PTL DEF RowsSpec

\* what every end of a request leaves alone
LEMMA FinishOthers ==
  ASSUME TypeInv, NEW t \in Request, NEW from \in Spot, Finish(t, from)
  PROVE  /\ at[t] = from /\ at'[t] = "idle" /\ target'[t] = NoRow
         /\ stale' = stale \ {t}
         /\ \A s \in Request \ {t} : at'[s] = at[s] /\ target'[s] = target[s]
                                     /\ copy'[s] = copy[s] /\ edit'[s] = edit[s]
  BY DEF Finish, Move, TypeInv, RowsTypeOK

-----------------------------------------------------------------------------
\* A user has at most one membership: whatever inserts one, an update that brings a row
\* back included, is held to the constraint.
THEOREM MembershipUnique == RowsSpec => []OneMembership
<1> DEFINE IInv == TypeInv /\ OneMembership
<1>1. RowsInit => IInv
  BY TypeInit DEF RowsInit, OneMembership
<1>2. IInv /\ [RowsNext]_rowsVars => IInv'
  <2> SUFFICES ASSUME IInv, [RowsNext]_rowsVars
               PROVE  OneMembership'
    BY TypeStep
  <2>1. \/ present' \subseteq present
        \/ \E r \in Row : MayInsert(r) /\ present' = present \cup {r}
    <3>1. ASSUME NEW t \in Request, SaveCopy(t)
          PROVE  present' \subseteq present
                 \/ \E r \in Row : MayInsert(r) /\ present' = present \cup {r}
      BY <3>1 DEF SaveCopy, TypeInv, HandInv
    <3>2. ASSUME NEW t \in Request, StorePost(t)
          PROVE  \E r \in Row : MayInsert(r) /\ present' = present \cup {r}
      BY <3>2 DEF StorePost, Move, TypeInv, HandInv, Row
    <3>3. ASSUME NEW p \in Membership, AddMembership(p)
          PROVE  \E r \in Row : MayInsert(r) /\ present' = present \cup {r}
      BY <3>3 DEF AddMembership, Row
    <3>4. CASE UNCHANGED rowsVars
      BY <3>4 DEF rowsVars, tables
    <3>5. CASE CreateChannel
      BY <3>5, RowsAssumption DEF CreateChannel, MayInsert, Row
    <3>6. ASSUME NEW r \in Row, DeleteRow(r)
          PROVE  present' \subseteq present
      BY <3>6 DEF DeleteRow
    <3>7. ASSUME NEW m \in Post, NEW f \in Fan, Like(m, f) \/ Unlike(m, f)
          PROVE  present' \subseteq present
      BY <3>7 DEF Like, Unlike
    <3>8. ASSUME NEW t \in Request, NEW m \in Post, StartPost(t, m)
          PROVE  present' \subseteq present
      BY <3>8 DEF StartPost, tables
    <3>9. ASSUME NEW t \in Request, NEW r \in Row, NEW e \in Edit, StartEdit(t, r, e)
          PROVE  present' \subseteq present
      BY <3>9 DEF StartEdit, tables
    <3>10. ASSUME NEW t \in Request, PushPost(t) \/ Recheck(t) \/ RequestBreaks(t)
           PROVE  present' \subseteq present
      BY <3>10 DEF PushPost, Recheck, RequestBreaks, tables
    <3> QED
      BY <3>1, <3>2, <3>3, <3>4, <3>5, <3>6, <3>7, <3>8, <3>9, <3>10 DEF RowsNext
  <2>2. ASSUME NEW r \in Row, MayInsert(r), present' = present \cup {r}
        PROVE  OneMembership'
    BY <2>2 DEF OneMembership, MayInsert
  <2> QED
    BY <2>1, <2>2 DEF OneMembership
<1>3. IInv => OneMembership
  OBVIOUS
<1> QED
  BY <1>1, <1>2, <1>3, PTL DEF RowsSpec

-----------------------------------------------------------------------------
(* A message is accounted for when its author was answered, or could not be.       *)
Accounted(m) ==
  \/ m \in answered \cup alone \cup broken
  \/ \E t \in Request : at[t] = "push" /\ target[t] = m

Updates(t, r) == at[t] \in {"recheck", "save"} /\ target[t] = r

(* Messages that are stored are accounted for, and so are those that an update may *)
(* bring back.                                                                   *)
AccountInv ==
  \A m \in Post : (m \in present \/ \E t \in Request : Updates(t, m)) => Accounted(m)

LEMMA AccountStep == TypeInv /\ AccountInv /\ [RowsNext]_rowsVars => AccountInv'
<1> SUFFICES ASSUME TypeInv, AccountInv, [RowsNext]_rowsVars,
                    NEW m \in Post,
                    m \in present' \/ \E t \in Request : Updates(t, m)'
             PROVE  Accounted(m)'
  BY DEF AccountInv
<1> USE DEF tables, locals, rowPast, postPast
<1>0. CASE CreateChannel
  BY <1>0, RowsAssumption DEF CreateChannel, AccountInv, Accounted, Updates
<1>1. ASSUME NEW p \in Membership, AddMembership(p)
      PROVE  Accounted(m)'
  BY <1>1, RowsAssumption DEF AddMembership, AccountInv, Accounted, Updates
<1>2. ASSUME NEW r \in Row, DeleteRow(r)
      PROVE  Accounted(m)'
  BY <1>2 DEF DeleteRow, AccountInv, Accounted, Updates
<1>3. ASSUME NEW n \in Post, NEW f \in Fan, Like(n, f) \/ Unlike(n, f)
      PROVE  Accounted(m)'
  BY <1>3 DEF Like, Unlike, AccountInv, Accounted, Updates
<1>4. ASSUME NEW t \in Request, NEW n \in Post, StartPost(t, n)
      PROVE  Accounted(m)'
  <2>1. /\ at[t] = "idle" /\ at'[t] = "create" /\ present' = present
        /\ \A s \in Request \ {t} : at'[s] = at[s] /\ target'[s] = target[s]
    BY <1>4 DEF StartPost, Move, TypeInv, RowsTypeOK
  <2>2. Accounted(m)
    BY <2>1 DEF AccountInv, Updates
  <2> QED
    BY <1>4, <2>1, <2>2 DEF StartPost, Accounted
<1>5. ASSUME NEW t \in Request, StorePost(t)
      PROVE  Accounted(m)'
  <2>1. /\ at[t] = "create" /\ at'[t] = "push" /\ target' = target
        /\ present' = present \cup {target[t]}
        /\ \A s \in Request \ {t} : at'[s] = at[s]
    BY <1>5 DEF StorePost, Move, TypeInv, RowsTypeOK
  <2>2. CASE m = target[t]
    BY <2>1, <2>2 DEF Accounted
  <2>3. CASE m # target[t]
    <3>1. Accounted(m)
      BY <2>1, <2>3 DEF AccountInv, Updates
    <3> QED
      BY <1>5, <2>1, <3>1 DEF StorePost, Accounted
  <2> QED
    BY <2>2, <2>3
<1>6. ASSUME NEW t \in Request, PushPost(t)
      PROVE  Accounted(m)'
  <2>1. Finish(t, "push") /\ "push" \in Spot
    BY <1>6 DEF PushPost, Spot
  <2>2. Accounted(m)
    BY <1>6, <2>1, FinishOthers DEF PushPost, AccountInv, Updates
  <2>3. target[t] \in answered' \cup alone'
    BY <1>6 DEF PushPost
  <2> QED
    BY <1>6, <2>1, <2>2, <2>3, FinishOthers DEF PushPost, Accounted
<1>7. ASSUME NEW t \in Request, NEW r \in Row, NEW e \in Edit, StartEdit(t, r, e)
      PROVE  Accounted(m)'
  <2>1. /\ at[t] = "idle" /\ target'[t] = r /\ r \in present /\ present' = present
        /\ \A s \in Request \ {t} : at'[s] = at[s] /\ target'[s] = target[s]
    BY <1>7 DEF StartEdit, Move, TypeInv, RowsTypeOK
  <2>2. Accounted(m)
    BY <2>1 DEF AccountInv, Updates
  <2> QED
    BY <1>7, <2>1, <2>2 DEF StartEdit, Accounted
<1>8. ASSUME NEW t \in Request, Recheck(t)
      PROVE  Accounted(m)'
  <2>1. /\ at[t] = "recheck" /\ target' = target /\ present' = present
        /\ \A s \in Request \ {t} : at'[s] = at[s]
    BY <1>8 DEF Recheck, Move, TypeInv, RowsTypeOK
  <2>2. Accounted(m)
    BY <2>1 DEF AccountInv, Updates
  <2> QED
    BY <1>8, <2>1, <2>2 DEF Recheck, Accounted
<1>9. ASSUME NEW t \in Request, SaveCopy(t)
      PROVE  Accounted(m)'
  <2>1. /\ at[t] = "save" /\ at'[t] = "idle" /\ present' = present \cup {target[t]}
        /\ \A s \in Request \ {t} : at'[s] = at[s] /\ target'[s] = target[s]
    BY <1>9 DEF SaveCopy, TypeInv, RowsTypeOK
  <2>2. Accounted(m)
    BY <2>1 DEF AccountInv, Updates
  <2> QED
    BY <1>9, <2>1, <2>2 DEF SaveCopy, Accounted
<1>10. ASSUME NEW t \in Request, RequestBreaks(t)
       PROVE  Accounted(m)'
  <2>1. Finish(t, at[t]) /\ at[t] \in Spot
    BY <1>10 DEF RequestBreaks, TypeInv, RowsTypeOK
  <2>2. Accounted(m)
    BY <1>10, <2>1, FinishOthers DEF RequestBreaks, AccountInv, Updates
  <2>3. at[t] = "push" => target[t] \in broken'
    BY <1>10 DEF RequestBreaks
  <2>4. broken \subseteq broken'
    BY <1>10 DEF RequestBreaks
  <2> QED
    BY <1>10, <2>1, <2>2, <2>3, <2>4, FinishOthers DEF RequestBreaks, Accounted
<1>11. CASE UNCHANGED rowsVars
  BY <1>11 DEF rowsVars, AccountInv, Accounted, Updates
<1> QED
  BY <1>0, <1>1, <1>2, <1>3, <1>4, <1>5, <1>6, <1>7, <1>8, <1>9, <1>10, <1>11 DEF RowsNext

\* Whoever posts is answered, unless there was nobody to push to or the request broke off:
\* no stored message is one its author has reason to post again, for any other reason.
THEOREM PostsAnswered == RowsSpec => []PostAnswered
<1> DEFINE IInv == TypeInv /\ AccountInv
<1>1. RowsInit => IInv
  <2> SUFFICES ASSUME RowsInit
               PROVE  AccountInv
    BY TypeInit
  <2> QED
    BY DEF RowsInit, AccountInv, Updates
<1>2. IInv /\ [RowsNext]_rowsVars => IInv'
  BY TypeStep, AccountStep
<1>3. IInv => PostAnswered
  BY DEF AccountInv, Accounted, PostAnswered
<1> QED
  BY <1>1, <1>2, <1>3, PTL DEF RowsSpec

-----------------------------------------------------------------------------
(* A row that no update crossed shows what was saved of it, stored or not, and so  *)
(* does every copy of it that is not outdated.                                   *)
KeptInv ==
  /\ \A r \in Row \ crossed : content[r] = edits[r]
  /\ \A t \in Request \ stale, r \in Row \ crossed :
       Updates(t, r) => copy[t] = edits[r]

LEMMA KeptStep == TypeInv /\ KeptInv /\ [RowsNext]_rowsVars => KeptInv'
<1> SUFFICES ASSUME TypeInv, KeptInv, [RowsNext]_rowsVars
             PROVE  KeptInv'
  OBVIOUS
<1> USE DEF tables, locals, rowPast, postPast
<1>1. ASSUME UNCHANGED <<content, at, target, copy, edits, crossed, stale>>
      PROVE  KeptInv'
  BY <1>1 DEF KeptInv, Updates
<1>2. ASSUME NEW t \in Request, NEW from \in Spot, Finish(t, from),
             UNCHANGED <<content, edits, crossed>>
      PROVE  KeptInv'
  <2>1. ASSUME NEW s \in Request \ stale', NEW r \in Row \ crossed', Updates(s, r)'
        PROVE  copy'[s] = edits'[r]
    <3>1. s # t
      BY <1>2, <2>1, FinishOthers DEF Updates
    <3> QED
      BY <1>2, <2>1, <3>1, FinishOthers DEF KeptInv, Updates
  <2> QED
    BY <1>2, <2>1 DEF KeptInv
<1>3. ASSUME NEW t \in Request, NEW m \in Post, StartPost(t, m)
      PROVE  KeptInv'
  <2>1. /\ at'[t] = "create"
        /\ \A s \in Request \ {t} : at'[s] = at[s] /\ target'[s] = target[s]
    BY <1>3 DEF StartPost, Move, TypeInv, RowsTypeOK
  <2> QED
    BY <1>3, <2>1 DEF StartPost, KeptInv, Updates
<1>4. ASSUME NEW t \in Request, StorePost(t) \/ Recheck(t)
      PROVE  KeptInv'
  <2>1. /\ at'[t] \in {"recheck", "save"} => at[t] \in {"recheck", "save"}
        /\ \A s \in Request \ {t} : at'[s] = at[s]
        /\ UNCHANGED <<content, target, copy, edits, crossed, stale>>
    BY <1>4 DEF StorePost, Recheck, Move, TypeInv, RowsTypeOK
  <2> QED
    BY <2>1 DEF KeptInv, Updates
<1>5. ASSUME NEW t \in Request, NEW r \in Row, NEW e \in Edit, StartEdit(t, r, e)
      PROVE  KeptInv'
  <2>1. /\ target'[t] = r /\ copy'[t] = content[r]
        /\ \A s \in Request \ {t} :
             at'[s] = at[s] /\ target'[s] = target[s] /\ copy'[s] = copy[s]
        /\ UNCHANGED <<content, edits, crossed, stale>>
    BY <1>5 DEF StartEdit, Move, TypeInv, RowsTypeOK
  <2> QED
    BY <2>1 DEF KeptInv, Updates
<1>6. ASSUME NEW t \in Request, SaveCopy(t)
      PROVE  KeptInv'
  <2> DEFINE r == target[t]
  <2>1. r \in Row /\ at[t] = "save"
    BY <1>6 DEF SaveCopy, TypeInv, HandInv
  <2>2. /\ content'[r] = copy[t] \cup {edit[t]} /\ edits'[r] = edits[r] \cup {edit[t]}
        /\ \A x \in Row \ {r} : content'[x] = content[x] /\ edits'[x] = edits[x]
    BY <1>6, <2>1 DEF SaveCopy, TypeInv, RowsTypeOK
  <2>3. /\ at'[t] = "idle"
        /\ \A s \in Request \ {t} :
             at'[s] = at[s] /\ target'[s] = target[s] /\ copy'[s] = copy[s]
    BY <1>6 DEF SaveCopy, TypeInv, RowsTypeOK
  <2>4. /\ crossed \subseteq crossed'
        /\ t \in stale => r \in crossed'
    BY <1>6 DEF SaveCopy
  <2>5. \A s \in Request \ {t} : s \in stale \/ target[s] = r => s \in stale'
    BY <1>6 DEF SaveCopy
  <2>6. ASSUME NEW x \in Row \ crossed'
        PROVE  content'[x] = edits'[x]
    <3>1. CASE x = r
      <4>1. t \notin stale /\ r \notin crossed
        BY <2>4, <2>6, <3>1
      <4>2. copy[t] = edits[r]
        BY <2>1, <4>1 DEF KeptInv, Updates
      <4> QED
        BY <2>2, <3>1, <4>2
    <3>2. CASE x # r
      BY <2>2, <2>4, <3>2 DEF KeptInv
    <3> QED
      BY <3>1, <3>2
  <2>7. ASSUME NEW s \in Request \ stale', NEW x \in Row \ crossed', Updates(s, x)'
        PROVE  copy'[s] = edits'[x]
    <3>1. s # t
      BY <2>3, <2>7 DEF Updates
    <3>2. x # r /\ s \notin stale
      BY <2>3, <2>5, <2>7, <3>1 DEF Updates
    <3>3. copy[s] = edits[x]
      BY <2>3, <2>4, <2>7, <3>1, <3>2 DEF KeptInv, Updates
    <3> QED
      BY <2>2, <2>3, <3>1, <3>2, <3>3
  <2> QED
    BY <2>6, <2>7 DEF KeptInv
<1>7. ASSUME NEW t \in Request, PushPost(t)
      PROVE  KeptInv'
  <2>1. Finish(t, "push") /\ "push" \in Spot
    BY <1>7 DEF PushPost, Spot
  <2> QED
    BY <1>2, <1>7, <2>1 DEF PushPost
<1>8. ASSUME NEW t \in Request, RequestBreaks(t)
      PROVE  KeptInv'
  <2>1. Finish(t, at[t]) /\ at[t] \in Spot
    BY <1>8 DEF RequestBreaks, TypeInv, RowsTypeOK
  <2> QED
    BY <1>2, <1>8, <2>1 DEF RequestBreaks
<1>9. CASE CreateChannel
  BY <1>1, <1>9 DEF CreateChannel
<1>10. ASSUME NEW p \in Membership, AddMembership(p)
       PROVE  KeptInv'
  BY <1>1, <1>10 DEF AddMembership
<1>11. ASSUME NEW r \in Row, DeleteRow(r)
       PROVE  KeptInv'
  BY <1>1, <1>11 DEF DeleteRow
<1>12. ASSUME NEW m \in Post, NEW f \in Fan, Like(m, f) \/ Unlike(m, f)
       PROVE  KeptInv'
  BY <1>1, <1>12 DEF Like, Unlike
<1>13. CASE UNCHANGED rowsVars
  BY <1>1, <1>13 DEF rowsVars
<1> QED
  BY <1>3, <1>4, <1>5, <1>6, <1>7, <1>8, <1>9, <1>10, <1>11, <1>12, <1>13 DEF RowsNext

\* Every edit that was saved can be seen in its row, through deletions and resurrections,
\* unless an update saved over one that came after it had loaded the row.
THEOREM EditsKept == RowsSpec => []EditKept
<1> DEFINE IInv == TypeInv /\ KeptInv
<1>1. RowsInit => IInv
  <2> SUFFICES ASSUME RowsInit
               PROVE  KeptInv
    BY TypeInit
  <2> QED
    BY DEF RowsInit, KeptInv, Updates
<1>2. IInv /\ [RowsNext]_rowsVars => IInv'
  BY TypeStep, KeptStep
<1>3. IInv => EditKept
  BY DEF TypeInv, RowsTypeOK, KeptInv, EditKept
<1> QED
  BY <1>1, <1>2, <1>3, PTL DEF RowsSpec

-----------------------------------------------------------------------------
(* What a request is about was given out, and a message that is still to be stored *)
(* belongs to one request and was never there.                                   *)
OwnInv ==
  /\ present \cup deleted \subseteq created
  /\ \A t \in Request : target[t] # NoRow => target[t] \in created
  /\ \A t \in Request : at[t] = "create" =>
       /\ target[t] \notin present \cup deleted
       /\ \A s \in Request \ {t} : target[s] # target[t]

(* What an update has in hand is stored, or was deleted under its hands.           *)
HeldInv ==
  \A t \in Request, r \in Row : Updates(t, r) => r \in present \cup held

BackInv == OwnInv /\ HeldInv /\ GoneForGood

LEMMA BackStep == TypeInv /\ BackInv /\ [RowsNext]_rowsVars => BackInv'
<1> SUFFICES ASSUME TypeInv, BackInv, [RowsNext]_rowsVars
             PROVE  BackInv'
  OBVIOUS
<1> USE DEF tables, locals, rowPast, postPast
<1>1. ASSUME UNCHANGED <<present, at, target, created, deleted, held>>
      PROVE  BackInv'
  BY <1>1 DEF BackInv, OwnInv, HeldInv, GoneForGood, Updates
<1>2. ASSUME NEW t \in Request, NEW from \in Spot, Finish(t, from),
             UNCHANGED <<present, created, deleted, held>>
      PROVE  BackInv'
  <2>1. OwnInv'
    <3>1. \A s \in Request : at'[s] = "create" => s # t /\ at[s] = "create"
      BY <1>2, FinishOthers
    <3>2. \A s \in Request : at[s] = "create" => target[s] # NoRow
      BY RowsAssumption DEF TypeInv, HandInv
    <3> QED
      BY <1>2, <3>1, <3>2, FinishOthers DEF BackInv, OwnInv
  <2>2. HeldInv'
    BY <1>2, FinishOthers DEF BackInv, HeldInv, Updates
  <2> QED
    BY <1>2, <2>1, <2>2 DEF BackInv, GoneForGood
<1>3. ASSUME NEW t \in Request, NEW m \in Post, StartPost(t, m)
      PROVE  BackInv'
  <2>1. /\ at'[t] = "create" /\ target'[t] = m /\ m \notin created /\ m # NoRow
        /\ \A s \in Request \ {t} : at'[s] = at[s] /\ target'[s] = target[s]
        /\ created' = created \cup {m} /\ UNCHANGED <<present, deleted, held>>
    BY <1>3, RowsAssumption DEF StartPost, Move, TypeInv, RowsTypeOK
  <2>2. OwnInv'
    BY <2>1 DEF BackInv, OwnInv
  <2>3. HeldInv'
    BY <2>1 DEF BackInv, HeldInv, Updates
  <2> QED
    BY <2>1, <2>2, <2>3 DEF BackInv, GoneForGood
<1>4. ASSUME NEW t \in Request, StorePost(t)
      PROVE  BackInv'
  <2>1. /\ at[t] = "create" /\ at'[t] = "push" /\ present' = present \cup {target[t]}
        /\ \A s \in Request \ {t} : at'[s] = at[s]
        /\ target[t] \in Post /\ MayInsert(target[t])
        /\ UNCHANGED <<target, created, deleted, held>>
    BY <1>4 DEF StorePost, Move, TypeInv, RowsTypeOK, HandInv
  <2>2. target[t] \in created /\ target[t] # Channel /\ Channel \in present
    BY <2>1, RowsAssumption DEF BackInv, OwnInv, MayInsert
  <2>3. OwnInv'
    BY <2>1, <2>2 DEF BackInv, OwnInv
  <2>4. HeldInv'
    BY <2>1 DEF BackInv, HeldInv, Updates
  <2>5. GoneForGood'
    BY <2>1, <2>2 DEF BackInv, OwnInv, GoneForGood
  <2> QED
    BY <2>3, <2>4, <2>5 DEF BackInv
<1>5. ASSUME NEW t \in Request, NEW r \in Row, NEW e \in Edit, StartEdit(t, r, e)
      PROVE  BackInv'
  <2>1. /\ r \in present /\ at'[t] \in {"recheck", "save"} /\ target'[t] = r
        /\ \A s \in Request \ {t} : at'[s] = at[s] /\ target'[s] = target[s]
        /\ UNCHANGED <<present, created, deleted, held>>
    BY <1>5 DEF StartEdit, Move, TypeInv, RowsTypeOK
  <2>2. OwnInv'
    BY <2>1 DEF BackInv, OwnInv
  <2>3. HeldInv'
    BY <2>1 DEF BackInv, HeldInv, Updates
  <2> QED
    BY <2>1, <2>2, <2>3 DEF BackInv, GoneForGood
<1>6. ASSUME NEW t \in Request, Recheck(t)
      PROVE  BackInv'
  <2>1. /\ at[t] = "recheck" /\ at'[t] = "save"
        /\ \A s \in Request \ {t} : at'[s] = at[s]
        /\ UNCHANGED <<present, target, created, deleted, held>>
    BY <1>6 DEF Recheck, Move, TypeInv, RowsTypeOK
  <2> QED
    BY <2>1 DEF BackInv, OwnInv, HeldInv, GoneForGood, Updates
<1>7. ASSUME NEW t \in Request, SaveCopy(t)
      PROVE  BackInv'
  <2>1. /\ at[t] = "save" /\ at'[t] = "idle" /\ target'[t] = NoRow
        /\ target[t] \in Row /\ target[t] # NoRow
        /\ present' = present \cup {target[t]}
        /\ target[t] \in present \/ MayInsert(target[t])
        /\ \A s \in Request \ {t} : at'[s] = at[s] /\ target'[s] = target[s]
        /\ UNCHANGED <<created, deleted, held>>
    BY <1>7, RowsAssumption DEF SaveCopy, TypeInv, RowsTypeOK, HandInv, Row
  <2>2. target[t] \in created /\ target[t] \in present \cup held
    BY <2>1 DEF BackInv, OwnInv, HeldInv, Updates
  <2>3. OwnInv'
    <3>1. \A s \in Request : at'[s] = "create" => at[s] = "create" /\ s # t
                                                 /\ target[s] # NoRow
      BY <2>1, RowsAssumption DEF TypeInv, HandInv
    <3> QED
      BY <2>1, <2>2, <3>1 DEF BackInv, OwnInv
  <2>4. HeldInv'
    BY <2>1 DEF BackInv, HeldInv, Updates
  <2>5. GoneForGood'
    BY <2>1, <2>2 DEF BackInv, GoneForGood, MayInsert
  <2> QED
    BY <2>3, <2>4, <2>5 DEF BackInv
<1>8. ASSUME NEW t \in Request, PushPost(t)
      PROVE  BackInv'
  <2>1. Finish(t, "push") /\ "push" \in Spot
    BY <1>8 DEF PushPost, Spot
  <2> QED
    BY <1>2, <1>8, <2>1 DEF PushPost
<1>9. ASSUME NEW t \in Request, RequestBreaks(t)
      PROVE  BackInv'
  <2>1. Finish(t, at[t]) /\ at[t] \in Spot
    BY <1>9 DEF RequestBreaks, TypeInv, RowsTypeOK
  <2> QED
    BY <1>2, <1>9, <2>1 DEF RequestBreaks
<1>10. CASE CreateChannel
  <2>1. /\ Channel \notin created
        /\ present' = present \cup {Channel} /\ created' = created \cup {Channel}
        /\ UNCHANGED <<at, target, deleted, held>>
    BY <1>10 DEF CreateChannel
  <2>2. \A t \in Request : at[t] = "create" => target[t] # Channel
    BY RowsAssumption DEF TypeInv, HandInv
  <2> QED
    BY <2>1, <2>2 DEF BackInv, OwnInv, HeldInv, GoneForGood, Updates
<1>11. ASSUME NEW p \in Membership, AddMembership(p)
       PROVE  BackInv'
  <2>1. /\ p \notin created /\ Channel \in present
        /\ present' = present \cup {p} /\ created' = created \cup {p}
        /\ UNCHANGED <<at, target, deleted, held>>
    BY <1>11 DEF AddMembership
  <2>2. \A t \in Request : at[t] = "create" => target[t] # p
    BY RowsAssumption DEF TypeInv, HandInv
  <2> QED
    BY <2>1, <2>2 DEF BackInv, OwnInv, HeldInv, GoneForGood, Updates
<1>12. ASSUME NEW r \in Row, DeleteRow(r)
       PROVE  BackInv'
  <2>1. /\ r \in present /\ present' = present \ Dependents(r)
        /\ deleted' = deleted \cup Dependents(r)
        /\ held' = held \cup {x \in Dependents(r) : \E t \in Request : Updates(t, x)}
        /\ UNCHANGED <<at, target, created>>
    BY <1>12 DEF DeleteRow, Updates
  <2>2. Dependents(r) \subseteq present /\ (r = Channel => present' = {})
    BY <2>1 DEF Dependents
  <2>3. OwnInv'
    BY <2>1, <2>2 DEF BackInv, OwnInv
  <2>4. HeldInv'
    BY <2>1 DEF BackInv, HeldInv, Updates
  <2>5. GoneForGood'
    BY <2>1, <2>2 DEF BackInv, GoneForGood, Dependents
  <2> QED
    BY <2>3, <2>4, <2>5 DEF BackInv
<1>13. ASSUME NEW m \in Post, NEW f \in Fan, Like(m, f) \/ Unlike(m, f)
       PROVE  BackInv'
  BY <1>1, <1>13 DEF Like, Unlike
<1>14. CASE UNCHANGED rowsVars
  BY <1>1, <1>14 DEF rowsVars
<1> QED
  BY <1>3, <1>4, <1>5, <1>6, <1>7, <1>8, <1>9, <1>10, <1>11, <1>12, <1>13, <1>14 DEF RowsNext

\* A deleted row comes back only by an update that had it in hand when it was deleted, and
\* nothing is there without its channel.
THEOREM DeletedForGood == RowsSpec => []GoneForGood
<1> DEFINE IInv == TypeInv /\ BackInv
<1>1. RowsInit => IInv
  <2> SUFFICES ASSUME RowsInit
               PROVE  BackInv
    BY TypeInit
  <2> QED
    BY DEF RowsInit, BackInv, OwnInv, HeldInv, GoneForGood, Updates
<1>2. IInv /\ [RowsNext]_rowsVars => IInv'
  BY TypeStep, BackStep
<1>3. IInv => GoneForGood
  BY DEF BackInv
<1> QED
  BY <1>1, <1>2, <1>3, PTL DEF RowsSpec
=============================================================================
