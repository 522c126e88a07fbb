--------------------------- MODULE UserRow_proofs ---------------------------
(* Theorems about UserRow, for any number of requests and sockets.  Every        *)
(* property of a row with such writers has to be one of the instances they hold  *)
(* as well, since any of them may become the row.                                *)
EXTENDS UserRow, TLAPS

(* What setting columns of an instance gives: a record of the same type, the set  *)
(* columns set and the others kept.                                              *)
LEMMA NewUserIsRow == NewUser \in Columns
  BY DEF NewUser, Columns

LEMMA SetVerified ==
  \A c \in Columns : LET d == [c EXCEPT !.verified = TRUE]
                     IN  d \in Columns /\ d.verified /\ d.twofa = c.twofa
                         /\ d.otp_secret = c.otp_secret
  BY DEF Columns

LEMMA SetOnline ==
  \A c \in Columns, b \in BOOLEAN :
    LET d == [c EXCEPT !.online = b]
    IN  d \in Columns /\ d.online = b /\ d.verified = c.verified /\ d.twofa = c.twofa
        /\ d.otp_secret = c.otp_secret
  BY DEF Columns

LEMMA SetProfile ==
  \A c \in Columns, v \in Text \cup {Null} :
    LET d == [c EXCEPT !.profile = v]
    IN  d \in Columns /\ d.verified = c.verified /\ d.twofa = c.twofa
        /\ d.otp_secret = c.otp_secret
  BY DEF Columns

LEMMA Set2FA ==
  \A c \in Columns, b \in BOOLEAN, s \in Text \cup {Null} :
    LET d == [c EXCEPT !.twofa = b, !.otp_secret = s]
    IN  d \in Columns /\ d.verified = c.verified /\ d.twofa = b /\ d.otp_secret = s
  BY DEF Columns

LEMMA TypeInit == Init => TypeOK
<1> SUFFICES ASSUME Init
             PROVE  TypeOK
  OBVIOUS
<1>1. \A p \in Writer : pc[p] = IF p \in Request THEN "idle" ELSE "closed"
  BY DEF Init
<1>2. \A k \in Socket : k \notin Request
  BY RowAssumption
<1>3. row \in Columns /\ copy \in [Writer -> Columns]
  BY NewUserIsRow DEF Init
<1> QED
  BY <1>1, <1>2, <1>3 DEF Init, TypeOK, Writer, RequestPlace, SocketPlace

\* the part of TypeOK about places
PlacesOK ==
  /\ pc \in [Writer -> RequestPlace \cup SocketPlace]
  /\ \A r \in Request : pc[r] \in RequestPlace
  /\ \A k \in Socket : pc[k] \in SocketPlace

LEMMA PlacesStep == TypeOK /\ [Next]_vars => PlacesOK'
<1> SUFFICES ASSUME TypeOK, [Next]_vars
             PROVE  PlacesOK'
  OBVIOUS
<1>1. ASSUME NEW r \in Request, HttpStep(r)
      PROVE  \E to \in RequestPlace : pc' = [pc EXCEPT ![r] = to]
  BY <1>1 DEF HttpStep, VerifyLoad, VerifySave, VerifyAnswer, Authenticate, PatchProfile,
     Enable2FA, Disable2FA, SaveInView, OtherView, TrackActivity, Goto, RequestPlace
<1>2. ASSUME NEW k \in Socket, SocketStep(k)
      PROVE  \E to \in SocketPlace : pc' = [pc EXCEPT ![k] = to]
  BY <1>2 DEF SocketStep, Connect, Refuse, Die, SaveStatus, StatusOn, StatusOnAgain,
     StatusOff, StatusOffAgain, Goto, SocketPlace
<1>3. ASSUME NEW r \in Request, NEW to \in RequestPlace, pc' = [pc EXCEPT ![r] = to]
      PROVE  PlacesOK'
  BY <1>3, RowAssumption DEF TypeOK, PlacesOK, Writer
<1>4. ASSUME NEW k \in Socket, NEW to \in SocketPlace, pc' = [pc EXCEPT ![k] = to]
      PROVE  PlacesOK'
  BY <1>4, RowAssumption DEF TypeOK, PlacesOK, Writer
<1>5. CASE UNCHANGED vars
  BY <1>5 DEF vars, TypeOK, PlacesOK
<1> QED
  BY <1>1, <1>2, <1>3, <1>4, <1>5 DEF Next

LEMMA TypeStep == TypeOK /\ [Next]_vars => TypeOK'
<1> SUFFICES ASSUME TypeOK, [Next]_vars
             PROVE  TypeOK'
  OBVIOUS
<1> DEFINE RowsOK == row \in Columns /\ copy \in [Writer -> Columns]
<1>1. RowsOK /\ \A p \in Writer : copy[p] \in Columns
  BY DEF TypeOK
<1>2. ASSUME NEW p \in Writer, NEW c \in Columns, SaveAll(p, c)
      PROVE  RowsOK'
  BY <1>1, <1>2 DEF SaveAll
<1>3. ASSUME NEW p \in Writer, Load(p) \/ Forget(p), UNCHANGED row
      PROVE  RowsOK'
  BY <1>1, <1>3, NewUserIsRow DEF Load, Forget
<1>4. RowsOK'
  <2>1. ASSUME NEW r \in Request, HttpStep(r)
        PROVE  RowsOK'
    <3>1. r \in Writer
      BY DEF Writer
    <3>2. CASE VerifyLoad(r) \/ Authenticate(r) \/ VerifyAnswer(r)
      BY <1>3, <3>1, <3>2 DEF VerifyLoad, Authenticate, VerifyAnswer
    <3>3. CASE VerifySave(r)
      BY <1>1, <1>2, <3>1, <3>3, SetVerified DEF VerifySave
    <3>4. ASSUME NEW v \in Text \cup {Null}, PatchProfile(r, v)
          PROVE  RowsOK'
      BY <1>1, <1>2, <3>1, <3>4, SetProfile DEF PatchProfile, SaveInView
    <3>5. ASSUME NEW s \in Text, Enable2FA(r, s)
          PROVE  RowsOK'
      BY <1>1, <1>2, <3>1, <3>5, Set2FA DEF Enable2FA, SaveInView
    <3>6. CASE Disable2FA(r)
      BY <1>1, <1>2, <3>1, <3>6, Set2FA DEF Disable2FA, SaveInView
    <3>7. CASE OtherView(r)
      BY <1>1, <3>7 DEF OtherView
    <3>8. CASE TrackActivity(r)
      BY <1>1, <3>1, <3>8, SetOnline, NewUserIsRow DEF TrackActivity, Forget
    <3> QED
      BY <2>1, <3>2, <3>3, <3>4, <3>5, <3>6, <3>7, <3>8 DEF HttpStep
  <2>2. ASSUME NEW k \in Socket, SocketStep(k)
        PROVE  RowsOK'
    <3>1. k \in Writer
      BY DEF Writer
    <3>2. CASE Connect(k) \/ Die(k)
      BY <1>3, <3>1, <3>2 DEF Connect, Die
    <3>3. CASE Refuse(k)
      BY <1>1, <3>3 DEF Refuse
    <3>4. CASE StatusOn(k) \/ StatusOff(k)
      BY <1>1, <1>2, <3>1, <3>4, SetOnline DEF StatusOn, StatusOff
    <3>5. CASE StatusOnAgain(k)
      BY <1>1, <1>2, <3>1, <3>5 DEF StatusOnAgain
    <3>6. CASE StatusOffAgain(k)
      BY <1>1, <3>1, <3>6, NewUserIsRow DEF StatusOffAgain, Forget
    <3> QED
      BY <2>2, <3>2, <3>3, <3>4, <3>5, <3>6 DEF SocketStep, SaveStatus
  <2>3. CASE UNCHANGED vars
    BY <1>1, <2>3 DEF vars
  <2> QED
    BY <2>1, <2>2, <2>3 DEF Next
<1>5. sessions' \in BOOLEAN /\ spoiled' \subseteq Socket
  BY DEF Next, HttpStep, VerifyLoad, VerifySave, VerifyAnswer, Authenticate, PatchProfile,
     Enable2FA, Disable2FA, SaveInView, OtherView, TrackActivity, SocketStep, Connect, Refuse,
     Die, SaveStatus, StatusOn, StatusOnAgain, StatusOff, StatusOffAgain, vars, TypeOK
<1> QED
  BY <1>4, <1>5, PlacesStep DEF TypeOK, PlacesOK

(* Every reachable state of the row, its writers' instances and their places is   *)
(* well typed.                                                                    *)
THEOREM TypeCorrect == Spec => []TypeOK
  BY TypeInit, TypeStep, PTL DEF Spec

-----------------------------------------------------------------------------
(* A verified user stays verified. *)

\* a process that works with a token holds an instance loaded after the
\* verification; only a verification holds an older one, and sets the column
WorksWithToken(p) ==
  pc[p] \in {"view", "touch", "connecting", "on", "open", "refused", "off"}

VerifiedInv ==
  /\ sessions => row.verified
  /\ \A p \in Writer : pc[p] = "tokens" => row.verified
  /\ \A p \in Writer : WorksWithToken(p) => copy[p].verified /\ row.verified

LEMMA VerifiedInit == Init => VerifiedInv
  BY DEF Init, VerifiedInv, WorksWithToken

LEMMA VerifiedStep ==
  ASSUME TypeOK, VerifiedInv, [Next]_vars
  PROVE  VerifiedInv' /\ (row.verified => row'.verified)
<1> USE DEF TypeOK, VerifiedInv, WorksWithToken, Goto, Writer
<1>1. ASSUME NEW r \in Request, VerifyLoad(r)
      PROVE  VerifiedInv' /\ (row.verified => row'.verified)
  BY <1>1 DEF VerifyLoad, Load
<1>2. ASSUME NEW r \in Request, VerifySave(r)
      PROVE  VerifiedInv' /\ (row.verified => row'.verified)
  BY <1>2 DEF VerifySave, SaveAll, Columns
<1>3. ASSUME NEW r \in Request, VerifyAnswer(r)
      PROVE  VerifiedInv' /\ (row.verified => row'.verified)
  BY <1>3 DEF VerifyAnswer, Forget
<1>4. ASSUME NEW r \in Request, Authenticate(r)
      PROVE  VerifiedInv' /\ (row.verified => row'.verified)
  BY <1>4 DEF Authenticate, Load
<1>5. ASSUME NEW r \in Request, NEW instance \in Columns, SaveInView(r, instance),
             instance.verified = copy[r].verified
      PROVE  VerifiedInv' /\ (row.verified => row'.verified)
  BY <1>5 DEF SaveInView, SaveAll
<1>6. ASSUME NEW r \in Request, OtherView(r)
      PROVE  VerifiedInv' /\ (row.verified => row'.verified)
  BY <1>6 DEF OtherView
<1>7. ASSUME NEW r \in Request, TrackActivity(r)
      PROVE  VerifiedInv' /\ (row.verified => row'.verified)
  BY <1>7 DEF TrackActivity, Forget, Columns
<1>8. ASSUME NEW k \in Socket, Connect(k) \/ Refuse(k) \/ Die(k)
      PROVE  VerifiedInv' /\ (row.verified => row'.verified)
  BY <1>8 DEF Connect, Refuse, Die, Load, Forget
<1>9. ASSUME NEW k \in Socket, SaveStatus(k)
      PROVE  VerifiedInv' /\ (row.verified => row'.verified)
  BY <1>9 DEF SaveStatus, StatusOn, StatusOnAgain, StatusOff, StatusOffAgain, SaveAll, Forget,
     Columns
<1>10. CASE UNCHANGED vars
  BY <1>10 DEF vars
<1>11. ASSUME NEW r \in Request,
              \/ \E v \in Text \cup {Null} : PatchProfile(r, v)
              \/ \E s \in Text : Enable2FA(r, s)
              \/ Disable2FA(r)
       PROVE  \E instance \in Columns :
                SaveInView(r, instance) /\ instance.verified = copy[r].verified
  <2>1. copy[r] \in Columns
    OBVIOUS
  <2>2. ASSUME NEW v \in Text \cup {Null}, PatchProfile(r, v)
        PROVE  \E instance \in Columns :
                 SaveInView(r, instance) /\ instance.verified = copy[r].verified
    <3> DEFINE d == [copy[r] EXCEPT !.profile = v]
    <3>1. d \in Columns /\ d.verified = copy[r].verified
      BY <2>1, SetProfile
    <3>2. SaveInView(r, d)
      BY <2>2 DEF PatchProfile
    <3> HIDE DEF d
    <3> QED
      BY <3>1, <3>2
  <2>3. ASSUME NEW s \in Text, Enable2FA(r, s)
        PROVE  \E instance \in Columns :
                 SaveInView(r, instance) /\ instance.verified = copy[r].verified
    <3> DEFINE d == [copy[r] EXCEPT !.twofa = TRUE, !.otp_secret = s]
    <3>1. d \in Columns /\ d.verified = copy[r].verified
      BY <2>1, Set2FA
    <3>2. SaveInView(r, d)
      BY <2>3 DEF Enable2FA
    <3> HIDE DEF d
    <3> QED
      BY <3>1, <3>2
  <2>4. CASE Disable2FA(r)
    <3> DEFINE d == [copy[r] EXCEPT !.twofa = FALSE, !.otp_secret = Null]
    <3>1. d \in Columns /\ d.verified = copy[r].verified
      BY <2>1, Set2FA
    <3>2. SaveInView(r, d)
      BY <2>4 DEF Disable2FA
    <3> HIDE DEF d
    <3> QED
      BY <3>1, <3>2
  <2> QED
    BY <1>11, <2>2, <2>3, <2>4
<1> QED
  BY <1>1, <1>2, <1>3, <1>4, <1>5, <1>6, <1>7, <1>8, <1>9, <1>10, <1>11
  DEF Next, HttpStep, SocketStep

(* However requests and sockets overwrite one another, no save takes a            *)
(* verification back (VerifyView, apps/user/views.py:78).                         *)
THEOREM VerifiedForGood == Spec => VerifiedStays
<1>1. Init => TypeOK /\ VerifiedInv
  BY TypeInit, VerifiedInit
<1>2. TypeOK /\ VerifiedInv /\ [Next]_vars => (TypeOK /\ VerifiedInv)'
  BY TypeStep, VerifiedStep
<1>3. TypeOK /\ VerifiedInv /\ [Next]_vars => [row.verified => row'.verified]_row
  BY VerifiedStep
<1> QED
  BY <1>1, <1>2, <1>3, PTL DEF Spec, VerifiedStays

-----------------------------------------------------------------------------
(* The two columns of 2FA are never torn. *)

Whole(c) == c.twofa <=> c.otp_secret # Null

\* each instance is whole, since any of them may be saved
WholeInv == Whole(row) /\ \A p \in Writer : Whole(copy[p])

LEMMA WholeInit == Init => WholeInv
  BY DEF Init, NewUser, WholeInv, Whole

LEMMA WholeStep ==
  ASSUME TypeOK, WholeInv, [Next]_vars
  PROVE  WholeInv'
<1>1. row \in Columns /\ copy \in [Writer -> Columns] /\ \A p \in Writer : copy[p] \in Columns
  BY DEF TypeOK
<1>2. Whole(NewUser)
  BY DEF NewUser, Whole
<1>3. ASSUME NEW p \in Writer, NEW c \in Columns, Whole(c), SaveAll(p, c)
      PROVE  WholeInv'
  BY <1>1, <1>3 DEF SaveAll, WholeInv, Whole
<1>4. ASSUME NEW p \in Writer, Load(p) \/ Forget(p), UNCHANGED row
      PROVE  WholeInv'
  BY <1>1, <1>2, <1>4 DEF Load, Forget, WholeInv, Whole
<1>5. ASSUME NEW r \in Request, HttpStep(r)
      PROVE  WholeInv'
  <2>1. r \in Writer /\ copy[r] \in Columns /\ Whole(copy[r])
    BY <1>1 DEF Writer, WholeInv
  <2>2. CASE VerifyLoad(r) \/ Authenticate(r) \/ VerifyAnswer(r)
    BY <1>4, <2>1, <2>2 DEF VerifyLoad, Authenticate, VerifyAnswer
  <2>3. CASE VerifySave(r)
    BY <1>3, <2>1, <2>3, SetVerified DEF VerifySave, Whole
  <2>4. ASSUME NEW v \in Text \cup {Null}, PatchProfile(r, v)
        PROVE  WholeInv'
    BY <1>3, <2>1, <2>4, SetProfile DEF PatchProfile, SaveInView, Whole
  <2>5. ASSUME NEW s \in Text, Enable2FA(r, s)
        PROVE  WholeInv'
    BY <1>3, <2>1, <2>5, Set2FA, RowAssumption DEF Enable2FA, SaveInView, Whole
  <2>6. CASE Disable2FA(r)
    BY <1>3, <2>1, <2>6, Set2FA DEF Disable2FA, SaveInView, Whole
  <2>7. CASE OtherView(r)
    BY <2>7 DEF OtherView, WholeInv, Whole
  <2>8. CASE TrackActivity(r)
    <3>1. Whole(row')
      BY <1>1, <2>8, SetOnline DEF TrackActivity, WholeInv, Whole
    <3>2. \A p \in Writer : Whole(copy'[p])
      BY <1>1, <1>2, <2>8 DEF TrackActivity, Forget, WholeInv, Whole
    <3> QED
      BY <3>1, <3>2 DEF WholeInv, Whole
  <2> QED
    BY <1>5, <2>2, <2>3, <2>4, <2>5, <2>6, <2>7, <2>8 DEF HttpStep
<1>6. ASSUME NEW k \in Socket, SocketStep(k)
      PROVE  WholeInv'
  <2>1. k \in Writer /\ copy[k] \in Columns /\ Whole(copy[k])
    BY <1>1 DEF Writer, WholeInv
  <2>2. CASE Connect(k) \/ Die(k)
    BY <1>4, <2>1, <2>2 DEF Connect, Die
  <2>3. CASE Refuse(k)
    BY <2>3 DEF Refuse, WholeInv, Whole
  <2>4. ASSUME NEW b \in BOOLEAN, SaveAll(k, [copy[k] EXCEPT !.online = b])
        PROVE  WholeInv'
    <3> DEFINE d == [copy[k] EXCEPT !.online = b]
    <3>1. d \in Columns /\ Whole(d)
      BY <2>1, SetOnline DEF Whole
    <3> HIDE DEF d
    <3> QED
      BY <1>3, <2>1, <2>4, <3>1 DEF d
  <2>5. CASE StatusOnAgain(k)
    BY <1>3, <2>1, <2>5 DEF StatusOnAgain
  <2>6. CASE StatusOffAgain(k)
    BY <1>1, <1>2, <2>1, <2>6 DEF StatusOffAgain, Forget, WholeInv, Whole
  <2> QED
    BY <1>6, <2>2, <2>3, <2>4, <2>5, <2>6
    DEF SocketStep, SaveStatus, StatusOn, StatusOff
<1>7. CASE UNCHANGED vars
  BY <1>7 DEF vars, WholeInv, Whole
<1> QED
  BY <1>5, <1>6, <1>7 DEF Next

(* Writers that hold instances of different ages never leave 2FA on without a       *)
(* secret, nor a secret without 2FA (Enable2FAView, apps/user/views.py:233).        *)
THEOREM TwoFactorNeverTorn == Spec => []TwoFactorWhole
<1>1. Init => TypeOK /\ WholeInv
  BY TypeInit, WholeInit
<1>2. TypeOK /\ WholeInv /\ [Next]_vars => (TypeOK /\ WholeInv)'
  BY TypeStep, WholeStep
<1>3. WholeInv => TwoFactorWhole
  BY DEF WholeInv, Whole, TwoFactorWhole
<1> QED
  BY <1>1, <1>2, <1>3, PTL DEF Spec

-----------------------------------------------------------------------------
(* An open socket's user is online. *)

Touching == \E r \in Request : pc[r] = "touch"

\* the second save of update_user_status brings the flag back on
OnlineInv ==
  /\ OpenIsOnline
  /\ \A k \in Socket : pc[k] = "on" => copy[k].online

LEMMA OnlineInit == Init => OnlineInv
  BY RowAssumption DEF Init, OnlineInv, OpenIsOnline, Writer

\* a step that does not touch the sockets, their instances and what spoils them,
\* and leaves the row or has a middleware still to run
LEMMA OnlineKept ==
  ASSUME TypeOK, OnlineInv,
         \A k \in Socket : pc'[k] = pc[k] /\ copy'[k] = copy[k],
         spoiled' = spoiled \/ spoiled' = Socket,
         Touching' \/ row'.online \/ spoiled' = Socket \/ (row' = row /\ (Touching => Touching'))
  PROVE  OnlineInv'
  BY DEF OnlineInv, OpenIsOnline, Touching

LEMMA OnlineStep ==
  ASSUME TypeOK, OnlineInv, [Next]_vars
  PROVE  OnlineInv'
<1>1. row \in Columns /\ \A p \in Writer : copy[p] \in Columns
  BY DEF TypeOK
<1>2. ASSUME NEW r \in Request, HttpStep(r)
      PROVE  OnlineInv'
  <2>1. \A k \in Socket : k # r
    BY RowAssumption
  <2>2. \A k \in Socket : pc'[k] = pc[k] /\ copy'[k] = copy[k]
    BY <1>2, <2>1 DEF HttpStep, VerifyLoad, VerifySave, VerifyAnswer, Authenticate,
       PatchProfile, Enable2FA, Disable2FA, SaveInView, OtherView, TrackActivity, Goto, Load,
       SaveAll, Forget, TypeOK, Writer
  <2>3. spoiled' = spoiled \/ spoiled' = Socket
    BY <1>2 DEF HttpStep, VerifyLoad, VerifySave, VerifyAnswer, Authenticate,
       PatchProfile, Enable2FA, Disable2FA, SaveInView, OtherView, TrackActivity
  <2>4. CASE VerifySave(r)
    BY <2>2, <2>3, <2>4, OnlineKept DEF VerifySave
  <2>5. CASE TrackActivity(r)
    BY <1>1, <2>2, <2>3, <2>5, OnlineKept, SetOnline DEF TrackActivity
  <2>6. ASSUME Goto(r, "view", "touch")
        PROVE  OnlineInv'
    <3>1. Touching'
      BY <2>6 DEF Goto, Touching, TypeOK, Writer
    <3> QED
      BY <2>2, <2>3, <3>1, OnlineKept
  <2>7. ASSUME row' = row, NEW from, NEW to, from # "touch", Goto(r, from, to)
        PROVE  OnlineInv'
    <3>1. Touching => Touching'
      BY <2>7 DEF Goto, Touching, TypeOK, Writer
    <3> QED
      BY <2>2, <2>3, <2>7, <3>1, OnlineKept
  <2> QED
    BY <1>2, <2>4, <2>5, <2>6, <2>7 DEF HttpStep, VerifyLoad, VerifyAnswer, Authenticate,
       PatchProfile, Enable2FA, Disable2FA, SaveInView, OtherView
<1>3. ASSUME NEW k \in Socket, SocketStep(k)
      PROVE  OnlineInv'
  <2>1. k \in Writer /\ copy[k] \in Columns /\ Socket \subseteq Writer
    BY <1>1 DEF Writer
  <2>2. \A r \in Request : pc'[r] = pc[r]
    BY <1>3, RowAssumption DEF SocketStep, Connect, Refuse, Die, SaveStatus, StatusOn,
       StatusOnAgain, StatusOff, StatusOffAgain, Goto, TypeOK, Writer
  <2>3. Touching' <=> Touching
    BY <2>2 DEF Touching
  <2>4. CASE Connect(k)
    BY <2>1, <2>2, <2>4 DEF Connect, Goto, Load, OnlineInv, OpenIsOnline, TypeOK
  <2>5. CASE Refuse(k)
    BY <2>1, <2>2, <2>5 DEF Refuse, Goto, OnlineInv, OpenIsOnline, TypeOK
  <2>6. CASE Die(k)
    BY <2>1, <2>2, <2>6 DEF Die, Forget, OnlineInv, OpenIsOnline, TypeOK
  <2>7. CASE StatusOn(k)
    <3>1. row'.online /\ copy' = [copy EXCEPT ![k] = row']
      BY <2>1, <2>7, SetOnline DEF StatusOn, SaveAll
    <3> QED
      BY <2>1, <2>7, <3>1 DEF StatusOn, Goto, OnlineInv, OpenIsOnline, TypeOK
  <2>8. CASE StatusOnAgain(k)
    <3>1. row'.online /\ copy' = copy
      BY <2>1, <2>8 DEF StatusOnAgain, SaveAll, Goto, OnlineInv, TypeOK
    <3> QED
      BY <2>1, <2>8, <3>1 DEF StatusOnAgain, Goto, OnlineInv, OpenIsOnline, TypeOK
  <2>9. CASE StatusOff(k)
    BY <2>1, <2>9 DEF StatusOff, SaveAll, OnlineInv, OpenIsOnline, TypeOK
  <2>10. CASE StatusOffAgain(k)
    BY <2>1, <2>10 DEF StatusOffAgain, Goto, Forget, OnlineInv, OpenIsOnline, TypeOK
  <2> QED
    BY <1>3, <2>4, <2>5, <2>6, <2>7, <2>8, <2>9, <2>10 DEF SocketStep, SaveStatus
<1>4. CASE UNCHANGED vars
  BY <1>4 DEF vars, OnlineInv, OpenIsOnline
<1> QED
  BY <1>2, <1>3, <1>4 DEF Next

(* An edit with an instance older than the socket never leaves the user of an     *)
(* open socket offline (TrackLoginActivityMiddleware, apps/user/middleware.py:15). *)
THEOREM OnlineWhileOpen == Spec => []OpenIsOnline
<1>1. Init => TypeOK /\ OnlineInv
  BY TypeInit, OnlineInit
<1>2. TypeOK /\ OnlineInv /\ [Next]_vars => (TypeOK /\ OnlineInv)'
  BY TypeStep, OnlineStep
<1>3. OnlineInv => OpenIsOnline
  BY DEF OnlineInv
<1> QED
  BY <1>1, <1>2, <1>3, PTL DEF Spec
=============================================================================
