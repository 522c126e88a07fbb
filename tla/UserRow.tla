------------------------------- MODULE UserRow -------------------------------
(* One row of the User table and everyone who writes it: the verification of     *)
(* the number, requests with a token (apps/user/views.py, and the middleware      *)
(* after them, apps/user/middleware.py), and the sockets of the user              *)
(* (update_user_status in apps/chat/consumers.py and apps/group/consumers.py).    *)
(* A writer works on the instance it loaded at its start.  save() writes every    *)
(* column of that instance; save(update_fields=...) of the middleware writes      *)
(* only the columns it names.                                                     *)

CONSTANTS
  Request,  \* threads that serve HTTP requests, one at a time
  Socket,   \* WebSocket connections of the user
  Text,     \* values of a profile field, and of a secret
  Null      \* the database's NULL

ASSUME RowAssumption ==
  /\ Null \notin Text
  /\ Request \cap Socket = {}

VARIABLES
  row,       \* the row
  copy,      \* copy[p]: the instance p loaded
  pc,        \* where the work of each request and socket stands
  sessions,  \* TRUE once tokens of the user are in a client's hands
  \* history variable
  spoiled    \* sockets that another one's leaving, or a verification, overtook

vars == <<row, copy, pc, sessions, spoiled>>

Writer == Request \cup Socket

\* the columns the writers differ in; profile stands for the five a PATCH sets
Columns == [verified   : BOOLEAN,
            profile    : Text \cup {Null},
            twofa      : BOOLEAN,
            otp_secret : Text \cup {Null},
            online     : BOOLEAN]

\* the row SignUpSerializer.create makes: every other column has its default
NewUser == [verified |-> FALSE, profile |-> Null, twofa |-> FALSE,
            otp_secret |-> Null, online |-> FALSE]

RequestPlace == {"idle", "verify", "tokens", "view", "touch"}
SocketPlace  == {"closed", "connecting", "on", "open", "refused", "off"}

Init ==
  /\ row = NewUser
  /\ copy = [p \in Writer |-> NewUser]
  /\ pc = [p \in Writer |-> IF p \in Request THEN "idle" ELSE "closed"]
  /\ sessions = FALSE
  /\ spoiled = {}

----------------------------------------------------------------------------
Goto(p, from, to) ==
  /\ pc[p] = from
  /\ pc' = [pc EXCEPT ![p] = to]

\* an instance is garbage when the work on it is over
Forget(p) == copy' = [copy EXCEPT ![p] = NewUser]

Load(p) == copy' = [copy EXCEPT ![p] = row]

\* set attributes of the instance, then save() all its columns
SaveAll(p, instance) ==
  /\ copy' = [copy EXCEPT ![p] = instance]
  /\ row' = instance

-----------------------------------------------------------------------------
(* VerifyView.patch, once the code is checked                                    *)

\* mutant: the tokens are out before the row is saved
VerifyLoadAnswers(r) ==
  /\ ~row.verified
  /\ Goto(r, "idle", "verify")
  /\ Load(r)
  /\ sessions' = TRUE
  /\ UNCHANGED <<row, spoiled>>

\* the instance is loaded and must not be verified
VerifyLoad(r) ==
  /\ ~row.verified
  /\ Goto(r, "idle", "verify")
  /\ Load(r)
  /\ UNCHANGED <<row, sessions, spoiled>>

VerifySave(r) ==
  /\ Goto(r, "verify", "tokens")
  /\ SaveAll(r, [copy[r] EXCEPT !.verified = TRUE])
  /\ spoiled' = Socket
  /\ UNCHANGED sessions

\* create_tokens; the request has no user, so the middleware does nothing after it
VerifyAnswer(r) ==
  /\ Goto(r, "tokens", "idle")
  /\ Forget(r)
  /\ sessions' = TRUE
  /\ UNCHANGED <<row, spoiled>>

-----------------------------------------------------------------------------
(* Requests with a token                                                         *)

\* JWTAuthentication loads request.user
Authenticate(r) ==
  /\ sessions
  /\ Goto(r, "idle", "view")
  /\ Load(r)
  /\ UNCHANGED <<row, sessions, spoiled>>

SaveInView(r, instance) ==
  /\ Goto(r, "view", "touch")
  /\ SaveAll(r, instance)
  /\ UNCHANGED <<sessions, spoiled>>

\* UserProfileView.patch
PatchProfile(r, v) == SaveInView(r, [copy[r] EXCEPT !.profile = v])

\* Enable2FAView.post with type = True
Enable2FA(r, s) == SaveInView(r, [copy[r] EXCEPT !.twofa = TRUE, !.otp_secret = s])

\* mutant: the secret is kept for the next time
Disable2FAKeeps(r) == SaveInView(r, [copy[r] EXCEPT !.twofa = FALSE])
\* mutant: the flag is cleared like the secret
Disable2FANull(r) == SaveInView(r, [copy[r] EXCEPT !.twofa = Null, !.otp_secret = Null])

\* Enable2FAView.post with type = False
Disable2FA(r) == SaveInView(r, [copy[r] EXCEPT !.twofa = FALSE, !.otp_secret = Null])

\* every other view, and the refusals of these
OtherView(r) ==
  /\ Goto(r, "view", "touch")
  /\ UNCHANGED <<row, copy, sessions, spoiled>>

\* mutant: is_online is not among the update_fields
TrackLastLogin(r) ==
  /\ Goto(r, "touch", "idle")
  /\ Forget(r)
  /\ UNCHANGED <<row, sessions, spoiled>>

\* TrackLoginActivityMiddleware, after the view
TrackActivity(r) ==
  /\ Goto(r, "touch", "idle")
  /\ Forget(r)
  /\ row' = [row EXCEPT !.online = TRUE]
  /\ UNCHANGED <<sessions, spoiled>>

-----------------------------------------------------------------------------
(* Sockets.  update_user_status saves twice: update_last_seen() saves the row,   *)
(* and it saves it again.                                                        *)

\* TokenAuthMiddleware loads scope["user"]
Connect(k) ==
  /\ sessions
  /\ Goto(k, "closed", "connecting")
  /\ Load(k)
  /\ spoiled' = spoiled \ {k}
  /\ UNCHANGED <<row, sessions>>

\* connect() closes the socket of a user who is not of the room
Refuse(k) ==
  /\ Goto(k, "connecting", "refused")
  /\ UNCHANGED <<row, copy, sessions, spoiled>>

StatusOn(k) ==
  /\ Goto(k, "connecting", "on")
  /\ SaveAll(k, [copy[k] EXCEPT !.online = TRUE])
  /\ UNCHANGED <<sessions, spoiled>>

StatusOnAgain(k) ==
  /\ Goto(k, "on", "open")
  /\ SaveAll(k, copy[k])
  /\ UNCHANGED <<sessions, spoiled>>

\* disconnect() runs for a refused socket as well
StatusOff(k) ==
  /\ pc[k] \in {"open", "refused"}
  /\ pc' = [pc EXCEPT ![k] = "off"]
  /\ SaveAll(k, [copy[k] EXCEPT !.online = FALSE])
  /\ spoiled' = Socket
  /\ UNCHANGED sessions

StatusOffAgain(k) ==
  /\ Goto(k, "off", "closed")
  /\ Forget(k)
  /\ row' = copy[k]
  /\ spoiled' = Socket
  /\ UNCHANGED sessions

\* a handler raises, or the server drops the socket: disconnect() does not run
Die(k) ==
  /\ pc[k] \in {"connecting", "open", "refused"}
  /\ pc' = [pc EXCEPT ![k] = "closed"]
  /\ Forget(k)
  /\ UNCHANGED <<row, sessions, spoiled>>

-----------------------------------------------------------------------------
HttpStep(r) ==
  \/ VerifyLoad(r) \/ VerifySave(r) \/ VerifyAnswer(r)
  \/ Authenticate(r)
  \/ \E v \in Text \cup {Null} : PatchProfile(r, v)
  \/ \E s \in Text : Enable2FA(r, s)
  \/ Disable2FA(r) \/ OtherView(r) \/ TrackActivity(r)

SaveStatus(k) == StatusOn(k) \/ StatusOnAgain(k) \/ StatusOff(k) \/ StatusOffAgain(k)

SocketStep(k) == Connect(k) \/ Refuse(k) \/ SaveStatus(k) \/ Die(k)

Next ==
  \/ \E r \in Request : HttpStep(r)
  \/ \E k \in Socket : SocketStep(k)

Spec == Init /\ [][Next]_vars

-----------------------------------------------------------------------------
TypeOK ==
  /\ row \in Columns
  /\ copy \in [Writer -> Columns]
  /\ pc \in [Writer -> RequestPlace \cup SocketPlace]
  /\ \A r \in Request : pc[r] \in RequestPlace
  /\ \A k \in Socket : pc[k] \in SocketPlace
  /\ sessions \in BOOLEAN
  /\ spoiled \subseteq Socket

\* A verified user stays verified.  Every save() brings back whatever its writer
\* loaded, is_verified included (apps/user/models.py:53): this holds because no
\* instance that is saved without setting it is loaded before the verification.
VerifiedStays == [][row.verified => row'.verified]_row

\* 2FA is on exactly when a secret is stored (Verify2FA reads both).  Writers
\* overwrite one another, but never one of the two columns without the other.
TwoFactorWhole == row.twofa <=> row.otp_secret # Null

\* While a socket is open its user is online, unless another socket left or the
\* number was verified since it connected.  A request that saves an instance older
\* than the socket (PATCH of the profile, 2FA) takes the flag back, and the
\* middleware of that same request restores it.
OpenIsOnline ==
  \A k \in Socket :
    pc[k] \in {"on", "open"} =>
      \/ row.online
      \/ k \in spoiled
      \/ \E r \in Request : pc[r] = "touch"

\* The comments of update_user_status: it "updates the user's online status and
\* the time he was last seen" (apps/group/consumers.py:134), nothing else of the row.
StatusOnly ==
  [][\A k \in Socket : SaveStatus(k) => row' = [row EXCEPT !.online = row'.online]]_vars
=============================================================================
