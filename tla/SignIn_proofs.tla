---------------------------- MODULE SignIn_proofs ----------------------------
(* Theorems about SignIn, for any number of requests, users, codes and tokens:    *)
(* its types, and each of its three safety properties with the strengthening that *)
(* makes it inductive.                                                            *)
EXTENDS SignIn, TLAPS

\* what a place says about the locals of a request
Known ==
  \A r \in Request :
    /\ pc[r] \in {"secret", "delete", "hash", "answer", "check", "unverified", "load"} =>
         Len(table) > 0
    /\ pc[r] \in {"delete", "hash", "answer"} => code[r] \in used
    /\ pc[r] \in {"save", "mint", "add"} => user[r] \in User
    /\ pc[r] \in {"add", "logout"} => token[r] \in Token /\ owner[token[r]] \in User

\* codes are made for a number that has a row, tokens are minted before they are handed out
Given ==
  /\ used # {} => Len(table) > 0
  /\ mailed \subseteq used
  /\ \A t \in handed : owner[t] \in User

TypeInv == TypeOK /\ Known /\ Given

LEMMA TypeInit == Init => TypeInv
<1> SUFFICES ASSUME Init
             PROVE  TypeInv
  OBVIOUS
<1>1. TypeOK
  <2>1. table \in Seq(User) /\ verified \subseteq User /\ twofa \subseteq User
    BY DEF Init
  <2>2. valid \in [User -> SUBSET (Token \cup {Fake})] /\ owner \in [Token -> User \cup {Nothing}]
    BY DEF Init
  <2>3. /\ code \in [Request -> Code \cup {Nothing}]
        /\ user \in [Request -> User \cup {Nothing}]
        /\ token \in [Request -> Token \cup {Nothing}]
        /\ told \in [Code -> Code \cup {Nothing}]
    BY DEF Init
  <2>4. pc \in [Request -> Place]
    BY DEF Init, Place
  <2> QED
    BY <2>1, <2>2, <2>3, <2>4 DEF Init, TypeOK
<1>2. Known /\ Given
  BY SignInAssumption DEF Init, Known, Given
<1> QED
  BY <1>1, <1>2 DEF TypeInv

LEMMA TypeStep == TypeInv /\ [Next]_vars => TypeInv'
<1> SUFFICES ASSUME TypeInv, [Next]_vars
             PROVE  TypeInv'
  OBVIOUS
<1> USE SignInAssumption DEF TypeInv, TypeOK, Known, Given, Place, Goto, Respond, Forget, rows, keys, sets,
        locals, codes, tokens, codeLog
<1>1. ASSUME NEW r \in Request, SignUp(r)
      PROVE  TypeInv'
  BY <1>1 DEF SignUp
<1>2. ASSUME NEW r \in Request, GetUser(r)
      PROVE  TypeInv'
  <2>1. CASE Len(table) = 0 /\ Goto(r, "get", "create") /\ UNCHANGED locals
    BY <1>2, <2>1 DEF GetUser
  <2>2. CASE Len(table) = 1 /\ Goto(r, "get", "secret") /\ UNCHANGED locals
    BY <1>2, <2>2 DEF GetUser
  <2>3. CASE Respond(r, "get")
    BY <1>2, <2>3 DEF GetUser
  <2> QED
    BY <1>2, <2>1, <2>2, <2>3 DEF GetUser
<1>3. ASSUME NEW r \in Request, NEW u \in User, CreateUser(r, u)
      PROVE  TypeInv'
  BY <1>3 DEF CreateUser
<1>4. ASSUME NEW r \in Request, Login(r)
      PROVE  TypeInv'
  BY <1>4 DEF Login, OneRow
<1>5. ASSUME NEW r \in Request, NEW c \in Code, SetSecret(r, c)
      PROVE  TypeInv'
  BY <1>5 DEF SetSecret, Generating
<1>6. ASSUME NEW r \in Request, DeleteHash(r)
      PROVE  TypeInv'
  BY <1>6 DEF DeleteHash
<1>7. ASSUME NEW r \in Request, SetHash(r)
      PROVE  TypeInv'
  BY <1>7 DEF SetHash
<1>8. ASSUME NEW r \in Request, AnswerSecret(r)
      PROVE  TypeInv'
  BY <1>8 DEF AnswerSecret
<1>9. ASSUME NEW r \in Request, NEW c \in Code, Verify(r, c)
      PROVE  TypeInv'
  BY <1>9 DEF Verify
<1>10. ASSUME NEW r \in Request, CheckCode(r)
      PROVE  TypeInv'
  BY <1>10 DEF CheckCode
<1>11. ASSUME NEW r \in Request, CheckUnverified(r)
      PROVE  TypeInv'
  <2>1. CASE Goto(r, "unverified", "load") /\ UNCHANGED locals
    BY <1>11, <2>1 DEF CheckUnverified
  <2>2. CASE Respond(r, "unverified")
    BY <1>11, <2>2 DEF CheckUnverified
  <2> QED
    BY <1>11, <2>1, <2>2 DEF CheckUnverified
<1>12. ASSUME NEW r \in Request, LoadUser(r)
      PROVE  TypeInv'
  BY <1>12 DEF LoadUser
<1>13. ASSUME NEW r \in Request, SaveUser(r)
      PROVE  TypeInv'
  BY <1>13 DEF SaveUser
<1>14. ASSUME NEW r \in Request, NEW t \in Token, Mint(r, t)
      PROVE  TypeInv'
  <2>1. CASE Respond(r, "mint") /\ handed' = handed \cup {t}
    BY <1>14, <2>1 DEF Mint
  <2>2. CASE /\ Goto(r, "mint", "add")
             /\ token' = [token EXCEPT ![r] = t]
             /\ UNCHANGED <<code, user, handed>>
    BY <1>14, <2>2 DEF Mint
  <2> QED
    BY <1>14, <2>1, <2>2 DEF Mint
<1>15. ASSUME NEW r \in Request, AddToken(r)
      PROVE  TypeInv'
  BY <1>15 DEF AddToken, AddToRedis
<1>16. ASSUME NEW r \in Request, NEW t \in Token, Logout(r, t)
      PROVE  TypeInv'
  BY <1>16 DEF Logout
<1>17. ASSUME NEW r \in Request, AddFake(r)
      PROVE  TypeInv'
  BY <1>17 DEF AddFake, AddToRedis
<1>18. ASSUME NEW r \in Request, RequestFails(r)
      PROVE  TypeInv'
  BY <1>18 DEF RequestFails
<1>19. ASSUME SecretExpires
      PROVE  TypeInv'
  BY <1>19 DEF SecretExpires
<1>20. ASSUME HashExpires
      PROVE  TypeInv'
  BY <1>20 DEF HashExpires
<1>21. ASSUME NEW t \in Token, TokenExpires(t)
      PROVE  TypeInv'
  BY <1>21 DEF TokenExpires
<1>22. ASSUME NEW u \in User, SetExpires(u)
      PROVE  TypeInv'
  BY <1>22 DEF SetExpires
<1>23. ASSUME NEW t \in Token, Switch2FA(t)
      PROVE  TypeInv'
  BY <1>23 DEF Switch2FA, Accepted
<1>24. CASE UNCHANGED vars
  BY <1>24 DEF vars
<1> QED
  BY <1>1, <1>2, <1>3, <1>4, <1>5, <1>6, <1>7, <1>8, <1>9, <1>10, <1>11, <1>12, <1>13, <1>14, <1>15, <1>16, <1>17, <1>18, <1>19, <1>20, <1>21, <1>22, <1>23, <1>24
  DEF Next, SignUpStep, CodeStep, VerifyStep, LogoutStep, TimeStep

(* Every variable of the number's sign-in keeps its type.                        *)
THEOREM TypeCorrect == Spec => []TypeOK
<1>1. TypeInv => TypeOK
  BY DEF TypeInv
<1> QED
  BY TypeInit, TypeStep, <1>1, PTL DEF Spec

-----------------------------------------------------------------------------
(* A token that logged out stays refused. *)

\* as long as such a token has not expired, its user's set is there and does not
\* list it; a token a request has yet to add was never in a client's hands
LeftInv ==
  /\ \A t \in left :
       /\ t \in handed /\ t \notin outlives
       /\ t \in live => valid[owner[t]] # {} /\ t \notin valid[owner[t]]
  /\ \A r \in Request : pc[r] = "logout" => token[r] \in handed
  /\ \A r \in Request : pc[r] = "add" => token[r] \notin handed
  /\ \A r, q \in Request :
       pc[r] = "add" /\ pc[q] = "add" /\ r # q => token[r] # token[q]

LEMMA LeftInit == Init => LeftInv
  BY DEF Init, LeftInv

\* a step that concerns no token
LEMMA LeftKept ==
  ASSUME TypeInv, LeftInv, UNCHANGED <<valid, outlives, owner, live, handed, left>>,
         \A r \in Request : pc'[r] \in {"add", "logout"} => pc'[r] = pc[r] /\ token'[r] = token[r]
  PROVE  LeftInv'
  BY DEF LeftInv

LEMMA LeftStep ==
  ASSUME TypeInv, LeftInv, [Next]_vars
  PROVE  LeftInv'
<1> USE DEF TypeInv, TypeOK
<1>1. ASSUME NEW r \in Request, SignUpStep(r) \/ Login(r) \/ CodeStep(r)
      PROVE  LeftInv'
  BY <1>1, LeftKept DEF SignUpStep, SignUp, GetUser, CreateUser, Login, CodeStep, SetSecret,
     DeleteHash, SetHash, AnswerSecret, Goto, Respond, Forget, sets, locals, tokens
<1>2. ASSUME NEW r \in Request,
             \/ \E c \in Code : Verify(r, c)
             \/ CheckCode(r) \/ CheckUnverified(r) \/ LoadUser(r) \/ SaveUser(r)
             \/ RequestFails(r)
      PROVE  LeftInv'
  BY <1>2, LeftKept DEF Verify, CheckCode, CheckUnverified, LoadUser, SaveUser, RequestFails,
     Goto, Respond, Forget, sets, locals, tokens
<1>3. CASE SecretExpires \/ HashExpires \/ (\E t \in Token : Switch2FA(t)) \/ UNCHANGED vars
  BY <1>3, LeftKept DEF SecretExpires, HashExpires, Switch2FA, vars, sets, locals, tokens
<1>4. ASSUME NEW r \in Request, NEW t \in Token, Mint(r, t)
      PROVE  LeftInv'
  <2>1. t \notin left /\ t \notin handed
    BY <1>4, SignInAssumption DEF Mint, LeftInv, Given
  <2>2. \A q \in Request : pc[q] \in {"add", "logout"} => token[q] # t
    BY <1>4, SignInAssumption DEF Mint, Known
  <2>3. CASE Respond(r, "mint") /\ handed' = handed \cup {t}
    BY <1>4, <2>1, <2>2, <2>3 DEF Mint, Respond, Goto, Forget, LeftInv
  <2>4. CASE /\ Goto(r, "mint", "add")
             /\ token' = [token EXCEPT ![r] = t]
             /\ UNCHANGED <<code, user, handed>>
    BY <1>4, <2>1, <2>2, <2>4 DEF Mint, Goto, LeftInv
  <2> QED
    BY <1>4, <2>3, <2>4 DEF Mint
<1>5. ASSUME NEW r \in Request, AddToken(r)
      PROVE  LeftInv'
  BY <1>5 DEF AddToken, AddToRedis, Respond, Goto, Forget, LeftInv, Known, Given
<1>6. ASSUME NEW r \in Request, NEW t \in Token, Logout(r, t)
      PROVE  LeftInv'
  BY <1>6 DEF Logout, Goto, LeftInv, sets, tokens
<1>7. ASSUME NEW r \in Request, AddFake(r)
      PROVE  LeftInv'
  <2> DEFINE t == token[r]
             u == owner[t]
  <2>1. t \in Token /\ u \in User /\ t \in handed
    BY <1>7 DEF AddFake, Respond, Goto, Known, LeftInv
  <2>2. /\ valid' = [valid EXCEPT ![u] = @ \cup {Fake}]
        /\ outlives' = {s \in outlives : owner[s] # u}
        /\ left' = IF t \in valid[u] THEN left ELSE left \cup {t}
        /\ UNCHANGED <<owner, live, handed>>
    BY <1>7 DEF AddFake, AddToRedis, tokens
  <2>3. \A q \in Request : pc'[q] \in {"add", "logout"} => pc'[q] = pc[q] /\ token'[q] = token[q]
    BY <1>7 DEF AddFake, Respond, Goto, Forget
  <2> HIDE DEF t, u
  <2>4. ASSUME NEW s \in left'
        PROVE  /\ s \in handed' /\ s \notin outlives'
               /\ s \in live' => valid'[owner'[s]] # {} /\ s \notin valid'[owner'[s]]
    <3>1. s \in Token /\ s # Fake /\ owner[s] \in User
      BY <2>1, <2>2, SignInAssumption DEF LeftInv, Given, u
    <3>2. CASE s \in left
      BY <2>1, <2>2, <3>1, <3>2 DEF LeftInv
    <3>3. CASE s = t /\ t \notin valid[u]
      BY <2>1, <2>2, <3>1, <3>3 DEF u
    <3> QED
      BY <2>2, <3>2, <3>3
  <2> QED
    BY <2>2, <2>3, <2>4 DEF LeftInv
<1>8. ASSUME NEW t \in Token, TokenExpires(t)
      PROVE  LeftInv'
  BY <1>8 DEF TokenExpires, LeftInv, sets, locals
<1>9. ASSUME NEW u \in User, SetExpires(u)
      PROVE  LeftInv'
  BY <1>9 DEF SetExpires, LeftInv, locals, tokens
<1> QED
  BY <1>1, <1>2, <1>3, <1>4, <1>5, <1>6, <1>7, <1>8, <1>9
  DEF Next, VerifyStep, LogoutStep, TimeStep

(* For any number of users, requests and tokens: once a token has logged out its  *)
(* requests are refused, through every later logout, login and expiry, unless it   *)
(* was a member of the set that is to keep it out (apps/share/services.py:40).     *)
THEOREM LogoutHolds == Spec => []LoggedOutRefused
<1>1. Init => TypeInv /\ LeftInv
  BY TypeInit, LeftInit
<1>2. TypeInv /\ LeftInv /\ [Next]_vars => (TypeInv /\ LeftInv)'
  BY TypeStep, LeftStep
<1>3. LeftInv => LoggedOutRefused
  BY DEF LeftInv, LoggedOutRefused, Accepted
<1> QED
  BY <1>1, <1>2, <1>3, PTL DEF Spec

-----------------------------------------------------------------------------
(* A number has one verified user. *)

\* until two verifications cross, one that is past the check of line 57 is alone
\* there and finds nobody verified
AloneInv ==
  /\ verified \subseteq Rows
  /\ \A r \in Request : pc[r] = "save" => user[r] \in Rows
  /\ ~crossed =>
       /\ \A r, q \in Request : Verifying(r) /\ Verifying(q) => r = q
       /\ \A r \in Request : Verifying(r) => verified = {}
       /\ \A u, v \in verified : u = v

LEMMA AloneInit == Init => AloneInv
  BY DEF Init, AloneInv, Verifying

\* a step after which no other request is past the check
LEMMA AloneKept ==
  ASSUME AloneInv, UNCHANGED <<verified, crossed>>, Rows \subseteq Rows',
         \A r \in Request : pc'[r] \in {"load", "save"} =>
           Verifying(r) /\ (pc'[r] = "save" => user'[r] \in Rows')
  PROVE  AloneInv'
  BY DEF AloneInv, Verifying

LEMMA AloneStep ==
  ASSUME TypeInv, AloneInv, [Next]_vars
  PROVE  AloneInv'
<1> USE DEF TypeInv, TypeOK
<1>1. ASSUME NEW r \in Request,
             \/ SignUp(r) \/ GetUser(r) \/ Login(r) \/ CodeStep(r)
             \/ \E c \in Code : Verify(r, c)
             \/ CheckCode(r) \/ (\E t \in Token : Mint(r, t)) \/ AddToken(r)
             \/ LogoutStep(r) \/ RequestFails(r)
      PROVE  AloneInv'
  <2>1. UNCHANGED <<table, verified, crossed>>
    BY <1>1 DEF SignUp, GetUser, Login, CodeStep, SetSecret, DeleteHash, SetHash, AnswerSecret,
       Verify, CheckCode, Mint, AddToken, LogoutStep, Logout, AddFake, RequestFails, rows
  <2>2. \A q \in Request : pc'[q] \in {"load", "save"} => pc'[q] = pc[q] /\ user'[q] = user[q]
    BY <1>1 DEF SignUp, GetUser, Login, CodeStep, SetSecret, DeleteHash, SetHash, AnswerSecret,
       Verify, CheckCode, Mint, AddToken, LogoutStep, Logout, AddFake, RequestFails, Goto,
       Respond, Forget, locals
  <2> QED
    BY <2>1, <2>2, AloneKept DEF AloneInv, Verifying, Rows
<1>2. ASSUME NEW r \in Request, NEW u \in User, CreateUser(r, u)
      PROVE  AloneInv'
  <2>1. \A i \in 1..Len(table) : table'[i] = table[i]
    BY <1>2 DEF CreateUser
  <2>2. Len(table') = Len(table) + 1
    BY <1>2 DEF CreateUser
  <2>3. Rows \subseteq Rows'
    BY <2>1, <2>2 DEF Rows
  <2>4. UNCHANGED <<verified, crossed>>
    BY <1>2 DEF CreateUser
  <2>5. \A q \in Request : pc'[q] \in {"load", "save"} => pc'[q] = pc[q] /\ user'[q] = user[q]
    BY <1>2 DEF CreateUser, Goto, locals
  <2> QED
    BY <2>3, <2>4, <2>5, AloneKept DEF AloneInv, Verifying
<1>3. ASSUME NEW r \in Request, CheckUnverified(r)
      PROVE  AloneInv'
  <2>1. CASE /\ verified \cap Rows = {}
             /\ Goto(r, "unverified", "load")
             /\ crossed' = (crossed \/ \E q \in Request \ {r} : Verifying(q))
             /\ UNCHANGED <<rows, keys, sets, locals, codes, tokens, codeLog, left>>
    <3>1. verified = {}
      BY <2>1 DEF AloneInv
    <3>2. \A q \in Request \ {r} : Verifying(q)' <=> Verifying(q)
      BY <2>1 DEF Goto, Verifying
    <3>3. Rows' = Rows /\ verified' = {} /\ user' = user
      BY <2>1, <3>1 DEF rows, locals, Rows
    <3>4. \A q \in Request : pc'[q] = "save" => pc[q] = "save"
      BY <2>1 DEF Goto
    <3>5. ~crossed' => \A q \in Request : Verifying(q)' => q = r
      BY <2>1, <3>2
    <3> QED
      BY <3>3, <3>4, <3>5 DEF AloneInv
  <2>2. CASE /\ Respond(r, "unverified")
             /\ UNCHANGED <<rows, keys, sets, codes, tokens, codeLog, crossed, left>>
    BY <2>2, AloneKept DEF Respond, Goto, Forget, AloneInv, Verifying, rows, Rows
  <2> QED
    BY <1>3, <2>1, <2>2 DEF CheckUnverified
<1>4. ASSUME NEW r \in Request, LoadUser(r)
      PROVE  AloneInv'
  <2>1. table[Len(table)] \in Rows
    BY <1>4 DEF LoadUser, Known, Rows
  <2>2. UNCHANGED <<table, verified, crossed>> /\ pc[r] = "load"
    BY <1>4 DEF LoadUser, rows
  <2>3. \A q \in Request : pc'[q] \in {"load", "save"} =>
          Verifying(q) /\ (pc'[q] = "save" => user'[q] \in Rows)
    BY <1>4, <2>1 DEF LoadUser, Goto, Respond, Forget, AloneInv, Verifying
  <2> QED
    BY <2>2, <2>3, AloneKept DEF Rows
<1>5. ASSUME NEW r \in Request, SaveUser(r)
      PROVE  AloneInv'
  BY <1>5 DEF SaveUser, Goto, AloneInv, Verifying, locals, Rows
<1>6. CASE TimeStep \/ (\E t \in Token : Switch2FA(t)) \/ UNCHANGED vars
  <2>1. UNCHANGED <<table, verified, crossed, pc, user>>
    BY <1>6 DEF TimeStep, SecretExpires, HashExpires, TokenExpires, SetExpires, Switch2FA,
       vars, rows, locals
  <2> QED
    BY <2>1 DEF AloneInv, Verifying, Rows
<1> QED
  BY <1>1, <1>2, <1>3, <1>4, <1>5, <1>6 DEF Next, SignUpStep, VerifyStep

(* Two sign-ups may leave two rows of one number, but only one of them is verified *)
(* unless two verifications crossed between the check and the save                 *)
(* (apps/user/serializers.py:57, apps/user/views.py:79).                           *)
THEOREM VerifiedOnce == Spec => []OneVerified
<1>1. Init => TypeInv /\ AloneInv
  BY TypeInit, AloneInit
<1>2. TypeInv /\ AloneInv /\ [Next]_vars => (TypeInv /\ AloneInv)'
  BY TypeStep, AloneStep
<1>3. AloneInv => OneVerified
  BY DEF AloneInv, OneVerified
<1> QED
  BY <1>1, <1>2, <1>3, PTL DEF Spec

-----------------------------------------------------------------------------
(* The last client that asked for a code can use it. *)

\* a request inside generate_otp whose call shares its time with no other owns both
\* keys: the secret is its own or gone, and so is the hash once it is stored
Alone(r) ==
  /\ code[r] = newest
  /\ secret \in {code[r], Nothing}
  /\ pc[r] = "answer" => hash = code[r] \/ code[r] \in lapsed
  /\ told[code[r]] = Nothing

CodeInv ==
  /\ newest # Nothing => newest \in used
  /\ \A c \in Code : told[c] # Nothing => c \in used
  /\ \A r, q \in Request : Generating(r) /\ Generating(q) /\ code[r] = code[q] => r = q
  /\ \A r \in Request : Generating(r) => code[r] = newest \/ newest \in shared
  /\ \A r \in Request : Generating(r) /\ code[r] \notin shared => Alone(r)
  /\ CodeWorks

LEMMA CodeInit == Init => CodeInv
  BY SignInAssumption DEF Init, CodeInv, CodeWorks, Generating

\* a step that leaves both keys alone and puts nobody into generate_otp
LEMMA CodeKept ==
  ASSUME TypeInv, CodeInv, UNCHANGED <<secret, hash, told, codeLog>>,
         \A r \in Request : Generating(r)' => pc'[r] = pc[r] /\ code'[r] = code[r]
  PROVE  CodeInv'
  BY DEF CodeInv, CodeWorks, Generating, Alone, codeLog

LEMMA CodeStepKeeps ==
  ASSUME TypeInv, CodeInv, [Next]_vars
  PROVE  CodeInv'
<1> USE DEF TypeInv, TypeOK
<1>1. ASSUME NEW r \in Request,
             \/ SignUpStep(r) \/ Login(r) \/ VerifyStep(r) \/ LogoutStep(r) \/ RequestFails(r)
      PROVE  CodeInv'
  <2>1. UNCHANGED <<secret, hash, told, codeLog>>
    BY <1>1 DEF SignUpStep, SignUp, GetUser, CreateUser, Login, VerifyStep, Verify, CheckCode,
       CheckUnverified, LoadUser, SaveUser, Mint, AddToken, LogoutStep, Logout, AddFake,
       RequestFails, keys, codes
  <2>2. \A q \in Request : Generating(q)' => pc'[q] = pc[q] /\ code'[q] = code[q]
    BY <1>1 DEF SignUpStep, SignUp, GetUser, CreateUser, Login, VerifyStep, Verify, CheckCode,
       CheckUnverified, LoadUser, SaveUser, Mint, AddToken, LogoutStep, Logout, AddFake,
       RequestFails, Goto, Respond, Forget, locals, Generating
  <2> QED
    BY <2>1, <2>2, CodeKept
<1>2. CASE \/ \E t \in Token : TokenExpires(t) \/ Switch2FA(t)
           \/ \E u \in User : SetExpires(u)
           \/ UNCHANGED vars
  <2>1. UNCHANGED <<secret, hash, told, codeLog, pc, code>>
    BY <1>2 DEF TokenExpires, Switch2FA, SetExpires, vars, keys, codes, locals
  <2> QED
    BY <2>1, CodeKept DEF Generating
<1>3. ASSUME NEW r \in Request, NEW c \in Code, SetSecret(r, c)
      PROVE  CodeInv'
  <2>1. /\ c \notin used /\ c # Nothing
        /\ pc' = [pc EXCEPT ![r] = "delete"] /\ code' = [code EXCEPT ![r] = c]
        /\ secret' = c /\ newest' = c /\ used' = used \cup {c}
        /\ UNCHANGED <<told, lapsed>>
        /\ ~Generating(r)
    BY <1>3, SignInAssumption DEF SetSecret, Goto, codes, Generating
  <2>2. \A q \in Request : Generating(q)' <=> Generating(q) \/ q = r
    BY <2>1 DEF Generating
  <2>3. \A q \in Request : Generating(q) => q # r /\ code[q] \in used /\ code'[q] = code[q]
    BY <2>1 DEF Generating, Known
  <2>4. \A q \in Request : Generating(q) => code[q] \in shared' /\ c \in shared'
    <3> DEFINE others == {code[q] : q \in {q \in Request : Generating(q)}}
    <3>1. shared' = shared \cup others \cup (IF others = {} THEN {} ELSE {c})
      BY <1>3 DEF SetSecret
    <3>2. \A q \in Request : Generating(q) => code[q] \in others
      OBVIOUS
    <3> HIDE DEF others
    <3> QED
      BY <3>1, <3>2
  <2>5. told[c] = Nothing
    BY <2>1 DEF CodeInv
  <2>6. Alone(r)'
    BY <2>1, <2>5 DEF Alone
  <2> QED
    BY <2>1, <2>2, <2>3, <2>4, <2>5, <2>6 DEF CodeInv, CodeWorks
<1>4. ASSUME NEW r \in Request, DeleteHash(r) \/ SetHash(r)
      PROVE  CodeInv'
  <2>1. /\ Generating(r) /\ \A q \in Request : Generating(q)' <=> Generating(q)
        /\ \A q \in Request \ {r} : pc'[q] = pc[q]
        /\ UNCHANGED <<secret, told, codeLog, code>>
    BY <1>4 DEF DeleteHash, SetHash, Goto, Generating, locals, codes
  <2>2. pc'[r] = "answer" => hash' = code[r]
    BY <1>4 DEF DeleteHash, SetHash, Goto
  <2>3. \A q \in Request : Generating(q)' /\ code[q] \notin shared => q = r
    BY <2>1 DEF CodeInv, Alone
  <2>4. \A c \in Code : newest = c /\ c \notin shared => told[c] = Nothing
    BY <2>1 DEF CodeInv, Alone
  <2>5. code[r] \notin shared => Alone(r)'
    BY <2>1, <2>2 DEF CodeInv, Alone, codeLog
  <2> QED
    BY <2>1, <2>3, <2>4, <2>5 DEF CodeInv, CodeWorks, codeLog
<1>5. ASSUME NEW r \in Request, AnswerSecret(r)
      PROVE  CodeInv'
  <2>1. /\ pc[r] = "answer" /\ Generating(r) /\ ~Generating(r)'
        /\ \A q \in Request \ {r} : pc'[q] = pc[q] /\ code'[q] = code[q]
        /\ UNCHANGED <<secret, hash, codeLog>>
        /\ told' = [told EXCEPT ![code[r]] = secret]
        /\ code[r] \in used /\ code[r] \in Code
    BY <1>5 DEF AnswerSecret, Respond, Goto, Forget, Generating, keys, Known
  <2>2. \A q \in Request : Generating(q)' => q # r /\ Generating(q)
    BY <2>1 DEF Generating
  <2>3. \A q \in Request : Generating(q)' => code[q] # code[r] /\ code'[q] = code[q]
    BY <2>1, <2>2 DEF CodeInv
  <2>4. \A c \in Code : told'[c] # Nothing => c \in used
    BY <2>1 DEF CodeInv
  <2>5. \A q \in Request : Generating(q)' /\ code'[q] \notin shared => Alone(q)'
    BY <2>1, <2>2, <2>3 DEF CodeInv, Alone, codeLog
  <2>6. CodeWorks'
    <3>1. ASSUME NEW c \in Code, newest = c, told'[c] # Nothing, c \notin shared, c \notin lapsed
          PROVE  told'[c] = c /\ hash = c
      BY <2>1, <3>1 DEF CodeInv, CodeWorks, Alone
    <3> QED
      BY <2>1, <3>1 DEF CodeWorks, codeLog
  <2> QED
    BY <2>1, <2>2, <2>3, <2>4, <2>5, <2>6 DEF CodeInv, codeLog
<1>6. CASE SecretExpires \/ HashExpires
  <2>1. /\ secret' \in {secret, Nothing} /\ (hash' = hash \/ hash' = Nothing)
        /\ hash' # hash => lapsed' = lapsed \cup {hash}
        /\ hash' = hash => lapsed' = lapsed
        /\ UNCHANGED <<pc, code, told, used, newest, shared>>
    BY <1>6 DEF SecretExpires, HashExpires, locals, codes, codeLog
  <2>2. \A r \in Request : Alone(r) => Alone(r)'
    BY <2>1 DEF Alone
  <2>3. CodeWorks'
    BY <2>1 DEF CodeInv, CodeWorks
  <2> QED
    BY <2>1, <2>2, <2>3 DEF CodeInv, Generating
<1> QED
  BY <1>1, <1>2, <1>3, <1>4, <1>5, <1>6 DEF Next, CodeStep, TimeStep

(* Whatever other requests did before it and whenever keys expire, the client that *)
(* asked last holds a secret and a code that verify, unless calls of generate_otp  *)
(* overlapped or the code expired (apps/share/utils.py:22).                        *)
THEOREM LastCodeWorks == Spec => []CodeWorks
<1>1. Init => TypeInv /\ CodeInv
  BY TypeInit, CodeInit
<1>2. TypeInv /\ CodeInv /\ [Next]_vars => (TypeInv /\ CodeInv)'
  BY TypeStep, CodeStepKeeps
<1>3. CodeInv => CodeWorks
  BY DEF CodeInv
<1> QED
  BY <1>1, <1>2, <1>3, PTL DEF Spec
=============================================================================
