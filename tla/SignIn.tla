------------------------------- MODULE SignIn -------------------------------
(* Sign-up, login, verification and logout of one phone number: SignUpView,      *)
(* LoginView, VerifyView and LogoutView (apps/user/views.py) with their           *)
(* serializers, the one-time codes (apps/share/utils.py) and the token sets       *)
(* (apps/share/services.py, apps/user/services.py, apps/user/authentications.py). *)
(* Numbers share no key and no row, so one number stands for each.  A request is  *)
(* interleaved with the others at every query and every Redis command.            *)
EXTENDS Naturals, Sequences

CONSTANTS
  Request,  \* threads that serve HTTP requests, one at a time
  User,     \* primary keys of User (fresh UUIDs)
  Code,     \* calls of generate_otp; each has a secret and a code of its own
  Token,    \* access tokens
  Fake,     \* the string "fake_token"
  Nothing   \* no key, no user, no token

ASSUME SignInAssumption ==
  /\ Fake \notin Token
  /\ Nothing \notin User \cup Code \cup Token

VARIABLES
  \* database
  table,     \* users with the number, in the order of their creation
  verified,  \* those with is_verified
  twofa,     \* those with is_2fa_enabled
  \* Redis
  secret,    \* <number>:otp_secret, or Nothing
  hash,      \* <number>:otp, the hash of a secret and a code, or Nothing
  valid,     \* valid[u]: the set user:<u>:access
  outlives,  \* tokens minted since the lifetime of their user's set was last renewed
  \* requests
  pc,
  code,      \* code[r]: the call of generate_otp a request made, or the code it brings
  user,      \* user[r]: the instance a verification loaded
  token,     \* token[r]: the token a request minted, or was authenticated with
  \* clients
  mailed,    \* codes sent by mail
  told,      \* told[c]: the secret answered to the request that made c, or Nothing
  owner,     \* owner[t]: the user a token was minted for, or Nothing
  live,      \* tokens that have not expired
  handed,    \* tokens in the hands of clients
  \* history variables
  used,      \* calls of generate_otp so far
  newest,    \* the last of them, or Nothing
  shared,    \* calls that ran at the same time as another
  lapsed,    \* calls whose hash expired
  crossed,   \* TRUE once two verifications were both past the check of line 57, unsaved
  left       \* tokens that logged out and were not listed in their user's set

rows     == <<table, verified, twofa>>
keys     == <<secret, hash>>
sets     == <<valid, outlives>>
locals   == <<code, user, token>>
codes    == <<mailed, told>>
tokens   == <<owner, live, handed>>
codeLog  == <<used, newest, shared, lapsed>>
vars     == <<rows, keys, sets, pc, locals, codes, tokens, codeLog, crossed, left>>

Place == {"idle", "get", "create", "secret", "delete", "hash", "answer",
          "check", "unverified", "load", "save", "mint", "add", "logout"}

\* inside generate_otp, or about to read the secret back
Generating(r) == pc[r] \in {"delete", "hash", "answer"}

\* past VerifyOTPSerializer and not saved
Verifying(r) == pc[r] \in {"load", "save"}

Rows == {table[i] : i \in 1..Len(table)}

\* keys are interchangeable: the next fresh one of each kind
NextUser  == CHOOSE u \in User : u \notin Rows
NextCode  == CHOOSE c \in Code : c \notin used
NextToken == CHOOSE t \in Token : owner[t] = Nothing

\* CustomJWTAuthentication: a token is refused only by a set that is there
\* and does not list it
Accepted(t) == t \in live /\ (valid[owner[t]] = {} \/ t \in valid[owner[t]])

Init ==
  /\ table = <<>> /\ verified = {} /\ twofa = {}
  /\ secret = Nothing /\ hash = Nothing
  /\ valid = [u \in User |-> {}] /\ outlives = {}
  /\ pc = [r \in Request |-> "idle"]
  /\ code = [r \in Request |-> Nothing]
  /\ user = [r \in Request |-> Nothing]
  /\ token = [r \in Request |-> Nothing]
  /\ mailed = {} /\ told = [c \in Code |-> Nothing]
  /\ owner = [t \in Token |-> Nothing] /\ live = {} /\ handed = {}
  /\ used = {} /\ newest = Nothing /\ shared = {} /\ lapsed = {}
  /\ crossed = FALSE /\ left = {}

-----------------------------------------------------------------------------
Goto(r, from, to) ==
  /\ pc[r] = from
  /\ pc' = [pc EXCEPT ![r] = to]

\* the response, or an exception: nothing of the request is left
Forget(r) ==
  /\ code' = [code EXCEPT ![r] = Nothing]
  /\ user' = [user EXCEPT ![r] = Nothing]
  /\ token' = [token EXCEPT ![r] = Nothing]

Respond(r, from) == Goto(r, from, "idle") /\ Forget(r)

-----------------------------------------------------------------------------
(* SignUpView and LoginView                                                      *)

\* SignUpSerializer.validate_phone_number
SignUp(r) ==
  /\ verified \cap Rows = {}
  /\ Goto(r, "idle", "get")
  /\ UNCHANGED <<rows, keys, sets, locals, codes, tokens, codeLog, crossed, left>>

\* get_or_create looks for the row; it raises when there are several
GetUser(r) ==
  /\ \/ Len(table) = 0 /\ Goto(r, "get", "create") /\ UNCHANGED locals
     \/ Len(table) = 1 /\ Goto(r, "get", "secret") /\ UNCHANGED locals
     \/ Len(table) > 1 /\ Respond(r, "get")
  /\ UNCHANGED <<rows, keys, sets, codes, tokens, codeLog, crossed, left>>

\* and inserts one; phone_number is not unique
CreateUser(r, u) ==
  /\ u \notin Rows /\ u = NextUser
  /\ Goto(r, "create", "secret")
  /\ table' = Append(table, u)
  /\ UNCHANGED <<verified, twofa, keys, sets, locals, codes, tokens, codeLog, crossed, left>>

\* get_object_or_404 finds the user: it raises without a row, and with several
OneRow == Len(table) = 1

Login(r) ==
  /\ OneRow
  /\ Goto(r, "idle", "secret")
  /\ UNCHANGED <<rows, keys, sets, locals, codes, tokens, codeLog, crossed, left>>

\* mutant: SET NX, a secret that has not expired is kept
SetSecretOnce(r, c) ==
  /\ c \notin used /\ c = NextCode
  /\ Goto(r, "secret", "delete")
  /\ code' = [code EXCEPT ![r] = c]
  /\ secret' = IF secret = Nothing THEN c ELSE secret
  /\ used' = used \cup {c}
  /\ newest' = c
  /\ UNCHANGED <<rows, hash, sets, user, token, codes, tokens, shared, lapsed, crossed, left>>

\* generate_otp: the secret is stored before the hash is computed
SetSecret(r, c) ==
  /\ c \notin used /\ c = NextCode
  /\ Goto(r, "secret", "delete")
  /\ code' = [code EXCEPT ![r] = c]
  /\ secret' = c
  /\ used' = used \cup {c}
  /\ newest' = c
  /\ shared' = LET others == {code[q] : q \in {q \in Request : Generating(q)}}
               IN  shared \cup others \cup (IF others = {} THEN {} ELSE {c})
  /\ UNCHANGED <<rows, hash, sets, user, token, codes, tokens, lapsed, crossed, left>>

\* both callers pass check_if_exists = False
DeleteHash(r) ==
  /\ Goto(r, "delete", "hash")
  /\ hash' = Nothing
  /\ UNCHANGED <<rows, secret, sets, locals, codes, tokens, codeLog, crossed, left>>

\* the hash is stored, and the code is mailed
SetHash(r) ==
  /\ Goto(r, "hash", "answer")
  /\ hash' = code[r]
  /\ mailed' = mailed \cup {code[r]}
  /\ UNCHANGED <<rows, secret, sets, locals, told, tokens, codeLog, crossed, left>>

\* the view reads the secret back from Redis; without one, decode() raises
AnswerSecret(r) ==
  /\ Respond(r, "answer")
  /\ told' = [told EXCEPT ![code[r]] = secret]
  /\ UNCHANGED <<rows, keys, sets, mailed, tokens, codeLog, crossed, left>>

SecretExpires ==
  /\ secret # Nothing
  /\ secret' = Nothing
  /\ UNCHANGED <<rows, hash, sets, pc, locals, codes, tokens, codeLog, crossed, left>>

HashExpires ==
  /\ hash # Nothing
  /\ hash' = Nothing
  /\ lapsed' = lapsed \cup {hash}
  /\ UNCHANGED <<rows, secret, sets, pc, locals, codes, tokens, used, newest, shared,
                 crossed, left>>

-----------------------------------------------------------------------------
(* VerifyView                                                                    *)

\* a client sends a code it got by mail with the secret of that code (any other
\* pair fails at CheckCode); no user of the number may have 2FA
Verify(r, c) ==
  /\ c \in mailed
  /\ \E d \in Code : told[d] = c
  /\ twofa \cap Rows = {}
  /\ Goto(r, "idle", "check")
  /\ code' = [code EXCEPT ![r] = c]
  /\ UNCHANGED <<rows, keys, sets, user, token, codes, tokens, codeLog, crossed, left>>

\* check_otp; the code stays valid
CheckCode(r) ==
  /\ \/ hash = code[r] /\ Goto(r, "check", "unverified") /\ UNCHANGED locals
     \/ hash # code[r] /\ Respond(r, "check")
  /\ UNCHANGED <<rows, keys, sets, codes, tokens, codeLog, crossed, left>>

\* mutant: only the row that is loaded is asked whether it is verified
CheckNothing(r) ==
  /\ Goto(r, "unverified", "load")
  /\ crossed' = (crossed \/ \E q \in Request \ {r} : Verifying(q))
  /\ UNCHANGED <<rows, keys, sets, locals, codes, tokens, codeLog, left>>

\* VerifyOTPSerializer.is_valid_phone_number
CheckUnverified(r) ==
  \/ /\ verified \cap Rows = {}
     /\ Goto(r, "unverified", "load")
     /\ crossed' = (crossed \/ \E q \in Request \ {r} : Verifying(q))
     /\ UNCHANGED <<rows, keys, sets, locals, codes, tokens, codeLog, left>>
  \/ /\ verified \cap Rows # {}
     /\ Respond(r, "unverified")
     /\ UNCHANGED <<rows, keys, sets, codes, tokens, codeLog, crossed, left>>

\* first() of the rows of the number is the youngest (Meta.ordering)
LoadUser(r) ==
  LET u == table[Len(table)] IN
  /\ pc[r] = "load"
  /\ \/ /\ u \notin verified
        /\ Goto(r, "load", "save")
        /\ user' = [user EXCEPT ![r] = u]
        /\ UNCHANGED <<code, token>>
     \/ u \in verified /\ Respond(r, "load")
  /\ UNCHANGED <<rows, keys, sets, codes, tokens, codeLog, crossed, left>>

\* save() writes every column: is_2fa_enabled becomes FALSE again, as it was loaded
SaveUser(r) ==
  /\ Goto(r, "save", "mint")
  /\ verified' = verified \cup {user[r]}
  /\ twofa' = twofa \ {user[r]}
  /\ UNCHANGED <<table, keys, sets, locals, codes, tokens, codeLog, crossed, left>>

\* create_tokens: a token is added to the user's set only if there is one
Mint(r, t) ==
  /\ pc[r] = "mint"
  /\ owner[t] = Nothing /\ t = NextToken
  /\ owner' = [owner EXCEPT ![t] = user[r]]
  /\ live' = live \cup {t}
  /\ outlives' = outlives \cup {t}
  /\ \/ /\ valid[user[r]] = {}
        /\ Respond(r, "mint")
        /\ handed' = handed \cup {t}
     \/ /\ valid[user[r]] # {}
        /\ Goto(r, "mint", "add")
        /\ token' = [token EXCEPT ![r] = t]
        /\ UNCHANGED <<code, user, handed>>
  /\ UNCHANGED <<rows, keys, valid, codes, codeLog, crossed, left>>

-----------------------------------------------------------------------------
(* TokenService                                                                  *)

\* SADD, and EXPIRE with the lifetime of an access token
AddToRedis(u, t) ==
  /\ valid' = [valid EXCEPT ![u] = @ \cup {t}]
  /\ outlives' = {s \in outlives : owner[s] # u}

AddToken(r) ==
  /\ Respond(r, "add")
  /\ AddToRedis(user[r], token[r])
  /\ handed' = handed \cup {token[r]}
  /\ UNCHANGED <<rows, keys, codes, owner, live, codeLog, crossed, left>>

\* LogoutView, authenticated
Logout(r, t) ==
  /\ t \in handed /\ Accepted(t)
  /\ Goto(r, "idle", "logout")
  /\ token' = [token EXCEPT ![r] = t]
  /\ UNCHANGED <<rows, keys, sets, code, user, codes, tokens, codeLog, crossed, left>>

\* mutant: the set is deleted, and no fake token is put in its place
DeleteSet(r) ==
  LET t == token[r] IN
  /\ Respond(r, "logout")
  /\ valid' = [valid EXCEPT ![owner[t]] = {}]
  /\ left' = left \cup {t}
  /\ UNCHANGED <<rows, keys, outlives, codes, tokens, codeLog, crossed>>
\* mutant: the id of the user is added for the token
AddUserId(r) ==
  LET t == token[r] IN
  /\ Respond(r, "logout")
  /\ AddToRedis(owner[t], owner[t])
  /\ UNCHANGED <<rows, keys, codes, tokens, codeLog, crossed, left>>

\* delete_tokens deletes the key "access", which nothing uses: the set only grows
AddFake(r) ==
  LET t == token[r] IN
  /\ Respond(r, "logout")
  /\ AddToRedis(owner[t], Fake)
  /\ left' = IF t \in valid[owner[t]] THEN left ELSE left \cup {t}
  /\ UNCHANGED <<rows, keys, codes, tokens, codeLog, crossed>>

TokenExpires(t) ==
  /\ t \in live
  /\ live' = live \ {t}
  /\ UNCHANGED <<rows, keys, sets, pc, locals, codes, owner, handed, codeLog, crossed, left>>

\* a set lives as long as a token minted when its lifetime was last renewed
SetExpires(u) ==
  /\ valid[u] # {}
  /\ \A t \in live : owner[t] = u => t \in outlives
  /\ valid' = [valid EXCEPT ![u] = {}]
  /\ UNCHANGED <<rows, keys, outlives, pc, locals, codes, tokens, codeLog, crossed, left>>

-----------------------------------------------------------------------------
\* Enable2FAView, whole (UserRow has its steps)
Switch2FA(t) ==
  /\ t \in handed /\ Accepted(t)
  /\ \/ twofa' = twofa \cup {owner[t]}
     \/ twofa' = twofa \ {owner[t]}
  /\ UNCHANGED <<table, verified, keys, sets, pc, locals, codes, tokens, codeLog, crossed,
                 left>>

\* the server process dies, or a query raises
RequestFails(r) ==
  /\ pc[r] # "idle"
  /\ Respond(r, pc[r])
  /\ UNCHANGED <<rows, keys, sets, codes, tokens, codeLog, crossed, left>>

SignUpStep(r) ==
  \/ SignUp(r) \/ GetUser(r)
  \/ \E u \in User : CreateUser(r, u)

CodeStep(r) ==
  \/ \E c \in Code : SetSecret(r, c)
  \/ DeleteHash(r) \/ SetHash(r) \/ AnswerSecret(r)

VerifyStep(r) ==
  \/ \E c \in Code : Verify(r, c)
  \/ CheckCode(r) \/ CheckUnverified(r) \/ LoadUser(r) \/ SaveUser(r)
  \/ \E t \in Token : Mint(r, t)
  \/ AddToken(r)

LogoutStep(r) == (\E t \in Token : Logout(r, t)) \/ AddFake(r)

TimeStep ==
  \/ SecretExpires \/ HashExpires
  \/ \E t \in Token : TokenExpires(t)
  \/ \E u \in User : SetExpires(u)

Next ==
  \/ \E r \in Request :
       SignUpStep(r) \/ Login(r) \/ CodeStep(r) \/ VerifyStep(r) \/ LogoutStep(r) \/ RequestFails(r)
  \/ \E t \in Token : Switch2FA(t)
  \/ TimeStep

Spec == Init /\ [][Next]_vars

-----------------------------------------------------------------------------
TypeOK ==
  /\ table \in Seq(User) /\ verified \subseteq User /\ twofa \subseteq User
  /\ secret \in Code \cup {Nothing} /\ hash \in Code \cup {Nothing}
  /\ valid \in [User -> SUBSET (Token \cup {Fake})] /\ outlives \subseteq Token
  /\ pc \in [Request -> Place]
  /\ code \in [Request -> Code \cup {Nothing}]
  /\ user \in [Request -> User \cup {Nothing}]
  /\ token \in [Request -> Token \cup {Nothing}]
  /\ mailed \subseteq Code /\ told \in [Code -> Code \cup {Nothing}]
  /\ owner \in [Token -> User \cup {Nothing}]
  /\ live \subseteq Token /\ handed \subseteq Token
  /\ used \subseteq Code /\ newest \in Code \cup {Nothing}
  /\ shared \subseteq Code /\ lapsed \subseteq Code
  /\ crossed \in BOOLEAN /\ left \subseteq Token

\* The client that asked last for a code has been answered the secret of the code it
\* is mailed, and the pair verifies until it expires, unless two requests ran at the
\* same time: the two keys are written one after the other, and the secret is read
\* back by the view (apps/share/utils.py:22, apps/user/views.py:44).
CodeWorks ==
  \A c \in Code :
    newest = c /\ told[c] # Nothing /\ c \notin shared /\ c \notin lapsed =>
      told[c] = c /\ hash = c

\* A number has one verified user, even if sign-ups that raced in get_or_create left
\* two rows, unless two verifications crossed (apps/user/serializers.py:57).
OneVerified ==
  \A u, v \in verified : u = v \/ crossed

\* A token that logged out is refused from then on, whatever expires, unless it was
\* listed in the set already: logging out does not empty it (apps/share/services.py:33).
LoggedOutRefused == \A t \in left : ~Accepted(t)
=============================================================================
