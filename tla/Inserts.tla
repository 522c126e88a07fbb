-------------------------------- MODULE Inserts --------------------------------
(* Requests that look for a row and insert it when there is none, in two queries: *)
(* a chat of two users (apps/chat/serializers.py), the notification preference of *)
(* a user and the contacts of a phone's address book (apps/user/views.py), the    *)
(* device of a login (apps/user/middleware.py); and a contact for a friend, which *)
(* is inserted without a look (apps/user/serializers.py).  Two requests may both  *)
(* look before either inserts.  A row one transaction inserted is seen by others   *)
(* when it commits (the isolation of PostgreSQL).                                 *)
EXTENDS Naturals, Sequences, SequencesExt

CONSTANTS
  Phone,   \* phone numbers of an address book
  MaxBook, \* bound: the length of an address book
  Caller   \* the threads that serve requests, one request at a time

Single == {"chat", "preference", "device", "friend"}   \* one row at stake in each

ASSUME PhoneAssumption == Phone \cap Single = {} /\ MaxBook \in Nat \ {0}

VARIABLES
  table,    \* the table that is looked at: requests on different tables share nothing
  count,    \* count[x]: rows of x that are committed
  phase,    \* where the request on thread t stands
  asked,    \* asked[t]: what the request still has to look for or insert, in order
  pending,  \* pending[t]: rows it inserted and did not commit
  \* history
  book,     \* book[t]: the address book t was sent
  raced,    \* rows two requests had both found missing before either committed
  excused,  \* excused[t]: numbers of it that were passed over, or deleted since
  refused   \* rows a request failed to insert (an answer of 500)

insertsVars == <<table, count, phase, asked, pending, book, raced, excused, refused>>

Sought == Single \cup Phone

\* unique_together of Chat; OneToOneField of NotificationPreference and of Contact.friend
Constrained == {"chat", "preference", "friend"}

\* mutant: the device is inserted without a look
UncheckedToo == {"friend", "device"}

\* inserted without a look
Unchecked == {"friend"}

Phase == {"idle", "look", "insert", "commit"}

Want(t) == Head(asked[t])

\* found missing by t, and not yet there for others
Missed(t) == pending[t] \cup (IF phase[t] = "insert" THEN {Want(t)} ELSE {})

\* what a phone may send: numbers in any order, one of them perhaps twice
Book == UNION {[1..n -> Phone] : n \in 1..MaxBook}

InsertsInit ==
  /\ table \in Single \cup {"contact"}
  /\ count = [x \in Sought |-> 0]
  /\ phase = [t \in Caller |-> "idle"] /\ asked = [t \in Caller |-> <<>>]
  /\ pending = [t \in Caller |-> {}] /\ book = [t \in Caller |-> {}]
  /\ raced = {} /\ excused = [t \in Caller |-> {}] /\ refused = {}

-----------------------------------------------------------------------------
\* POST of a chat or a contact, GET of the preference, the end of any request
StartSingle(t) ==
  /\ phase[t] = "idle" /\ table \in Single
  /\ phase' = [phase EXCEPT ![t] = IF table \in Unchecked THEN "insert" ELSE "look"]
  /\ asked' = [asked EXCEPT ![t] = <<table>>]
  /\ UNCHANGED <<count, pending, book, raced, excused, refused>>

\* ContactSyncView.create: a transaction around the loop
StartSync(t, b) ==
  /\ phase[t] = "idle" /\ table = "contact"
  /\ phase' = [phase EXCEPT ![t] = "look"]
  /\ asked' = [asked EXCEPT ![t] = b]
  /\ book' = [book EXCEPT ![t] = ToSet(b)]
  /\ UNCHANGED <<count, pending, raced, excused, refused>>

\* the next row, or the end
Advance(t) ==
  /\ asked' = [asked EXCEPT ![t] = Tail(@)]
  /\ phase' = [phase EXCEPT ![t] =
                 IF Len(asked[t]) > 1 THEN "look"
                 ELSE IF book[t] # {} THEN "commit" ELSE "idle"]

\* mutant: the loop ends at the first contact that exists
StopAtFound(t) ==
  /\ phase[t] = "look"
  /\ count[Want(t)] > 0 \/ Want(t) \in pending[t]
  /\ asked' = [asked EXCEPT ![t] = <<>>]
  /\ phase' = [phase EXCEPT ![t] = IF book[t] # {} THEN "commit" ELSE "idle"]
  /\ UNCHANGED <<count, pending, book, raced, excused, refused>>

\* exists(), first(): there is a row, committed or its own
Found(t) ==
  /\ phase[t] = "look"
  /\ count[Want(t)] > 0 \/ Want(t) \in pending[t]
  /\ Advance(t)
  /\ UNCHANGED <<count, pending, book, raced, excused, refused>>

NotFound(t) ==
  /\ phase[t] = "look"
  /\ count[Want(t)] = 0 /\ Want(t) \notin pending[t]
  /\ phase' = [phase EXCEPT ![t] = "insert"]
  /\ raced' = IF \E s \in Caller \ {t} : Want(t) \in Missed(s)
              THEN raced \cup {Want(t)} ELSE raced
  /\ UNCHANGED <<count, asked, pending, book, excused, refused>>

\* the caller's own number, or a contact whose name says that it was not found
PassOver(t) ==
  /\ phase[t] = "look" /\ book[t] # {}
  /\ count[Want(t)] = 0 /\ Want(t) \notin pending[t]
  /\ excused' = [excused EXCEPT ![t] = @ \cup {Want(t)}]
  /\ Advance(t)
  /\ UNCHANGED <<count, pending, book, raced, refused>>

\* outside a transaction an insert is committed at once
InsertSingle(t) ==
  /\ phase[t] = "insert" /\ book[t] = {}
  /\ ~(Want(t) \in Constrained /\ count[Want(t)] > 0)
  /\ count' = [count EXCEPT ![Want(t)] = @ + 1]
  /\ Advance(t)
  /\ UNCHANGED <<pending, book, raced, excused, refused>>

\* the constraint is violated
InsertRefused(t) ==
  /\ phase[t] = "insert"
  /\ Want(t) \in Constrained /\ count[Want(t)] > 0
  /\ refused' = refused \cup {Want(t)}
  /\ Advance(t)
  /\ UNCHANGED <<count, pending, book, raced, excused>>

InsertContact(t) ==
  /\ phase[t] = "insert" /\ book[t] # {}
  /\ pending' = [pending EXCEPT ![t] = @ \cup {Want(t)}]
  /\ Advance(t)
  /\ UNCHANGED <<count, book, raced, excused, refused>>

CommitSync(t) ==
  /\ phase[t] = "commit"
  /\ phase' = [phase EXCEPT ![t] = "idle"]
  /\ count' = [x \in Sought |-> IF x \in pending[t] THEN count[x] + 1 ELSE count[x]]
  /\ pending' = [pending EXCEPT ![t] = {}] /\ book' = [book EXCEPT ![t] = {}]
  /\ excused' = [excused EXCEPT ![t] = {}]
  /\ UNCHANGED <<asked, raced, refused>>

\* the process dies, or a contact of the book has no name or an unknown column: the
\* transaction is rolled back
CallFails(t) ==
  /\ phase[t] # "idle"
  /\ phase' = [phase EXCEPT ![t] = "idle"] /\ asked' = [asked EXCEPT ![t] = <<>>]
  /\ pending' = [pending EXCEPT ![t] = {}] /\ book' = [book EXCEPT ![t] = {}]
  /\ excused' = [excused EXCEPT ![t] = {}]
  /\ UNCHANGED <<count, raced, refused>>

\* DELETE of a chat or of a contact; there is no request that deletes the others
DeleteOne(x) ==
  /\ x \in {"chat", "friend"} \cup Phone /\ count[x] > 0
  /\ count' = [count EXCEPT ![x] = @ - 1]
  /\ excused' = [t \in Caller |-> excused[t] \cup ({x} \cap book[t])]
  /\ UNCHANGED <<phase, asked, pending, book, raced, refused>>

-----------------------------------------------------------------------------
InsertsNext ==
  /\ UNCHANGED table
  /\ \/ \E x \in Sought : DeleteOne(x)
     \/ \E t \in Caller :
          \/ StartSingle(t) \/ Found(t) \/ NotFound(t) \/ PassOver(t) \/ InsertSingle(t)
          \/ InsertRefused(t) \/ InsertContact(t) \/ CommitSync(t) \/ CallFails(t)
          \/ \E b \in Book : StartSync(t, b)

InsertsSpec == InsertsInit /\ [][InsertsNext]_insertsVars

-----------------------------------------------------------------------------
InsertsTypeOK ==
  /\ table \in Single \cup {"contact"}
  /\ count \in [Sought -> Nat] /\ phase \in [Caller -> Phase]
  /\ asked \in [Caller -> Seq(Sought)] /\ pending \in [Caller -> SUBSET Phone]
  /\ book \in [Caller -> SUBSET Phone] /\ excused \in [Caller -> SUBSET Sought]
  /\ raced \subseteq Sought /\ refused \subseteq Sought

\* Where nothing but a look keeps rows apart (devices, contacts of address books), two
\* rows for one thing, or a request that fails although it looked, come only from two
\* requests that had both looked before either committed: for a contact that is the
\* whole transaction (user/views.py:202).
NoRepetition ==
  /\ \A x \in Sought : count[x] > 1 => x \in raced
  /\ refused \ Unchecked \subseteq raced

\* An address book that was answered is in the table as a whole: every number of it
\* has a contact, found or created, unless it was passed over, or deleted meanwhile.
BookStored ==
  [][\A t \in Caller :
       CommitSync(t) => \A x \in book[t] \ excused[t] : count'[x] > 0]_insertsVars
=============================================================================
