--------------------------- MODULE ChannelSchedule_proofs ---------------------------
(* Proofs about ChannelSchedule, for any number of channels, rows, users and worker   *)
(* processes: its type invariant, that a scheduled message is stored once unless two  *)
(* runs had it in hand or one broke off at it, and that what is marked sent was       *)
(* stored.                                                                           *)
EXTENDS ChannelSchedule, TLAPS

\* a run that is past Create is at a row
AtRow == \A w \in Worker : pc[w] \in {"mark", "members", "push"} => current[w] \in Row

\* an idle worker has no list
IdleIsEmpty == \A w \in Worker : pc[w] = "idle" => batch[w] = {}

TypeInv == TypeOK /\ AtRow /\ IdleIsEmpty

LEMMA TypeInit == Init => TypeInv
BY ScheduleAssumption DEF Init, TypeInv, TypeOK, AtRow, IdleIsEmpty, Place

LEMMA BreakOffType ==
  ASSUME TypeInv, NEW w \in Worker, BreakOff(w), cut' \subseteq Row, kills' \in 0 .. MaxKills
  PROVE  TypeInv'
BY DEF BreakOff, TypeInv, TypeOK, AtRow, IdleIsEmpty, Place, data

LEMMA RequestType ==
  ASSUME TypeInv, Request
  PROVE  TypeInv'
<1>1. ASSUME NEW u \in User, NEW s \in Row, ScheduleMessage(u, s)
      PROVE  TypeInv'
  <2>1. Enqueued(tasks) \in 0 .. MaxTasks
    BY ScheduleAssumption DEF Enqueued, TypeInv, TypeOK
  <2>2. PICK c \in channels, t \in now .. MaxTime :
          /\ at' = [at EXCEPT ![s] = t]
          /\ channel' = [channel EXCEPT ![s] = c]
    BY <1>1 DEF ScheduleMessage
  <2>3. t \in 0 .. MaxTime /\ c \in Channel
    BY ScheduleAssumption DEF TypeInv, TypeOK
  <2> QED
    BY <1>1, <2>1, <2>2, <2>3 DEF ScheduleMessage, TypeInv, TypeOK, AtRow, IdleIsEmpty, runs
<1>2. ASSUME NEW c \in Channel, DeleteChannel(c)
      PROVE  TypeInv'
  BY <1>2 DEF DeleteChannel, TypeInv, TypeOK, AtRow, IdleIsEmpty, runs
<1>3. ASSUME NEW u \in User, NEW c \in Channel, AddMember(u, c)
      PROVE  TypeInv'
  BY <1>3 DEF AddMember, TypeInv, TypeOK, AtRow, IdleIsEmpty, runs, ghosts
<1>4. ASSUME NEW u \in User, NEW c \in Channel, RemoveMember(u, c)
      PROVE  TypeInv'
  BY <1>4 DEF RemoveMember, TypeInv, TypeOK, AtRow, IdleIsEmpty, runs
<1>5. ASSUME NEW u \in User, SetPreference(u)
      PROVE  TypeInv'
  BY <1>5 DEF SetPreference, TypeInv, TypeOK, AtRow, IdleIsEmpty, runs
<1> QED
  BY <1>1, <1>2, <1>3, <1>4, <1>5 DEF Request

LEMMA RunType ==
  ASSUME TypeInv, NEW w \in Worker, Run(w)
  PROVE  TypeInv'
<1>1. CASE Fetch(w)
  <2>1. tasks - 1 \in 0 .. MaxTasks
    BY <1>1, ScheduleAssumption DEF Fetch, TypeInv, TypeOK
  <2>2. Due \subseteq Row
    BY DEF Due, TypeInv, TypeOK
  <2>3. UNION {Due \cap InHand(v) : v \in Worker \ {w}} \subseteq Row
    BY <2>2
  <2> QED
    BY <1>1, <2>1, <2>2, <2>3 DEF Fetch, TypeInv, TypeOK, AtRow, IdleIsEmpty, Place, data
<1>2. CASE Create(w)
  BY <1>2 DEF Create, TypeInv, TypeOK, AtRow, IdleIsEmpty, Place, data
<1>3. CASE CreateFails(w)
  BY <1>3, BreakOffType DEF CreateFails, TypeInv, TypeOK
<1>4. CASE Mark(w)
  <2>1. Reach(channel[current[w]]) \subseteq User
    BY DEF Reach, TypeInv, TypeOK
  <2> QED
    BY <1>4, <2>1 DEF Mark, TypeInv, TypeOK, AtRow, IdleIsEmpty, Place
<1>5. CASE MarkFails(w)
  BY <1>5, BreakOffType DEF MarkFails, TypeInv, TypeOK
<1>6. CASE ReadMembers(w)
  BY <1>6 DEF ReadMembers, TypeInv, TypeOK, AtRow, IdleIsEmpty, Place, data, ghosts
<1>7. CASE Push(w)
  <2>1. PICK u \in audience[w] :
          /\ audience' = [audience EXCEPT ![w] = @ \ {u}]
          /\ unpushed' = IF u \in enabled THEN [unpushed EXCEPT ![current[w]] = @ \ {u}]
                         ELSE unpushed
    BY <1>7 DEF Push
  <2>2. u \in User /\ current[w] \in Row
    BY <1>7 DEF Push, TypeInv, TypeOK, AtRow
  <2>3. unpushed' \in [Row -> SUBSET User]
    BY <2>1, <2>2 DEF TypeInv, TypeOK
  <2>4. audience' \in [Worker -> SUBSET User]
    BY <2>1 DEF TypeInv, TypeOK
  <2> QED
    BY <1>7, <2>3, <2>4 DEF Push, TypeInv, TypeOK, AtRow, IdleIsEmpty, data
<1>8. CASE PushFails(w)
  <2>1. cut' \subseteq Row
    BY <1>8 DEF PushFails, TypeInv, TypeOK, AtRow
  <2> QED
    BY <1>8, <2>1, BreakOffType DEF PushFails, TypeInv, TypeOK
<1>9. CASE EndRow(w)
  BY <1>9 DEF EndRow, TypeInv, TypeOK, AtRow, IdleIsEmpty, Place, data, ghosts
<1> QED
  BY <1>1, <1>2, <1>3, <1>4, <1>5, <1>6, <1>7, <1>8, <1>9 DEF Run

LEMMA TypeStep ==
  ASSUME TypeInv, [Next]_vars
  PROVE  TypeInv'
<1>1. CASE Request
  BY <1>1, RequestType
<1>2. ASSUME NEW w \in Worker, Run(w)
      PROVE  TypeInv'
  BY <1>2, RunType
<1>3. ASSUME NEW w \in Worker, Kill(w)
      PROVE  TypeInv'
  <2>1. cut' \subseteq Row /\ kills' \in 0 .. MaxKills
    BY <1>3, ScheduleAssumption DEF Kill, TypeInv, TypeOK
  <2> QED
    BY <1>3, <2>1, BreakOffType DEF Kill
<1>4. CASE Tick
  BY <1>4, ScheduleAssumption DEF Tick, TypeInv, TypeOK, AtRow, IdleIsEmpty, data, runs, ghosts
<1>5. CASE Beat
  BY <1>5, ScheduleAssumption
     DEF Beat, Enqueued, TypeInv, TypeOK, AtRow, IdleIsEmpty, data, runs, ghosts
<1>6. CASE UNCHANGED vars
  BY <1>6 DEF vars, TypeInv, TypeOK, AtRow, IdleIsEmpty, data, runs, ghosts
<1> QED
  BY <1>1, <1>2, <1>3, <1>4, <1>5, <1>6 DEF Next

(* Every variable keeps its type, whatever the requests, the runs and the deaths.     *)
THEOREM TypeCorrect == Spec => []TypeOK
<1>1. TypeInv => TypeOK
  BY DEF TypeInv
<1> QED
  BY <1>1, TypeInit, TypeStep, PTL DEF Spec

---------------------------------------------------------------------------------
(* A scheduled message is stored once. *)

\* a key that was never given to a row is nowhere
KeysAsked ==
  /\ rows \cup sent \subseteq asked
  /\ \A w \in Worker : InHand(w) \subseteq asked
  /\ \A s \in Row : stored[s] # 0 => s \in asked

\* one run has the row in hand, and what it will do to the row is yet to be done
Single(s) ==
  /\ \A v, w \in Worker : s \in InHand(v) /\ s \in InHand(w) => v = w
  /\ \A w \in Worker : s \in batch[w] => s \notin sent /\ stored[s] = 0
  /\ \A w \in Worker : pc[w] = "mark" /\ current[w] = s => stored[s] = 1
  /\ stored[s] <= 1
  /\ stored[s] = 1 =>
       s \in sent \/ s \notin rows \/ \E w \in Worker : pc[w] = "mark" /\ current[w] = s

OnceInv == KeysAsked /\ \A s \in Row \ (shared \cup cut) : Single(s)

LEMMA OnceInit == Init => OnceInv
BY DEF Init, OnceInv, KeysAsked, Single, InHand

LEMMA BreakOffOnce ==
  ASSUME TypeInv, OnceInv, NEW w \in Worker, BreakOff(w), cut \subseteq cut',
         pc[w] = "mark" => current[w] \in cut' \/ current[w] \notin rows
  PROVE  OnceInv'
<1>1. /\ pc' = [pc EXCEPT ![w] = "idle"]
      /\ batch' = [batch EXCEPT ![w] = {}]
      /\ current' = [current EXCEPT ![w] = NoRow]
      /\ UNCHANGED <<rows, sent, asked, stored, shared>>
  BY DEF BreakOff, data
<1>2. \A v \in Worker : InHand(v)' \subseteq InHand(v) /\ batch'[v] \subseteq batch[v]
  BY <1>1 DEF InHand, TypeInv, TypeOK
<1>3. \A v \in Worker : pc'[v] = "mark" => pc[v] = "mark" /\ current'[v] = current[v]
  BY <1>1 DEF TypeInv, TypeOK
<1>4. \A v \in Worker : pc[v] = "mark" /\ v # w => pc'[v] = "mark" /\ current'[v] = current[v]
  BY <1>1 DEF TypeInv, TypeOK
<1>5. KeysAsked'
  BY <1>1, <1>2 DEF OnceInv, KeysAsked
<1>6. ASSUME NEW s \in Row \ (shared' \cup cut')
      PROVE  Single(s)'
  <2>1. Single(s)
    BY <1>1 DEF OnceInv
  <2> QED
    BY <1>1, <1>2, <1>3, <1>4, <2>1 DEF Single
<1> QED
  BY <1>5, <1>6 DEF OnceInv

\* Steps that touch neither a list, a row, nor a count.
LEMMA OnceKept ==
  ASSUME TypeInv, OnceInv, UNCHANGED <<batch, sent, stored, shared, asked, cut>>,
         rows' \subseteq rows,
         \A w \in Worker :
           (pc[w] = "mark" <=> pc'[w] = "mark") /\ (pc[w] = "mark" => current'[w] = current[w])
  PROVE  OnceInv'
<1>1. \A w \in Worker : InHand(w)' = InHand(w)
  BY DEF InHand
<1>2. KeysAsked'
  BY <1>1 DEF OnceInv, KeysAsked
<1>3. ASSUME NEW s \in Row \ (shared \cup cut)
      PROVE  Single(s)'
  BY <1>1, <1>3 DEF OnceInv, Single
<1> QED
  BY <1>2, <1>3 DEF OnceInv

LEMMA ScheduleOnce ==
  ASSUME TypeInv, OnceInv, NEW u \in User, NEW s \in Row, ScheduleMessage(u, s)
  PROVE  OnceInv'
<1>1. /\ s \notin asked
      /\ asked' = asked \cup {s}
      /\ rows' = rows \cup {s}
      /\ UNCHANGED <<sent, pc, batch, current, stored, shared, cut>>
  BY DEF ScheduleMessage, runs
<1>2. \A w \in Worker : InHand(w)' = InHand(w)
  BY <1>1 DEF InHand
<1>3. stored[s] = 0
  BY <1>1 DEF OnceInv, KeysAsked
<1>4. KeysAsked'
  BY <1>1, <1>2 DEF OnceInv, KeysAsked
<1>5. ASSUME NEW r \in Row \ (shared \cup cut)
      PROVE  Single(r)'
  <2>1. Single(r)
    BY DEF OnceInv
  <2> QED
    BY <1>1, <1>2, <1>3, <2>1 DEF Single
<1> QED
  BY <1>1, <1>4, <1>5 DEF OnceInv

\* A row that enters a list is not sent, and nobody else has it unless it is shared.
LEMMA FetchOnce ==
  ASSUME TypeInv, OnceInv, NEW w \in Worker, Fetch(w)
  PROVE  OnceInv'
<1>1. /\ batch' = [batch EXCEPT ![w] = Due]
      /\ pc[w] = "idle" /\ pc' \in [Worker -> Place]
      /\ pc'[w] # "mark" /\ \A v \in Worker \ {w} : pc'[v] = pc[v]
      /\ shared' = shared \cup UNION {Due \cap InHand(v) : v \in Worker \ {w}}
      /\ UNCHANGED <<rows, sent, current, asked, stored, cut>>
  BY DEF Fetch, data, TypeInv, TypeOK, Place
<1>2. InHand(w) = {} /\ InHand(w)' = Due
  BY <1>1 DEF InHand, TypeInv, TypeOK, IdleIsEmpty
<1>3. \A v \in Worker \ {w} : InHand(v)' = InHand(v) /\ batch'[v] = batch[v]
  BY <1>1 DEF InHand, TypeInv, TypeOK
<1>4. Due \subseteq rows \ sent
  BY DEF Due
<1>5. KeysAsked'
  BY <1>1, <1>2, <1>3, <1>4 DEF OnceInv, KeysAsked
<1>6. ASSUME NEW s \in Row \ (shared' \cup cut')
      PROVE  Single(s)'
  <2>1. Single(s)
    BY <1>1 DEF OnceInv
  <2>2. s \in Due => \A v \in Worker \ {w} : s \notin InHand(v)
    BY <1>1
  <2>3. \A v \in Worker : pc'[v] = "mark" <=> pc[v] = "mark"
    BY <1>1
  <2>4. s \in Due => stored[s] = 0
    <3> SUFFICES ASSUME s \in Due, stored[s] # 0
                 PROVE  FALSE
      OBVIOUS
    <3>1. stored[s] = 1
      BY <2>1 DEF Single, TypeInv, TypeOK
    <3>2. PICK v \in Worker : pc[v] = "mark" /\ current[v] = s
      BY <1>4, <2>1, <3>1 DEF Single
    <3> QED
      BY <1>1, <2>2, <3>2 DEF InHand
  <2>5. \A u, v \in Worker : s \in InHand(u)' /\ s \in InHand(v)' => u = v
    BY <1>2, <1>3, <2>1, <2>2 DEF Single
  <2>6. \A v \in Worker : s \in batch'[v] => s \notin sent /\ stored[s] = 0
    BY <1>1, <1>3, <1>4, <2>1, <2>4 DEF Single, TypeInv, TypeOK
  <2> QED
    BY <1>1, <2>1, <2>3, <2>5, <2>6 DEF Single
<1> QED
  BY <1>5, <1>6 DEF OnceInv

\* The row moves from the list to the hand of its one run, which stores it once.
LEMMA CreateOnce ==
  ASSUME TypeInv, OnceInv, NEW w \in Worker, Create(w)
  PROVE  OnceInv'
<1>1. PICK s \in batch[w] :
        /\ stored' = [stored EXCEPT ![s] = @ + 1]
        /\ current' = [current EXCEPT ![w] = s]
        /\ batch' = [batch EXCEPT ![w] = @ \ {s}]
  BY DEF Create
<1>2. /\ s \in Row
      /\ pc[w] = "next" /\ pc' = [pc EXCEPT ![w] = "mark"]
      /\ UNCHANGED <<rows, sent, asked, shared, cut>>
  BY DEF Create, data, TypeInv, TypeOK
<1>3. \A v \in Worker : InHand(v)' = InHand(v)
  BY <1>1, <1>2 DEF InHand, TypeInv, TypeOK
<1>4. s \in InHand(w)
  BY <1>1 DEF InHand
<1>5. KeysAsked'
  BY <1>1, <1>2, <1>3, <1>4 DEF OnceInv, KeysAsked, TypeInv, TypeOK
<1>6. ASSUME NEW r \in Row \ (shared' \cup cut')
      PROVE  Single(r)'
  <2>1. Single(r)
    BY <1>2 DEF OnceInv
  <2>2. CASE r = s
    <3>1. stored'[s] = 1 /\ pc'[w] = "mark" /\ current'[w] = s
      BY <1>1, <1>2, <2>1, <2>2 DEF Single, TypeInv, TypeOK
    <3>2. \A v \in Worker : s \notin batch'[v]
      BY <1>1, <1>2, <1>4, <2>1, <2>2 DEF Single, InHand, TypeInv, TypeOK
    <3> QED
      BY <1>3, <2>1, <2>2, <3>1, <3>2 DEF Single
  <2>3. CASE r # s
    <3>1. stored'[r] = stored[r] /\ \A v \in Worker : r \in batch'[v] <=> r \in batch[v]
      BY <1>1, <1>2, <2>3 DEF TypeInv, TypeOK
    <3>2. \A v \in Worker : (pc'[v] = "mark" /\ current'[v] = r) <=>
                            (pc[v] = "mark" /\ current[v] = r)
      BY <1>1, <1>2, <2>3 DEF TypeInv, TypeOK
    <3> QED
      BY <1>2, <1>3, <2>1, <3>1, <3>2 DEF Single
  <2> QED
    BY <2>2, <2>3
<1> QED
  BY <1>5, <1>6 DEF OnceInv

\* The one run that has the row in hand lets it go, marked.
LEMMA MarkOnce ==
  ASSUME TypeInv, OnceInv, NEW w \in Worker, Mark(w)
  PROVE  OnceInv'
<1>1. /\ pc[w] = "mark" /\ pc' = [pc EXCEPT ![w] = "members"]
      /\ current[w] \in rows /\ sent' = sent \cup {current[w]}
      /\ UNCHANGED <<rows, asked, stored, shared, cut, batch, current>>
  BY DEF Mark
<1>2. /\ \A v \in Worker : InHand(v)' \subseteq InHand(v)
      /\ \A v \in Worker : pc'[v] = "mark" => pc[v] = "mark"
      /\ \A v \in Worker \ {w} : pc[v] = "mark" => pc'[v] = "mark"
  BY <1>1 DEF InHand, TypeInv, TypeOK
<1>3. KeysAsked'
  BY <1>1, <1>2 DEF OnceInv, KeysAsked
<1>4. ASSUME NEW s \in Row \ (shared' \cup cut')
      PROVE  Single(s)'
  <2>1. Single(s)
    BY <1>1 DEF OnceInv
  <2>2. current[w] = s => \A v \in Worker : s \notin batch[v]
    BY <1>1, <2>1 DEF Single
  <2> QED
    BY <1>1, <1>2, <2>1, <2>2 DEF Single
<1> QED
  BY <1>3, <1>4 DEF OnceInv

LEMMA OnceStep ==
  ASSUME TypeInv, OnceInv, [Next]_vars
  PROVE  OnceInv'
<1>1. ASSUME NEW u \in User, NEW s \in Row, ScheduleMessage(u, s)
      PROVE  OnceInv'
  BY <1>1, ScheduleOnce
<1>2. CASE \/ \E c \in Channel : DeleteChannel(c)
           \/ \E u \in User, c \in Channel : AddMember(u, c) \/ RemoveMember(u, c)
           \/ \E u \in User : SetPreference(u)
           \/ Tick
           \/ Beat
           \/ UNCHANGED vars
  <2>1. rows' \subseteq rows /\ UNCHANGED <<batch, sent, stored, shared, asked, cut, pc, current>>
    BY <1>2 DEF DeleteChannel, AddMember, RemoveMember, SetPreference, Tick, Beat, vars,
       data, runs, ghosts
  <2> QED
    BY <2>1, OnceKept
<1>3. ASSUME NEW w \in Worker, Run(w)
      PROVE  OnceInv'
  <2>1. CASE Fetch(w)
    BY <2>1, FetchOnce
  <2>2. CASE Create(w)
    BY <2>2, CreateOnce
  <2>3. CASE Mark(w)
    BY <2>3, MarkOnce
  <2>4. CASE CreateFails(w) \/ MarkFails(w)
    BY <2>4, BreakOffOnce DEF CreateFails, MarkFails
  <2>5. CASE PushFails(w)
    BY <2>5, BreakOffOnce DEF PushFails
  <2>6. CASE ReadMembers(w) \/ Push(w) \/ EndRow(w)
    <3>1. UNCHANGED <<rows, batch, sent, stored, shared, asked, cut>>
      BY <2>6 DEF ReadMembers, Push, EndRow, data, ghosts
    <3>2. \A v \in Worker :
            /\ pc[v] = "mark" <=> pc'[v] = "mark"
            /\ pc[v] = "mark" => current'[v] = current[v]
      BY <2>6 DEF ReadMembers, Push, EndRow, TypeInv, TypeOK
    <3> QED
      BY <3>1, <3>2, OnceKept
  <2> QED
    BY <1>3, <2>1, <2>2, <2>3, <2>4, <2>5, <2>6 DEF Run
<1>4. ASSUME NEW w \in Worker, Kill(w)
      PROVE  OnceInv'
  <2>1. pc[w] = "mark" => current[w] \in cut'
    BY <1>4, ScheduleAssumption DEF Kill, TypeInv, AtRow
  <2> QED
    BY <1>4, <2>1, BreakOffOnce DEF Kill
<1> QED
  BY <1>1, <1>2, <1>3, <1>4 DEF Next, Request

(* A scheduled message is stored once, however many worker processes there are,       *)
(* unless two runs had it in hand at the same time or a run broke off at it.          *)
THEOREM DeliveredOnce == Spec => []StoredOnce
<1>1. OnceInv => StoredOnce
  BY DEF OnceInv, Single, StoredOnce
<1>2. Init => TypeInv /\ OnceInv
  BY TypeInit, OnceInit
<1>3. TypeInv /\ OnceInv /\ [Next]_vars => (TypeInv /\ OnceInv)'
  BY TypeStep, OnceStep
<1> QED
  BY <1>1, <1>2, <1>3, PTL DEF Spec

---------------------------------------------------------------------------------
(* What is marked sent was stored. *)

\* the row a run marks and announces is one it stored
MarkedIsStored ==
  \A w \in Worker : pc[w] \in {"mark", "members", "push"} => stored[current[w]] >= 1

StoredInv == SentIsStored /\ MarkedIsStored

LEMMA StoredStep ==
  ASSUME TypeInv, StoredInv, [Next]_vars
  PROVE  StoredInv'
<1>1. \A s \in Row : stored'[s] \in Nat /\ stored'[s] >= stored[s]
  <2>1. stored' = stored \/ \E s \in Row : stored' = [stored EXCEPT ![s] = @ + 1]
    BY DEF Next, Run, Request, ScheduleMessage, DeleteChannel, AddMember, RemoveMember,
       SetPreference, Fetch, Create, CreateFails, BreakOff, Mark, MarkFails, ReadMembers,
       Push, PushFails, EndRow, Kill, Tick, Beat, vars, ghosts, TypeInv, TypeOK
  <2> QED
    BY <2>1 DEF TypeInv, TypeOK
<1>2. \A s \in sent' \ sent : \E w \in Worker : pc[w] = "mark" /\ current[w] = s
  BY DEF Next, Run, Request, ScheduleMessage, DeleteChannel, AddMember, RemoveMember,
     SetPreference, Fetch, Create, CreateFails, BreakOff, Mark, MarkFails, ReadMembers,
     Push, PushFails, EndRow, Kill, Tick, Beat, vars, data
<1>3. ASSUME NEW w \in Worker, pc'[w] \in {"mark", "members", "push"}
      PROVE  \/ pc[w] \in {"mark", "members", "push"} /\ current'[w] = current[w]
             \/ current'[w] \in Row /\ stored'[current'[w]] = stored[current'[w]] + 1
  <2>1. ASSUME NEW v \in Worker, Create(v)
        PROVE  \/ pc[w] \in {"mark", "members", "push"} /\ current'[w] = current[w]
               \/ current'[w] \in Row /\ stored'[current'[w]] = stored[current'[w]] + 1
    BY <1>3, <2>1 DEF Create, TypeInv, TypeOK
  <2>2. CASE UNCHANGED <<pc, current>>
    BY <1>3, <2>2
  <2>3. ASSUME NEW v \in Worker,
               Fetch(v) \/ CreateFails(v) \/ MarkFails(v) \/ PushFails(v) \/ EndRow(v) \/ Kill(v)
        PROVE  pc[w] \in {"mark", "members", "push"} /\ current'[w] = current[w]
    <3>1. pc' \in [Worker -> Place] /\ pc'[v] \in {"idle", "next"}
      BY <2>3 DEF Fetch, CreateFails, MarkFails, PushFails, BreakOff, EndRow, Kill, TypeInv,
         TypeOK, Place
    <3>2. pc'[w] = pc[w] /\ current'[w] = current[w]
      BY <1>3, <2>3, <3>1 DEF Fetch, CreateFails, MarkFails, PushFails, BreakOff, EndRow,
         Kill, TypeInv, TypeOK
    <3> QED
      BY <1>3, <3>2
  <2>4. ASSUME NEW v \in Worker, Mark(v) \/ ReadMembers(v) \/ Push(v)
        PROVE  pc[w] \in {"mark", "members", "push"} /\ current'[w] = current[w]
    BY <1>3, <2>4 DEF Mark, ReadMembers, Push, TypeInv, TypeOK
  <2>5. UNCHANGED <<pc, current>> \/ \E v \in Worker : Run(v) \/ Kill(v)
    BY DEF Next, Request, ScheduleMessage, DeleteChannel, AddMember, RemoveMember,
       SetPreference, Tick, Beat, vars, runs
  <2> QED
    BY <2>1, <2>2, <2>3, <2>4, <2>5 DEF Run
<1>4. SentIsStored'
  BY <1>1, <1>2 DEF StoredInv, SentIsStored, MarkedIsStored, TypeInv, TypeOK, AtRow
<1>5. MarkedIsStored'
  BY <1>1, <1>3 DEF StoredInv, MarkedIsStored, TypeInv, TypeOK, AtRow
<1> QED
  BY <1>4, <1>5 DEF StoredInv

(* A message marked sent has been stored, wherever runs die or break off: the task    *)
(* may deliver twice, and never delivers nothing.                                     *)
THEOREM NothingLost == Spec => []SentIsStored
<1>1. Init => TypeInv /\ StoredInv
  BY TypeInit DEF Init, StoredInv, SentIsStored, MarkedIsStored
<1>2. TypeInv /\ StoredInv /\ [Next]_vars => (TypeInv /\ StoredInv)'
  BY TypeStep, StoredStep
<1>3. StoredInv => SentIsStored
  BY DEF StoredInv
<1> QED
  BY <1>1, <1>2, <1>3, PTL DEF Spec
================================================================================
