---------------------------- MODULE Inserts_proofs ----------------------------
(* Theorems about Inserts, for any phone numbers and any number of requests.     *)
EXTENDS Inserts, SequenceTheorems, TLAPS

LEMMA TailSet ==
  ASSUME NEW S, NEW s \in Seq(S), s # <<>>
  PROVE  /\ Head(s) \in ToSet(s) /\ ToSet(Tail(s)) \subseteq ToSet(s)
         /\ ToSet(s) \subseteq ToSet(Tail(s)) \cup {Head(s)}
         /\ Head(s) \in S /\ Tail(s) \in Seq(S) /\ (Len(s) > 1 <=> Tail(s) # <<>>)
<1>1. /\ Len(s) \in Nat \ {0} /\ Head(s) = s[1]
      /\ Head(s) \in S /\ Tail(s) \in Seq(S) /\ Len(Tail(s)) = Len(s) - 1
      /\ \A i \in 1..Len(Tail(s)) : Tail(s)[i] = s[i + 1]
  BY HeadTailProperties, EmptySeq, LenProperties
<1>2. DOMAIN s = 1..Len(s) /\ DOMAIN Tail(s) = 1..(Len(s) - 1)
  BY <1>1, LenProperties
<1>3. Head(s) \in ToSet(s)
  BY <1>1, <1>2 DEF ToSet
<1>4. ToSet(Tail(s)) \subseteq ToSet(s)
  <2>1. ASSUME NEW i \in 1..(Len(s) - 1)
        PROVE  Tail(s)[i] = s[i + 1] /\ i + 1 \in DOMAIN s
    BY <1>1, <1>2
  <2> QED
    BY <1>2, <2>1 DEF ToSet
<1>5. ToSet(s) \subseteq ToSet(Tail(s)) \cup {Head(s)}
  <2>1. ASSUME NEW i \in DOMAIN s, i # 1
        PROVE  s[i] \in ToSet(Tail(s))
    <3>1. i - 1 \in DOMAIN Tail(s) /\ Tail(s)[i - 1] = s[i]
      BY <1>1, <1>2, <2>1
    <3> QED
      BY <3>1 DEF ToSet
  <2>2. ASSUME NEW i \in DOMAIN s
        PROVE  s[i] \in ToSet(Tail(s)) \cup {Head(s)}
    BY <1>1, <2>1
  <2> QED
    BY <2>2 DEF ToSet
<1>6. Len(s) > 1 <=> Tail(s) # <<>>
  <2>1. Tail(s) # <<>> => Len(Tail(s)) \in Nat \ {0}
    BY <1>1, EmptySeq
  <2>2. Tail(s) = <<>> => Len(Tail(s)) = 0
    BY EmptySeq
  <2> QED
    BY <1>1, <2>1, <2>2
<1> QED
  BY <1>1, <1>3, <1>4, <1>5, <1>6

-----------------------------------------------------------------------------
(* What a place says of the request: who serves an address book has nothing but    *)
(* phone numbers in hand, who serves anything else the one row of the table.       *)
PlaceInv ==
  \A t \in Caller :
    /\ phase[t] = "idle" => book[t] = {}
    /\ phase[t] \in {"look", "insert"} => asked[t] # <<>>
    /\ phase[t] = "commit" => book[t] # {} /\ asked[t] = <<>>
    /\ book[t] = {} => pending[t] = {}
                       /\ (phase[t] # "idle" => table \in Single /\ asked[t] = <<table>>)
    /\ book[t] # {} => table = "contact" /\ asked[t] \in Seq(Phone)

TypeInv == InsertsTypeOK /\ PlaceInv

LEMMA TypeInit == InsertsInit => TypeInv
<1> SUFFICES ASSUME InsertsInit
             PROVE  TypeInv
  OBVIOUS
<1>1. asked \in [Caller -> Seq(Sought)]
  BY EmptySeq DEF InsertsInit
<1> QED
  BY <1>1 DEF InsertsInit, TypeInv, InsertsTypeOK, PlaceInv, Phase

\* a list that is not at its end has a first element, which is looked for
LEMMA WantSought ==
  ASSUME TypeInv, NEW t \in Caller, phase[t] \in {"look", "insert"}
  PROVE  /\ asked[t] \in Seq(Sought) /\ asked[t] # <<>>
         /\ Want(t) \in Sought /\ (book[t] # {} => Want(t) \in Phone)
         /\ (book[t] = {} => Want(t) = table /\ table \in Single)
<1>1. asked[t] \in Seq(Sought) /\ asked[t] # <<>>
  BY DEF TypeInv, InsertsTypeOK, PlaceInv
<1>2. Want(t) \in Sought
  BY <1>1, TailSet DEF Want
<1>3. CASE book[t] # {}
  BY <1>1, <1>2, <1>3, TailSet DEF Want, TypeInv, PlaceInv
<1>4. CASE book[t] = {}
  BY <1>1, <1>2, <1>4 DEF Want, TypeInv, PlaceInv
<1> QED
  BY <1>1, <1>2, <1>3, <1>4

\* what Advance does to the places
LEMMA AdvanceType ==
  ASSUME TypeInv, NEW t \in Caller, phase[t] \in {"look", "insert"}, Advance(t)
  PROVE  /\ asked' \in [Caller -> Seq(Sought)] /\ phase' \in [Caller -> Phase]
         /\ asked'[t] = Tail(asked[t])
         /\ \A s \in Caller \ {t} : asked'[s] = asked[s] /\ phase'[s] = phase[s]
         /\ book[t] # {} => /\ asked'[t] \in Seq(Phone)
                            /\ phase'[t] = IF asked'[t] # <<>> THEN "look" ELSE "commit"
         /\ book[t] = {} => phase'[t] = "idle"
<1>1. /\ asked[t] \in Seq(Sought) /\ asked[t] # <<>> /\ Tail(asked[t]) \in Seq(Sought)
      /\ Len(asked[t]) > 1 <=> Tail(asked[t]) # <<>>
  BY WantSought, TailSet
<1>2. /\ asked' \in [Caller -> Seq(Sought)] /\ asked'[t] = Tail(asked[t])
      /\ \A s \in Caller \ {t} : asked'[s] = asked[s]
  BY <1>1 DEF Advance, TypeInv, InsertsTypeOK
<1>3. /\ phase' \in [Caller -> Phase]
      /\ \A s \in Caller \ {t} : phase'[s] = phase[s]
      /\ phase'[t] = IF Len(asked[t]) > 1 THEN "look"
                     ELSE IF book[t] # {} THEN "commit" ELSE "idle"
  BY DEF Advance, TypeInv, InsertsTypeOK, Phase
<1>4. CASE book[t] # {}
  <2>1. asked[t] \in Seq(Phone)
    BY <1>4 DEF TypeInv, PlaceInv
  <2>2. Tail(asked[t]) \in Seq(Phone)
    BY <1>1, <2>1, TailSet
  <2> QED
    BY <1>1, <1>2, <1>3, <1>4, <2>2
<1>5. CASE book[t] = {}
  <2>1. asked[t] = <<table>>
    BY <1>5 DEF TypeInv, PlaceInv
  <2>2. Len(asked[t]) = 1
    BY <2>1
  <2> QED
    BY <1>2, <1>3, <1>5, <2>2
<1> QED
  BY <1>4, <1>5, <1>2, <1>3

LEMMA TypeStep == TypeInv /\ [InsertsNext]_insertsVars => TypeInv'
<1> SUFFICES ASSUME TypeInv, [InsertsNext]_insertsVars
             PROVE  TypeInv'
  OBVIOUS
<1> USE DEF TypeInv
<1>1. ASSUME NEW t \in Caller, phase[t] \in {"look", "insert"}, Advance(t),
             UNCHANGED <<table, book>>,
             count' \in [Sought -> Nat], pending' \in [Caller -> SUBSET Phone],
             \A s \in Caller : book[s] = {} => pending'[s] = {},
             excused' \in [Caller -> SUBSET Sought], raced' \subseteq Sought,
             refused' \subseteq Sought
      PROVE  TypeInv'
  <2>1. InsertsTypeOK'
    BY <1>1, AdvanceType DEF InsertsTypeOK
  <2>2. PlaceInv'
    BY <1>1, AdvanceType DEF PlaceInv
  <2> QED
    BY <2>1, <2>2
<1>2. ASSUME UNCHANGED table, NEW t \in Caller, StartSingle(t)
      PROVE  TypeInv'
  <2>1. <<table>> \in Seq(Sought) /\ <<table>> # <<>>
    BY <1>2 DEF StartSingle, Sought
  <2>2. /\ asked' \in [Caller -> Seq(Sought)] /\ asked'[t] = <<table>>
        /\ phase' \in [Caller -> Phase] /\ phase'[t] \in {"look", "insert"}
        /\ \A s \in Caller \ {t} : asked'[s] = asked[s] /\ phase'[s] = phase[s]
    BY <1>2, <2>1 DEF StartSingle, InsertsTypeOK, Phase
  <2> QED
    BY <1>2, <2>1, <2>2 DEF StartSingle, InsertsTypeOK, PlaceInv
<1>3. ASSUME UNCHANGED table, NEW t \in Caller, NEW b \in Book, StartSync(t, b)
      PROVE  TypeInv'
  <2>1. PICK n \in 1..MaxBook : b \in [1..n -> Phone]
    BY DEF Book
  <2>2. b \in Seq(Phone) /\ b \in Seq(Sought) /\ b # <<>> /\ n \in Nat /\ 1 \in 1..n
    BY <2>1, PhoneAssumption DEF Sought
  <2>3. ToSet(b) \subseteq Phone /\ ToSet(b) # {}
    BY <2>1, <2>2 DEF ToSet
  <2>4. /\ asked' \in [Caller -> Seq(Sought)] /\ asked'[t] = b
        /\ phase' \in [Caller -> Phase] /\ phase'[t] = "look"
        /\ book' \in [Caller -> SUBSET Phone] /\ book'[t] = ToSet(b)
        /\ \A s \in Caller \ {t} : asked'[s] = asked[s] /\ phase'[s] = phase[s]
                                   /\ book'[s] = book[s]
    BY <1>3, <2>2, <2>3 DEF StartSync, InsertsTypeOK, Phase
  <2> QED
    BY <1>3, <2>2, <2>3, <2>4 DEF StartSync, InsertsTypeOK, PlaceInv
<1>4. ASSUME UNCHANGED table, NEW t \in Caller, Found(t)
      PROVE  TypeInv'
  BY <1>1, <1>4 DEF Found, InsertsTypeOK, PlaceInv
<1>5. ASSUME UNCHANGED table, NEW t \in Caller, NotFound(t)
      PROVE  TypeInv'
  <2>1. raced' \subseteq Sought
    BY <1>5, WantSought DEF NotFound, InsertsTypeOK
  <2>2. /\ phase' \in [Caller -> Phase] /\ phase'[t] = "insert" /\ phase[t] = "look"
        /\ \A s \in Caller \ {t} : phase'[s] = phase[s]
    BY <1>5 DEF NotFound, InsertsTypeOK, Phase
  <2> QED
    BY <1>5, <2>1, <2>2 DEF NotFound, InsertsTypeOK, PlaceInv
<1>6. ASSUME UNCHANGED table, NEW t \in Caller, PassOver(t)
      PROVE  TypeInv'
  <2>1. excused' \in [Caller -> SUBSET Sought]
    BY <1>6, WantSought DEF PassOver, InsertsTypeOK
  <2> QED
    BY <1>1, <1>6, <2>1 DEF PassOver, InsertsTypeOK, PlaceInv
<1>7. ASSUME UNCHANGED table, NEW t \in Caller, InsertSingle(t)
      PROVE  TypeInv'
  <2>1. Want(t) \in Sought /\ count[Want(t)] + 1 \in Nat
    BY <1>7, WantSought DEF InsertSingle, InsertsTypeOK
  <2>2. count' \in [Sought -> Nat]
    BY <1>7, <2>1 DEF InsertSingle, InsertsTypeOK
  <2> QED
    BY <1>1, <1>7, <2>2 DEF InsertSingle, InsertsTypeOK, PlaceInv
<1>8. ASSUME UNCHANGED table, NEW t \in Caller, InsertRefused(t)
      PROVE  TypeInv'
  <2>1. refused' \subseteq Sought
    BY <1>8, WantSought DEF InsertRefused, InsertsTypeOK
  <2> QED
    BY <1>1, <1>8, <2>1 DEF InsertRefused, InsertsTypeOK, PlaceInv
<1>9. ASSUME UNCHANGED table, NEW t \in Caller, InsertContact(t)
      PROVE  TypeInv'
  <2>1. /\ pending' \in [Caller -> SUBSET Phone]
        /\ \A s \in Caller \ {t} : pending'[s] = pending[s]
    BY <1>9, WantSought DEF InsertContact, InsertsTypeOK
  <2> QED
    BY <1>1, <1>9, <2>1 DEF InsertContact, InsertsTypeOK, PlaceInv
<1>10. ASSUME UNCHANGED <<table, asked, raced, refused>>, NEW t \in Caller,
              count' \in [Sought -> Nat],
              phase' = [phase EXCEPT ![t] = "idle"], pending' = [pending EXCEPT ![t] = {}],
              book' = [book EXCEPT ![t] = {}], excused' = [excused EXCEPT ![t] = {}]
       PROVE  TypeInv'
  <2>1. /\ phase' \in [Caller -> Phase] /\ pending' \in [Caller -> SUBSET Phone]
        /\ book' \in [Caller -> SUBSET Phone] /\ excused' \in [Caller -> SUBSET Sought]
        /\ phase'[t] = "idle" /\ pending'[t] = {} /\ book'[t] = {}
        /\ \A s \in Caller \ {t} : phase'[s] = phase[s] /\ pending'[s] = pending[s]
                                   /\ book'[s] = book[s]
    BY <1>10 DEF InsertsTypeOK, Phase
  <2> QED
    BY <1>10, <2>1 DEF InsertsTypeOK, PlaceInv
<1>11. ASSUME UNCHANGED table, NEW t \in Caller, CommitSync(t)
       PROVE  TypeInv'
  <2>1. count' \in [Sought -> Nat]
    BY <1>11 DEF CommitSync, InsertsTypeOK
  <2> QED
    BY <1>10, <1>11, <2>1 DEF CommitSync
<1>12. ASSUME UNCHANGED table, NEW t \in Caller, CallFails(t)
       PROVE  TypeInv'
  <2>1. /\ phase' \in [Caller -> Phase] /\ pending' \in [Caller -> SUBSET Phone]
        /\ book' \in [Caller -> SUBSET Phone] /\ excused' \in [Caller -> SUBSET Sought]
        /\ phase'[t] = "idle" /\ pending'[t] = {} /\ book'[t] = {}
        /\ \A s \in Caller \ {t} : phase'[s] = phase[s] /\ pending'[s] = pending[s]
                                   /\ book'[s] = book[s]
    BY <1>12 DEF CallFails, InsertsTypeOK, Phase
  <2>2. /\ asked' \in [Caller -> Seq(Sought)]
        /\ \A s \in Caller \ {t} : asked'[s] = asked[s]
    BY <1>12, EmptySeq DEF CallFails, InsertsTypeOK
  <2> QED
    BY <1>12, <2>1, <2>2 DEF CallFails, InsertsTypeOK, PlaceInv
<1>13. ASSUME UNCHANGED table, NEW x \in Sought, DeleteOne(x)
       PROVE  TypeInv'
  <2>1. count' \in [Sought -> Nat]
    BY <1>13 DEF DeleteOne, InsertsTypeOK
  <2>2. excused' \in [Caller -> SUBSET Sought]
    BY <1>13 DEF DeleteOne, InsertsTypeOK
  <2> QED
    BY <1>13, <2>1, <2>2 DEF DeleteOne, InsertsTypeOK, PlaceInv
<1>14. CASE UNCHANGED insertsVars
  BY <1>14 DEF insertsVars, InsertsTypeOK, PlaceInv
<1> QED
  BY <1>2, <1>3, <1>4, <1>5, <1>6, <1>7, <1>8, <1>9, <1>11, <1>12, <1>13, <1>14
     DEF InsertsNext

\* Every variable of the requests that insert has its type.
THEOREM InsertsTypeCorrect == InsertsSpec => []InsertsTypeOK
<1>1. TypeInv => InsertsTypeOK
  BY DEF TypeInv
<1> QED
  BY <1>1, TypeInit, TypeStep, PTL DEF InsertsSpec

-----------------------------------------------------------------------------
(* As long as a row was not raced for, who found it missing is alone with it, and   *)
(* then it is missing; there are never two.                                      *)
AloneInv ==
  \A x \in Sought \ raced :
    /\ count[x] <= 1
    /\ x \notin Unchecked => \A t \in Caller :
         x \in Missed(t) => count[x] = 0 /\ \A s \in Caller : x \in Missed(s) => s = t

RaceInv == AloneInv /\ refused \ Unchecked \subseteq raced

LEMMA RaceStep == TypeInv /\ RaceInv /\ [InsertsNext]_insertsVars => RaceInv'
<1> SUFFICES ASSUME TypeInv, RaceInv, [InsertsNext]_insertsVars
             PROVE  RaceInv'
  OBVIOUS
<1> USE DEF TypeInv, RaceInv
\* nobody finds anything missing, and no row is added
<1>1. ASSUME \A s \in Caller : Missed(s)' \subseteq Missed(s) \cup Unchecked,
             count' \in [Sought -> Nat], \A x \in Sought : count'[x] <= count[x],
             UNCHANGED <<raced, refused>>
      PROVE  RaceInv'
  BY <1>1 DEF AloneInv, InsertsTypeOK
<1>2. ASSUME NEW t \in Caller, phase[t] \in {"look", "insert"}, Advance(t), pending' = pending
      PROVE  \A s \in Caller : Missed(s)' \subseteq Missed(s)
  <2>1. phase'[t] # "insert"
    BY <1>2, AdvanceType
  <2>2. \A s \in Caller \ {t} : phase'[s] = phase[s] /\ asked'[s] = asked[s]
    BY <1>2, AdvanceType
  <2> QED
    BY <1>2, <2>1, <2>2 DEF Missed, Want
<1>3. ASSUME UNCHANGED table, NEW t \in Caller, StartSingle(t)
      PROVE  RaceInv'
  <2>1. /\ phase'[t] = "insert" => table \in Unchecked
        /\ asked'[t] = <<table>> /\ Head(<<table>>) = table
        /\ \A s \in Caller \ {t} : asked'[s] = asked[s] /\ phase'[s] = phase[s]
    BY <1>3 DEF StartSingle, InsertsTypeOK
  <2>2. \A s \in Caller : Missed(s)' \subseteq Missed(s) \cup Unchecked
    BY <1>3, <2>1 DEF StartSingle, Missed, Want
  <2> QED
    BY <1>1, <1>3, <2>2 DEF StartSingle, InsertsTypeOK
<1>4. ASSUME UNCHANGED table, NEW t \in Caller, NEW b \in Book, StartSync(t, b)
      PROVE  RaceInv'
  <2>1. /\ phase'[t] = "look"
        /\ \A s \in Caller \ {t} : asked'[s] = asked[s] /\ phase'[s] = phase[s]
    BY <1>4 DEF StartSync, InsertsTypeOK
  <2>2. \A s \in Caller : Missed(s)' \subseteq Missed(s) \cup Unchecked
    BY <1>4, <2>1 DEF StartSync, Missed, Want
  <2> QED
    BY <1>1, <1>4, <2>2 DEF StartSync, InsertsTypeOK
<1>5. ASSUME NEW t \in Caller, Found(t) \/ PassOver(t)
      PROVE  RaceInv'
  BY <1>1, <1>2, <1>5 DEF Found, PassOver, InsertsTypeOK
<1>6. ASSUME NEW t \in Caller, NotFound(t)
      PROVE  RaceInv'
  <2>1. /\ Want(t) \in Sought /\ count[Want(t)] = 0
        /\ phase'[t] = "insert" /\ UNCHANGED <<count, asked, pending, refused>>
        /\ \A s \in Caller \ {t} : phase'[s] = phase[s]
    BY <1>6, WantSought DEF NotFound, InsertsTypeOK
  <2>2. /\ Missed(t)' = pending[t] \cup {Want(t)} /\ pending[t] \subseteq Missed(t)
        /\ \A s \in Caller \ {t} : Missed(s)' = Missed(s)
    BY <2>1 DEF Missed, Want
  <2>3. /\ raced \subseteq raced'
        /\ (\E s \in Caller \ {t} : Want(t) \in Missed(s)) => Want(t) \in raced'
    BY <1>6 DEF NotFound
  <2> QED
    BY <2>1, <2>2, <2>3 DEF AloneInv
<1>7. ASSUME NEW t \in Caller, InsertSingle(t)
      PROVE  RaceInv'
  <2> DEFINE x == Want(t)
  <2>1. /\ x \in Sought /\ book[t] = {} /\ pending[t] = {}
        /\ x \in Constrained => ~(count[x] > 0)
        /\ phase[t] = "insert"
    BY <1>7, WantSought DEF InsertSingle, PlaceInv
  <2>2. /\ count' = [count EXCEPT ![x] = @ + 1] /\ UNCHANGED <<pending, raced, refused>>
        /\ Advance(t)
    BY <1>7 DEF InsertSingle
  <2>3. /\ \A s \in Caller : Missed(s)' \subseteq Missed(s)
        /\ Missed(t)' = {} /\ x \in Missed(t)
    <3>1. phase'[t] = "idle"
      BY <2>1, <2>2, AdvanceType
    <3> QED
      BY <1>2, <2>1, <2>2, <3>1 DEF Missed
  <2>4. count'[x] = count[x] + 1 /\ \A y \in Sought \ {x} : count'[y] = count[y]
    BY <2>1, <2>2 DEF InsertsTypeOK
  <2>5. count[x] \in Nat
    BY <2>1 DEF InsertsTypeOK
  <2>6. x \in Unchecked => x \in Constrained
    BY DEF Unchecked, Constrained
  <2>7. x \notin raced => count[x] = 0
    BY <2>1, <2>3, <2>5, <2>6 DEF AloneInv
  <2> QED
    BY <2>2, <2>3, <2>4, <2>7 DEF AloneInv
<1>8. ASSUME NEW t \in Caller, InsertRefused(t)
      PROVE  RaceInv'
  <2>1. /\ Want(t) \in Sought /\ Want(t) \in Missed(t) /\ count[Want(t)] > 0
        /\ refused' = refused \cup {Want(t)} /\ UNCHANGED <<count, pending, raced>>
        /\ phase[t] = "insert" /\ Advance(t)
    BY <1>8, WantSought DEF InsertRefused, Missed
  <2>2. Want(t) \in raced \cup Unchecked
    BY <2>1 DEF AloneInv, InsertsTypeOK
  <2>3. AloneInv'
    BY <1>2, <2>1 DEF AloneInv
  <2> QED
    BY <2>1, <2>2, <2>3
<1>9. ASSUME NEW t \in Caller, InsertContact(t)
      PROVE  RaceInv'
  <2>1. /\ phase[t] = "insert" /\ Advance(t) /\ UNCHANGED <<count, raced, refused>>
        /\ pending'[t] = pending[t] \cup {Want(t)}
        /\ \A s \in Caller \ {t} : pending'[s] = pending[s]
    BY <1>9 DEF InsertContact, InsertsTypeOK
  <2>2. /\ phase'[t] # "insert"
        /\ \A s \in Caller \ {t} : phase'[s] = phase[s] /\ asked'[s] = asked[s]
    BY <2>1, AdvanceType
  <2>3. \A s \in Caller : Missed(s)' = Missed(s)
    BY <2>1, <2>2 DEF Missed, Want
  <2> QED
    BY <2>1, <2>3 DEF AloneInv
<1>10. ASSUME NEW t \in Caller, CommitSync(t)
       PROVE  RaceInv'
  <2>1. /\ phase'[t] = "idle" /\ pending'[t] = {}
        /\ UNCHANGED <<asked, raced, refused>>
        /\ \A s \in Caller \ {t} : phase'[s] = phase[s] /\ pending'[s] = pending[s]
        /\ \A x \in Sought : count'[x] = IF x \in pending[t] THEN count[x] + 1 ELSE count[x]
    BY <1>10 DEF CommitSync, InsertsTypeOK
  <2>2. /\ Missed(t)' = {} /\ pending[t] \subseteq Missed(t)
        /\ \A s \in Caller \ {t} : Missed(s)' = Missed(s)
    BY <2>1 DEF Missed, Want
  <2>3. \A x \in pending[t] : x \notin Unchecked
    BY PhoneAssumption DEF InsertsTypeOK, Unchecked, Single
  <2>4. \A x \in pending[t] \ raced : count[x] = 0
    BY <2>2, <2>3 DEF AloneInv, InsertsTypeOK, Sought
  <2>5. ASSUME NEW x \in Sought \ raced
        PROVE  /\ count'[x] <= 1
               /\ x \notin Unchecked => \A r \in Caller :
                    x \in Missed(r)' =>
                      count'[x] = 0 /\ \A s \in Caller : x \in Missed(s)' => s = r
    <3>1. CASE x \in pending[t]
      <4>1. count[x] = 0 /\ x \in Missed(t) /\ x \notin Unchecked
        BY <2>2, <2>3, <2>4, <2>5, <3>1
      <4>2. \A s \in Caller : x \in Missed(s) => s = t
        BY <4>1 DEF AloneInv
      <4>3. \A s \in Caller : x \notin Missed(s)'
        BY <2>2, <4>2
      <4> QED
        BY <2>1, <3>1, <4>1, <4>3
    <3>2. CASE x \notin pending[t]
      <4>1. count'[x] = count[x]
        BY <2>1, <3>2
      <4>2. \A s \in Caller : Missed(s)' \subseteq Missed(s)
        BY <2>2
      <4> QED
        BY <4>1, <4>2 DEF AloneInv
    <3> QED
      BY <3>1, <3>2
  <2>6. AloneInv'
    BY <2>1, <2>5 DEF AloneInv
  <2> QED
    BY <2>1, <2>6
<1>11. ASSUME NEW t \in Caller, CallFails(t)
       PROVE  RaceInv'
  <2>1. /\ phase'[t] = "idle" /\ pending'[t] = {}
        /\ \A s \in Caller \ {t} : phase'[s] = phase[s] /\ pending'[s] = pending[s]
                                   /\ asked'[s] = asked[s]
    BY <1>11 DEF CallFails, InsertsTypeOK
  <2>2. \A s \in Caller : Missed(s)' \subseteq Missed(s)
    BY <2>1 DEF Missed, Want
  <2> QED
    BY <1>1, <1>11, <2>2 DEF CallFails, InsertsTypeOK
<1>12. ASSUME NEW x \in Sought, DeleteOne(x)
       PROVE  RaceInv'
  <2>1. /\ count' \in [Sought -> Nat] /\ \A y \in Sought : count'[y] <= count[y]
        /\ \A s \in Caller : Missed(s)' = Missed(s)
    BY <1>12 DEF DeleteOne, InsertsTypeOK, Missed, Want
  <2> QED
    BY <1>1, <1>12, <2>1 DEF DeleteOne
<1>13. CASE UNCHANGED insertsVars
  BY <1>13 DEF insertsVars, AloneInv, Missed, Want
<1> QED
  BY <1>3, <1>4, <1>5, <1>6, <1>7, <1>8, <1>9, <1>10, <1>11, <1>12, <1>13 DEF InsertsNext

\* Two rows for one thing, or a refused insert after a look, come only from two requests
\* that had both looked before either committed.
THEOREM NoRowTwice == InsertsSpec => []NoRepetition
<1> DEFINE IInv == TypeInv /\ RaceInv
<1>1. InsertsInit => IInv
  <2> SUFFICES ASSUME InsertsInit
               PROVE  RaceInv
    BY TypeInit
  <2> QED
    BY DEF InsertsInit, RaceInv, AloneInv, Missed
<1>2. IInv /\ [InsertsNext]_insertsVars => IInv'
  BY TypeStep, RaceStep
<1>3. IInv => NoRepetition
  BY DEF TypeInv, InsertsTypeOK, RaceInv, AloneInv, NoRepetition
<1> QED
  BY <1>1, <1>2, <1>3, PTL DEF InsertsSpec

-----------------------------------------------------------------------------
(* Every number of an address book is still to come, inserted, stored or excused.  *)
CoveredInv ==
  \A t \in Caller : \A x \in book[t] \ excused[t] :
    x \in ToSet(asked[t]) \/ x \in pending[t] \/ count[x] > 0

LEMMA CoveredStep == TypeInv /\ CoveredInv /\ [InsertsNext]_insertsVars => CoveredInv'
<1> SUFFICES ASSUME TypeInv, CoveredInv, [InsertsNext]_insertsVars
             PROVE  CoveredInv'
  OBVIOUS
<1> USE DEF TypeInv
<1>1. ASSUME NEW t \in Caller, phase[t] \in {"look", "insert"}, Advance(t), book' = book,
             \A s \in Caller : excused[s] \subseteq excused'[s],
             \A s \in Caller : pending[s] \subseteq pending'[s],
             \A x \in Sought : count[x] > 0 => count'[x] > 0,
             Want(t) \in book[t] =>
               Want(t) \in excused'[t] \/ Want(t) \in pending'[t] \/ count'[Want(t)] > 0
      PROVE  CoveredInv'
  <2>1. /\ asked'[t] = Tail(asked[t])
        /\ \A s \in Caller \ {t} : asked'[s] = asked[s]
    BY <1>1, AdvanceType
  <2>2. ToSet(asked[t]) \subseteq ToSet(asked'[t]) \cup {Want(t)}
    BY <1>1, <2>1, WantSought, TailSet DEF Want
  <2>3. \A s \in Caller : book[s] \subseteq Sought
    BY DEF InsertsTypeOK, Sought
  <2> QED
    BY <1>1, <2>1, <2>2, <2>3 DEF CoveredInv
<1>2. ASSUME NEW t \in Caller, StartSingle(t)
      PROVE  CoveredInv'
  <2>1. /\ book[t] = {} /\ \A s \in Caller \ {t} : asked'[s] = asked[s]
    BY <1>2 DEF StartSingle, InsertsTypeOK, PlaceInv
  <2> QED
    BY <1>2, <2>1 DEF StartSingle, CoveredInv
<1>3. ASSUME NEW t \in Caller, NEW b \in Book, StartSync(t, b)
      PROVE  CoveredInv'
  <2>1. /\ book'[t] = ToSet(b) /\ asked'[t] = b
        /\ \A s \in Caller \ {t} : asked'[s] = asked[s] /\ book'[s] = book[s]
    BY <1>3 DEF StartSync, InsertsTypeOK
  <2> QED
    BY <1>3, <2>1 DEF StartSync, CoveredInv
<1>4. ASSUME NEW t \in Caller, Found(t)
      PROVE  CoveredInv'
  BY <1>1, <1>4 DEF Found
<1>5. ASSUME NEW t \in Caller, NotFound(t)
      PROVE  CoveredInv'
  BY <1>5 DEF NotFound, CoveredInv
<1>6. ASSUME NEW t \in Caller, PassOver(t)
      PROVE  CoveredInv'
  <2>1. /\ Want(t) \in excused'[t] /\ \A s \in Caller : excused[s] \subseteq excused'[s]
    BY <1>6 DEF PassOver, InsertsTypeOK
  <2> QED
    BY <1>1, <1>6, <2>1 DEF PassOver
<1>7. ASSUME NEW t \in Caller, InsertSingle(t)
      PROVE  CoveredInv'
  <2>1. ASSUME NEW x \in Sought, count[x] > 0
        PROVE  count'[x] > 0
    <3>1. count[x] \in Nat /\ (count'[x] = count[x] \/ count'[x] = count[x] + 1)
      BY <1>7 DEF InsertSingle, InsertsTypeOK
    <3> QED
      BY <2>1, <3>1
  <2> QED
    BY <1>1, <1>7, <2>1 DEF InsertSingle
<1>8. ASSUME NEW t \in Caller, InsertRefused(t)
      PROVE  CoveredInv'
  BY <1>1, <1>8 DEF InsertRefused
<1>9. ASSUME NEW t \in Caller, InsertContact(t)
      PROVE  CoveredInv'
  <2>1. Want(t) \in pending'[t] /\ \A s \in Caller : pending[s] \subseteq pending'[s]
    BY <1>9 DEF InsertContact, InsertsTypeOK
  <2> QED
    BY <1>1, <1>9, <2>1 DEF InsertContact
<1>10. ASSUME NEW t \in Caller, CommitSync(t)
       PROVE  CoveredInv'
  <2>1. /\ book'[t] = {}
        /\ \A s \in Caller \ {t} : book'[s] = book[s] /\ pending'[s] = pending[s]
                                   /\ excused'[s] = excused[s]
        /\ \A x \in Sought : count[x] > 0 => count'[x] > 0
        /\ \A s \in Caller : book[s] \subseteq Sought
        /\ asked' = asked
    BY <1>10 DEF CommitSync, InsertsTypeOK, Sought
  <2> QED
    BY <2>1 DEF CoveredInv
<1>11. ASSUME NEW t \in Caller, CallFails(t)
       PROVE  CoveredInv'
  <2>1. /\ book'[t] = {} /\ count' = count
        /\ \A s \in Caller \ {t} : book'[s] = book[s] /\ pending'[s] = pending[s]
                                   /\ excused'[s] = excused[s] /\ asked'[s] = asked[s]
    BY <1>11 DEF CallFails, InsertsTypeOK
  <2> QED
    BY <2>1 DEF CoveredInv
<1>12. ASSUME NEW y \in Sought, DeleteOne(y)
       PROVE  CoveredInv'
  <2>1. /\ \A x \in Sought \ {y} : count'[x] = count[x]
        /\ \A s \in Caller : book[s] \subseteq Sought
        /\ \A s \in Caller : excused'[s] = excused[s] \cup ({y} \cap book[s])
        /\ UNCHANGED <<asked, pending, book>>
    BY <1>12 DEF DeleteOne, InsertsTypeOK, Sought
  <2> QED
    BY <2>1 DEF CoveredInv
<1>13. CASE UNCHANGED insertsVars
  BY <1>13 DEF insertsVars, CoveredInv
<1> QED
  BY <1>2, <1>3, <1>4, <1>5, <1>6, <1>7, <1>8, <1>9, <1>10, <1>11, <1>12, <1>13 DEF InsertsNext

\* An address book that is answered is stored as a whole.
THEOREM BooksStored == InsertsSpec => BookStored
<1> DEFINE IInv == TypeInv /\ CoveredInv
<1>1. InsertsInit => IInv
  <2> SUFFICES ASSUME InsertsInit
               PROVE  CoveredInv
    BY TypeInit
  <2> QED
    BY DEF InsertsInit, CoveredInv
<1>2. IInv /\ [InsertsNext]_insertsVars => IInv'
  BY TypeStep, CoveredStep
<1>3. ASSUME IInv, NEW t \in Caller, CommitSync(t), NEW x \in book[t] \ excused[t]
      PROVE  count'[x] > 0
  <2>1. asked[t] = <<>> /\ x \in Sought
    BY <1>3 DEF CommitSync, TypeInv, PlaceInv, InsertsTypeOK, Sought
  <2>2. ToSet(asked[t]) = {}
    BY <2>1, EmptySeq DEF ToSet
  <2>3. x \in pending[t] \/ count[x] > 0
    BY <1>3, <2>2 DEF CoveredInv
  <2> QED
    BY <1>3, <2>1, <2>3 DEF CommitSync, TypeInv, InsertsTypeOK
<1>4. IInv /\ [InsertsNext]_insertsVars =>
        [\A t \in Caller :
           CommitSync(t) => \A x \in book[t] \ excused[t] : count'[x] > 0]_insertsVars
  BY <1>3
<1> QED
  BY <1>1, <1>2, <1>4, PTL DEF InsertsSpec, BookStored
=============================================================================
