------------------------------ MODULE ChannelSchedule ------------------------------
(* Scheduled posts of channels: the request that stores one                          *)
(* (ScheduleMessageView, apps/channel/views.py) and the Celery task that delivers    *)
(* them (apps/channel/tasks.py).  Beat queues the task every ten seconds and every   *)
(* schedule request queues one more; a worker process takes the next task as soon    *)
(* as it is idle, so runs overlap.  A run reads its list of due rows once; every     *)
(* query, save and delay() after that is a step of its own.                          *)
EXTENDS Naturals, FiniteSets

CONSTANTS
  User,
  Channel,   \* primary keys of channels
  Owner,     \* Owner[c]: Channel.owner
  Row,       \* primary keys of ChannelScheduledMessage (fresh UUIDs, never reused)
  NoRow,
  Worker,    \* processes of the Celery worker
  MaxTime,   \* bound: the clock stops here
  MaxTasks,  \* bound: tasks waiting in the broker
  MaxKills   \* bound: worker processes lost in the middle of a run

ASSUME ScheduleAssumption ==
  /\ Owner \in [Channel -> User]
  /\ NoRow \notin Row
  /\ MaxTime \in Nat
  /\ MaxTasks \in Nat
  /\ MaxKills \in Nat

VARIABLES
  now,
  \* database
  channels,  \* rows of Channel
  members,   \* rows of ChannelMembership: <<user, channel>>
  enabled,   \* users whose NotificationPreference has notifications_enabled
  rows,      \* rows of ChannelScheduledMessage
  at,        \* at[s]: scheduled_time
  channel,   \* channel[s]: channel the row belongs to
  sent,      \* rows whose sent is True
  \* broker and workers
  tasks,     \* number of tasks waiting
  pc,        \* where the run of each worker stands
  batch,     \* rows of its list a run has yet to reach
  current,   \* the row a run is at, or NoRow
  audience,  \* memberships.all() of that row's channel, not reached yet
  \* history variables
  asked,     \* keys ever given to a row
  stored,    \* stored[s]: number of ChannelMessage rows made of s
  unpushed,  \* unpushed[s]: users to be pushed since s was marked, ever since, and not pushed
  shared,    \* rows two runs had in hand at the same time
  cut,       \* rows at which a run died or broke off
  kills

data    == <<channels, members, enabled, rows, at, channel, sent>>
runs    == <<pc, batch, current, audience>>
ghosts  == <<asked, stored, unpushed, shared, cut>>
vars    == <<now, data, tasks, runs, ghosts, kills>>

Place == {"idle", "next", "mark", "members", "push"}

\* the rows a run has in hand before it marks them
InHand(w) == batch[w] \cup (IF pc[w] = "mark" THEN {current[w]} ELSE {})

Reach(c)  == {u \in enabled : <<u, c>> \in members}

\* the next fresh key: keys are interchangeable, so one choice stands for all
NextKey == CHOOSE s \in Row : s \notin asked

Enqueued(n) == IF n < MaxTasks THEN n + 1 ELSE n

---------------------------------------------------------------------------------
(* requests *)

\* POST /api/channels/<id>/messages/schedule/: the channel is the only one the user
\* owns, whatever the URL says; .get raises if he owns none or several
ScheduleMessage(u, s) ==
  \E c \in channels, t \in now .. MaxTime :
    /\ {d \in channels : Owner[d] = u} = {c}
    /\ s \notin asked
    /\ s = NextKey
    /\ asked' = asked \cup {s}
    /\ rows' = rows \cup {s}
    /\ at' = [at EXCEPT ![s] = t]
    /\ channel' = [channel EXCEPT ![s] = c]
    /\ tasks' = Enqueued(tasks)
    /\ UNCHANGED <<now, channels, members, enabled, sent, runs,
                   stored, unpushed, shared, cut, kills>>

\* DELETE /api/channels/<id>/ by the owner, which cascades
DeleteChannel(c) ==
  /\ c \in channels
  /\ channels' = channels \ {c}
  /\ members' = {p \in members : p[2] # c}
  /\ rows' = {s \in rows : channel[s] # c}
  /\ unpushed' = [s \in Row |-> IF channel[s] = c THEN {} ELSE unpushed[s]]
  /\ UNCHANGED <<now, enabled, at, channel, sent, tasks, runs,
                 asked, stored, shared, cut, kills>>

AddMember(u, c) ==
  /\ c \in channels
  /\ <<u, c>> \notin members
  /\ members' = members \cup {<<u, c>>}
  /\ UNCHANGED <<now, channels, enabled, rows, at, channel, sent, tasks, runs, ghosts, kills>>

RemoveMember(u, c) ==
  /\ <<u, c>> \in members
  /\ members' = members \ {<<u, c>>}
  /\ unpushed' = [s \in Row |-> IF channel[s] = c THEN unpushed[s] \ {u} ELSE unpushed[s]]
  /\ UNCHANGED <<now, channels, enabled, rows, at, channel, sent, tasks, runs,
                 asked, stored, shared, cut, kills>>

\* GET creates a preference that is on, PATCH sets it
SetPreference(u) ==
  /\ \/ /\ u \notin enabled
        /\ enabled' = enabled \cup {u}
        /\ UNCHANGED unpushed
     \/ /\ u \in enabled
        /\ enabled' = enabled \ {u}
        /\ unpushed' = [s \in Row |-> unpushed[s] \ {u}]
  /\ UNCHANGED <<now, channels, members, rows, at, channel, sent, tasks, runs,
                 asked, stored, shared, cut, kills>>

---------------------------------------------------------------------------------
(* send_channel_scheduled_message *)

\* mutant: the filter lets delivered rows through
DueAgain == {s \in rows : at[s] <= now}
\* mutant: only the rows of this very moment are due
DueExactly == {s \in rows : at[s] = now /\ s \notin sent}

Due == {s \in rows : at[s] <= now /\ s \notin sent}

\* mutant: the list is claimed before it is delivered
FetchClaims(w) ==
  /\ pc[w] = "idle"
  /\ tasks > 0
  /\ tasks' = tasks - 1
  /\ sent' = sent \cup Due
  /\ batch' = [batch EXCEPT ![w] = Due]
  /\ pc' = [pc EXCEPT ![w] = IF Due = {} THEN "idle" ELSE "next"]
  /\ UNCHANGED <<now, channels, members, enabled, rows, at, channel, current, audience,
                 ghosts, kills>>

\* A worker takes a task; the run reads the clock and the list of due rows.
Fetch(w) ==
  /\ pc[w] = "idle"
  /\ tasks > 0
  /\ tasks' = tasks - 1
  /\ batch' = [batch EXCEPT ![w] = Due]
  /\ pc' = [pc EXCEPT ![w] = IF Due = {} THEN "idle" ELSE "next"]
  /\ shared' = shared \cup UNION {Due \cap InHand(v) : v \in Worker \ {w}}
  /\ UNCHANGED <<now, data, current, audience, asked, stored, unpushed, cut, kills>>

\* The next row of the list.  Newest first; the order of equal times is the
\* database's, and here any order is allowed.
Create(w) ==
  /\ pc[w] = "next"
  /\ \E s \in batch[w] :
       /\ channel[s] \in channels
       /\ stored' = [stored EXCEPT ![s] = @ + 1]
       /\ current' = [current EXCEPT ![w] = s]
       /\ batch' = [batch EXCEPT ![w] = @ \ {s}]
  /\ pc' = [pc EXCEPT ![w] = "mark"]
  /\ UNCHANGED <<now, data, tasks, audience, asked, unpushed, shared, cut, kills>>

\* An exception ends the run with the rest of its list.
BreakOff(w) ==
  /\ pc' = [pc EXCEPT ![w] = "idle"]
  /\ batch' = [batch EXCEPT ![w] = {}]
  /\ current' = [current EXCEPT ![w] = NoRow]
  /\ audience' = [audience EXCEPT ![w] = {}]
  /\ UNCHANGED <<now, data, tasks, asked, stored, unpushed, shared>>

\* the channel was deleted after the list was read
CreateFails(w) ==
  /\ pc[w] = "next"
  /\ \E s \in batch[w] : channel[s] \notin channels
  /\ BreakOff(w)
  /\ UNCHANGED <<cut, kills>>

Mark(w) ==
  LET s == current[w] IN
  /\ pc[w] = "mark"
  /\ s \in rows
  /\ sent' = sent \cup {s}
  /\ unpushed' = [unpushed EXCEPT ![s] = Reach(channel[s])]
  /\ pc' = [pc EXCEPT ![w] = "members"]
  /\ UNCHANGED <<now, channels, members, enabled, rows, at, channel, tasks,
                 batch, current, audience, asked, stored, shared, cut, kills>>

\* save() of a row that went with its channel becomes an insert, and the foreign key fails
MarkFails(w) ==
  /\ pc[w] = "mark"
  /\ current[w] \notin rows
  /\ BreakOff(w)
  /\ UNCHANGED <<cut, kills>>

\* mutant: the membership rows are taken for users
ReadMemberships(w) ==
  /\ pc[w] = "members"
  /\ audience' = [audience EXCEPT ![w] = {p \in members : p[2] = channel[current[w]]}]
  /\ pc' = [pc EXCEPT ![w] = "push"]
  /\ UNCHANGED <<now, data, tasks, batch, current, ghosts, kills>>

ReadMembers(w) ==
  /\ pc[w] = "members"
  /\ audience' = [audience EXCEPT ![w] = {u \in User : <<u, channel[current[w]]>> \in members}]
  /\ pc' = [pc EXCEPT ![w] = "push"]
  /\ UNCHANGED <<now, data, tasks, batch, current, ghosts, kills>>

Push(w) ==
  /\ pc[w] = "push"
  /\ \E u \in audience[w] :
       /\ audience' = [audience EXCEPT ![w] = @ \ {u}]
       /\ unpushed' = IF u \in enabled THEN [unpushed EXCEPT ![current[w]] = @ \ {u}]
                      ELSE unpushed
  /\ UNCHANGED <<now, data, tasks, pc, batch, current, asked, stored, shared, cut, kills>>

\* delay() raises: the broker is away
PushFails(w) ==
  /\ pc[w] = "push"
  /\ audience[w] \cap enabled # {}
  /\ BreakOff(w)
  /\ cut' = cut \cup {current[w]}
  /\ UNCHANGED kills

\* mutant: a break in the loop over the members
EndRowEarly(w) ==
  /\ pc[w] = "push"
  /\ pc' = [pc EXCEPT ![w] = IF batch[w] = {} THEN "idle" ELSE "next"]
  /\ current' = [current EXCEPT ![w] = NoRow]
  /\ audience' = [audience EXCEPT ![w] = {}]
  /\ UNCHANGED <<now, data, tasks, batch, ghosts, kills>>

EndRow(w) ==
  /\ pc[w] = "push"
  /\ audience[w] = {}
  /\ pc' = [pc EXCEPT ![w] = IF batch[w] = {} THEN "idle" ELSE "next"]
  /\ current' = [current EXCEPT ![w] = NoRow]
  /\ UNCHANGED <<now, data, tasks, batch, audience, ghosts, kills>>

---------------------------------------------------------------------------------
(* the environment *)

Tick ==
  /\ now < MaxTime
  /\ now' = now + 1
  /\ UNCHANGED <<data, tasks, runs, ghosts, kills>>

Beat ==
  /\ tasks < MaxTasks
  /\ tasks' = Enqueued(tasks)
  /\ UNCHANGED <<now, data, runs, ghosts, kills>>

\* A worker process dies.  Its task was acknowledged when it was taken: it is lost.
Kill(w) ==
  /\ kills < MaxKills
  /\ pc[w] # "idle"
  /\ BreakOff(w)
  /\ cut' = cut \cup ({current[w]} \ {NoRow})
  /\ kills' = kills + 1

---------------------------------------------------------------------------------

Init ==
  /\ now = 0
  /\ channels = Channel
  /\ members = {}
  /\ enabled = {}
  /\ rows = {}
  /\ at = [s \in Row |-> 0]
  /\ channel \in [Row -> Channel]
  /\ sent = {}
  /\ tasks = 0
  /\ pc = [w \in Worker |-> "idle"]
  /\ batch = [w \in Worker |-> {}]
  /\ current = [w \in Worker |-> NoRow]
  /\ audience = [w \in Worker |-> {}]
  /\ asked = {}
  /\ stored = [s \in Row |-> 0]
  /\ unpushed = [s \in Row |-> {}]
  /\ shared = {}
  /\ cut = {}
  /\ kills = 0

Run(w) ==
  \/ Fetch(w)
  \/ Create(w)
  \/ CreateFails(w)
  \/ Mark(w)
  \/ MarkFails(w)
  \/ ReadMembers(w)
  \/ Push(w)
  \/ PushFails(w)
  \/ EndRow(w)

Request ==
  \/ \E u \in User, s \in Row : ScheduleMessage(u, s)
  \/ \E c \in Channel : DeleteChannel(c)
  \/ \E u \in User, c \in Channel : AddMember(u, c) \/ RemoveMember(u, c)
  \/ \E u \in User : SetPreference(u)

Next ==
  \/ \E w \in Worker : Run(w) \/ Kill(w)
  \/ Request
  \/ Tick
  \/ Beat

Spec == Init /\ [][Next]_vars

(* Time passes, beat keeps beating, and a worker process that has something to do    *)
(* does it.  Requests, deaths and the broker's absence are never owed.               *)
Fairness ==
  /\ WF_vars(Tick)
  /\ WF_vars(Beat)
  /\ \A w \in Worker : WF_vars(Run(w))

FairSpec == Spec /\ Fairness

---------------------------------------------------------------------------------
(* Properties *)

TypeOK ==
  /\ now \in 0 .. MaxTime
  /\ channels \subseteq Channel
  /\ members \subseteq User \X Channel
  /\ enabled \subseteq User
  /\ rows \subseteq Row
  /\ at \in [Row -> 0 .. MaxTime]
  /\ channel \in [Row -> Channel]
  /\ sent \subseteq Row
  /\ tasks \in 0 .. MaxTasks
  /\ pc \in [Worker -> Place]
  /\ batch \in [Worker -> SUBSET Row]
  /\ current \in [Worker -> Row \cup {NoRow}]
  /\ audience \in [Worker -> SUBSET User]
  /\ asked \subseteq Row
  /\ stored \in [Row -> Nat]
  /\ unpushed \in [Row -> SUBSET User]
  /\ shared \subseteq Row
  /\ cut \subseteq Row
  /\ kills \in 0 .. MaxKills

(* A scheduled message is stored in its channel once.  Only two things store it      *)
(* again: two runs that had it in hand at the same time, and a run that broke off    *)
(* at it.                                                                           *)
StoredOnce == \A s \in Row : stored[s] <= 1 \/ s \in shared \cup cut

(* Whatever is marked sent was stored, however many runs there are and wherever      *)
(* they die: a death costs a duplicate, never the message.                          *)
SentIsStored == \A s \in sent : stored[s] >= 1

(* Every member with notifications on, from the moment the row is marked until the   *)
(* runs are through with it, is pushed about it, unless a run broke off at it.       *)
Busy(s) == \E w \in Worker : pc[w] \in {"members", "push"} /\ current[w] = s

MembersPushed ==
  \A s \in sent \ cut : ~Busy(s) => unpushed[s] = {}

(* A row that is due is marked sent, or goes with its channel, although runs die,    *)
(* break off and race one another.                                                  *)
DueIsSent ==
  \A s \in Row : (s \in rows /\ at[s] <= now) ~> (s \in sent \/ s \notin rows)

(* The test of the task, as a property: after a run, the channel has one message     *)
(* (tests/channel/channel_message_schedule/test_scheduled_message_task.py:52).      *)
OneMessage == \A s \in Row : stored[s] <= 1
================================================================================
