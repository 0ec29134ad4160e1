----------------------- MODULE OpenClawSettings_proofs ------------------------
(***************************************************************************)
(* What OpenClawSettings guarantees for every number of keys, channels,    *)
(* skills, requests, worker jobs and slots of the queue: types, copies     *)
(* that match the rows, tasks for the skills under way, and uninstalled    *)
(* skills that are gone.                                                   *)
(***************************************************************************)
EXTENDS MCOpenClaw, FiniteSetTheorems, TLAPS

\* The job is a task that has found its row.
Working(j) == \/ work[j].at \in {"gateway", "read", "confirm", "erase"}
              \/ work[j].at = "push" /\ j \in Workers

\* What a job holds at each of its steps.
Shape(j) ==
    LET w == work[j] IN
    /\ (w.copy # NULL)  <=> (w.at \in {"push", "commit"})
    /\ (w.task # NULL)  <=> (w.at \in {"enqueue", "find"} \/ Working(j))
    /\ (w.slot # NULL)  <=> (w.at = "find" \/ Working(j))
    /\ (w.skill # NULL) <=> Working(j)
    /\ w.at \in {"enqueue", "commit"} => j \in Clients
    /\ w.at \in {"find", "gateway", "read", "confirm", "erase"} => j \in Workers
    /\ j \in Workers => w.item = NULL /\ w.copy # "secret"
    /\ w.item # NULL => w.copy = Conf!CopyOf(w.item)
    /\ w.copy = "secret" => w.view \subseteq Keys
    /\ w.copy = "config" => w.view \subseteq Channels
    /\ w.skill # NULL => NameOf[w.skill] = w.task.name
    /\ w.slot # NULL => queue[w.slot] \in {NULL, w.task}
    /\ w.at = "erase" => w.task.action = "uninstall"
    /\ w.at = "push" /\ j \in Workers /\ w.task.action = "uninstall" => w.task.name \notin w.names

Shapes == \A j \in Conf!Jobs : Shape(j)

\* A task that is queued and that no job works on for another skill, or a job
\* with a task that may yet find the skill or has found it, belongs to s.
Owned(s) ==
    \/ \E q \in Slots : /\ queue[q] # NULL /\ queue[q].name = NameOf[s]
                        /\ \A j \in Conf!Jobs : work[j].slot = q => work[j].skill \in {NULL, s}
    \/ \E j \in Conf!Jobs : /\ work[j].task # NULL /\ work[j].task.name = NameOf[s]
                            /\ work[j].skill \in {NULL, s}

TasksOwned ==
    \A s \in Skills :
        skills[s] \in {"installing", "uninstalling"} /\ NameOf[s] \notin dropped => Owned(s)

\* Of the rows, those of the copy's table.
TableOf(copy) == IF copy = "secret" THEN Keys ELSE Channels

\* The rows as the job's commit makes them.
Flushed(j) == [i \in Conf!Items |-> IF i = work[j].item THEN work[j].to ELSE items[i]]

\* The job is alone at its copy, has read what its commit makes true, and
\* before it commits the copy is what it wrote.
Alone(j) ==
    /\ Conf!Rivals(j, work[j].copy) = {}
    /\ work[j].view = Conf!On(Flushed(j), TableOf(work[j].copy))
    /\ work[j].at = "commit" =>
          IF work[j].copy = "secret" THEN secret \in Conf!Secrets(work[j].view)
          ELSE config = [channels |-> work[j].view, names |-> work[j].names]

\* So is every job that nothing overlapped.
CleanAlone == \A j \in Conf!Jobs : work[j].copy # NULL /\ work[j].clean => Alone(j)

\* Two tasks for one name are noticed.
TasksCross ==
    \A v, w \in Workers :
        v # w /\ work[v].task # NULL /\ work[w].task # NULL /\ work[v].task.name = work[w].task.name
        => work[v].task.name \in skewed

\* Until another request or task for it, the row that is uninstalled is the
\* only one of its name.
UninstallsOne ==
    \A w \in Workers :
        work[w].skill # NULL /\ work[w].task.action = "uninstall" /\ work[w].task.name \notin skewed
        => Conf!RowsOf(work[w].task.name) = {work[w].skill} /\ skills[work[w].skill] = "uninstalling"

\* The name has no row, or is about to lose it.
Gone(n) == Conf!RowsOf(n) = {} \/ \E w \in Workers : work[w].at = "erase" /\ work[w].task.name = n

\* No job that nothing overlapped has read the name of a skill that is gone, and
\* the ConfigMap does not have it.
GoneUnread ==
    \A n \in Names \ skewed : Gone(n) =>
        /\ \A j \in Conf!Jobs : work[j].copy = "config" /\ work[j].clean => n \notin work[j].names
        /\ Conf!Untouched("config") /\ "config" \notin skewed => n \notin config.names

\* The inductive invariant.
IInv ==
    /\ Conf!TypeOK
    /\ Shapes
    /\ TasksOwned
    /\ CleanAlone
    /\ Conf!CopiesMatch
    /\ TasksCross
    /\ UninstallsOne
    /\ GoneUnread

-----------------------------------------------------------------------------
LEMMA Typed ==
    ASSUME Conf!TypeOK
    PROVE  /\ \A j \in Conf!Jobs : work[j] \in Conf!Job
           /\ NULL \notin Conf!Items /\ NULL \notin Conf!Copies /\ NULL \notin Conf!Task
           /\ NULL \notin Slots /\ NULL \notin Skills
           /\ \A t \in Conf!Task : t.name \in Names
           /\ \A s \in Skills : NameOf[s] \in Names
           /\ Keys \cap Channels = {} /\ Clients \cap Workers = {}
  BY SettingsAssumption, ClientsAssumption DEF Conf!TypeOK, Items, Copies, Task, Conf!Items,
     Conf!Copies, Conf!Task

LEMMA IdleTyped == Conf!Idle \in Conf!Job
  BY DEF Conf!Idle, Conf!Job, Conf!Activity

\* All but the mark that nothing overlaps the job.
Same(i) ==
    /\ work'[i].at = work[i].at /\ work'[i].copy = work[i].copy /\ work'[i].item = work[i].item
    /\ work'[i].to = work[i].to /\ work'[i].view = work[i].view /\ work'[i].names = work[i].names
    /\ work'[i].task = work[i].task /\ work'[i].slot = work[i].slot /\ work'[i].skill = work[i].skill

\* The others stay as they are, but that one more job may be at their copy.
Others(j) == \A i \in Conf!Jobs \ {j} : Same(i) /\ (work'[i].clean => work[i].clean)

\* A job that begins with a copy leaves nobody else at it that is clean.
LEMMA Entered ==
    ASSUME work \in [Conf!Jobs -> Conf!Job], NEW j \in Conf!Jobs, NEW next \in Conf!Job, Conf!Enter(j, next)
    PROVE  /\ work' \in [Conf!Jobs -> Conf!Job]
           /\ work'[j].at = next.at /\ work'[j].copy = next.copy /\ work'[j].item = next.item
           /\ work'[j].to = next.to /\ work'[j].view = next.view /\ work'[j].names = next.names
           /\ work'[j].task = next.task /\ work'[j].slot = next.slot /\ work'[j].skill = next.skill
           /\ work'[j].clean => Conf!Rivals(j, next.copy) = {}
           /\ Others(j)
           /\ \A i \in Conf!Jobs \ {j} : work[i].copy = next.copy => ~work'[i].clean
  <1> DEFINE alone == Conf!Rivals(j, next.copy) = {}
  <1>0. alone \in BOOLEAN
    OBVIOUS
  <1>1. work'[j] = [next EXCEPT !.clean = alone]
    BY DEF Conf!Enter
  <1>2. ASSUME NEW i \in Conf!Jobs, i # j
        PROVE  work'[i] = IF work[i].copy = next.copy THEN [work[i] EXCEPT !.clean = FALSE] ELSE work[i]
    BY <1>2 DEF Conf!Enter, Conf!Rivals
  <1> HIDE DEF alone
  <1>3. work'[j] \in Conf!Job /\ (work'[j].clean <=> alone)
    BY <1>0, <1>1 DEF Conf!Job
  <1>4. /\ work'[j].at = next.at /\ work'[j].copy = next.copy /\ work'[j].item = next.item
        /\ work'[j].to = next.to /\ work'[j].view = next.view /\ work'[j].names = next.names
        /\ work'[j].task = next.task /\ work'[j].slot = next.slot /\ work'[j].skill = next.skill
    BY <1>1 DEF Conf!Job
  <1>5. ASSUME NEW i \in Conf!Jobs, i # j
        PROVE  /\ work'[i] \in Conf!Job /\ Same(i)
               /\ (work'[i].clean => work[i].clean)
               /\ (work[i].copy = next.copy => ~work'[i].clean)
    <2>1. work[i] \in Conf!Job
      OBVIOUS
    <2>2. CASE work[i].copy = next.copy
      <3>1. work'[i] = [work[i] EXCEPT !.clean = FALSE]
        BY <1>2, <1>5, <2>2
      <3> QED BY <2>1, <3>1 DEF Conf!Job, Same
    <2>3. CASE work[i].copy # next.copy
      BY <1>2, <1>5, <2>1, <2>3 DEF Same
    <2> QED BY <2>2, <2>3
  <1>6. work' \in [Conf!Jobs -> Conf!Job]
    BY <1>3, <1>5 DEF Conf!Enter
  <1> QED BY <1>3, <1>4, <1>5, <1>6 DEF Others, alone

\* What the other steps leave of the other jobs.
LEMMA Kept ==
    ASSUME work \in [Conf!Jobs -> Conf!Job], NEW j \in Conf!Jobs, NEW next \in Conf!Job, work' = [work EXCEPT ![j] = next]
    PROVE  /\ work' \in [Conf!Jobs -> Conf!Job] /\ work'[j] = next
           /\ \A i \in Conf!Jobs \ {j} : work'[i] = work[i]
           /\ Others(j)
  BY DEF Others, Same

LEMMA Finished ==
    ASSUME work \in [Conf!Jobs -> Conf!Job], NEW j \in Conf!Jobs, Conf!Finish(j)
    PROVE  /\ work' \in [Conf!Jobs -> Conf!Job] /\ work'[j] = Conf!Idle
           /\ \A i \in Conf!Jobs \ {j} : work'[i] = work[i]
           /\ Others(j)
  BY IdleTyped, Kept DEF Conf!Finish

LEMMA RowsTyped ==
    ASSUME Conf!TypeOK, NEW i \in Conf!Items, NEW to
    PROVE  Conf!Viewed(i, to) \subseteq Conf!Items /\ Conf!On(items, Channels) \subseteq Channels
  BY DEF Conf!Viewed, Conf!On, Conf!Table, Conf!Items

LEMMA NamesTyped == ASSUME Conf!TypeOK, NEW S PROVE Conf!NamesIn(S) \subseteq Names
  BY Typed DEF Conf!NamesIn

LEMMA ReplaceTypes ==
    ASSUME Conf!TypeOK, Shapes, NEW j \in Conf!Jobs, Conf!Replace(j) \/ UNCHANGED <<secret, config>>,
           work[j].copy # NULL
    PROVE  secret' \subseteq Keys /\ config' \in [channels : SUBSET Channels, names : SUBSET Names]
  <1>1. work[j] \in Conf!Job /\ work[j].copy \in Conf!Copies
    BY Typed DEF Conf!Job
  <1>2. /\ work[j].copy = "secret" => work[j].view \subseteq Keys
        /\ work[j].copy = "config" => work[j].view \subseteq Channels
    BY DEF Shapes, Shape
  <1>3. work[j].names \subseteq Names
    BY <1>1 DEF Conf!Job
  <1> QED BY <1>1, <1>2, <1>3 DEF Conf!Replace, Conf!Secrets, Conf!TypeOK, Conf!Copies

\* What a job changes of itself as it begins with a copy.
Changing(j, i, to) ==
    [Conf!Idle EXCEPT !.at = "push", !.copy = Conf!CopyOf(i), !.item = IF to # items[i] THEN i ELSE NULL, !.to = to,
                 !.view = Conf!Viewed(i, to),
                 !.names = IF i \in Channels THEN Conf!NamesIn({"installed"}) ELSE {}]

LEMMA ChangingTyped ==
    ASSUME Conf!TypeOK, NEW j, NEW i \in Conf!Items, NEW to \in Conf!Activity
    PROVE  Changing(j, i, to) \in Conf!Job
  BY RowsTyped, NamesTyped, IdleTyped DEF Changing, Conf!Job, Conf!CopyOf, Conf!Copies

Reading(w) ==
    [work[w] EXCEPT !.at = "push", !.copy = "config", !.view = Conf!On(items, Channels), !.names = Conf!Listed(w)]

LEMMA ReadingTyped ==
    ASSUME Conf!TypeOK, NEW w \in Conf!Jobs
    PROVE  Reading(w) \in Conf!Job
  <1>1. Conf!Listed(w) \subseteq Names
    BY NamesTyped DEF Conf!Listed
  <1>2. Conf!On(items, Channels) \subseteq Conf!Items
    BY RowsTyped DEF Conf!Items, Conf!On
  <1> QED BY <1>1, <1>2, Typed DEF Reading, Conf!Job, Conf!Copies

\* What the job becomes at each step that is not the first at a copy.
Pushed(j, clean)   == [work[j] EXCEPT !.at = "commit", !.clean = clean]
Announced(s, act)  == [Conf!Idle EXCEPT !.at = "enqueue", !.task = [name |-> NameOf[s], action |-> act]]
Taken(q)           == [Conf!Idle EXCEPT !.at = "find", !.task = queue[q], !.slot = q]
AtRow(w, s)        == [work[w] EXCEPT !.at = "gateway", !.skill = s]
Asked(w, ok, at)   == [work[w] EXCEPT !.apiOk = ok, !.at = at]
Written(w, at)     == [work[w] EXCEPT !.at = at, !.copy = NULL, !.view = {}, !.names = {}, !.clean = TRUE]

LEMMA StepsTyped ==
    ASSUME Conf!TypeOK, NEW j \in Conf!Jobs
    PROVE  /\ \A clean \in BOOLEAN : Pushed(j, clean) \in Conf!Job
           /\ \A s \in Skills, act \in {"install", "uninstall"} : Announced(s, act) \in Conf!Job
           /\ \A q \in Slots : queue[q] # NULL => Taken(q) \in Conf!Job
           /\ \A s \in Skills : AtRow(j, s) \in Conf!Job
           /\ \A ok \in BOOLEAN, at \in {"read", "confirm"} : Asked(j, ok, at) \in Conf!Job
           /\ \A at \in {"erase", "confirm"} : Written(j, at) \in Conf!Job
  <1>1. work[j] \in Conf!Job /\ Conf!Idle \in Conf!Job
    BY Typed, IdleTyped
  <1>2. \A clean \in BOOLEAN : Pushed(j, clean) \in Conf!Job
    BY <1>1 DEF Conf!Job, Pushed
  <1>3. \A s \in Skills, act \in {"install", "uninstall"} : Announced(s, act) \in Conf!Job
    <2>1. \A s \in Skills, act \in {"install", "uninstall"} : [name |-> NameOf[s], action |-> act] \in Conf!Task
      BY Typed DEF Conf!Task
    <2>2. \A t \in Conf!Task : [Conf!Idle EXCEPT !.at = "enqueue", !.task = t] \in Conf!Job
      BY <1>1 DEF Conf!Job
    <2> QED BY <2>1, <2>2 DEF Announced
  <1>4. \A q \in Slots : queue[q] # NULL => Taken(q) \in Conf!Job
    <2>1. \A q \in Slots : queue[q] # NULL => queue[q] \in Conf!Task
      BY DEF Conf!TypeOK
    <2>2. \A t \in Conf!Task, q \in Slots : [Conf!Idle EXCEPT !.at = "find", !.task = t, !.slot = q] \in Conf!Job
      BY <1>1 DEF Conf!Job
    <2> QED BY <2>1, <2>2 DEF Taken
  <1>5. \A s \in Skills : AtRow(j, s) \in Conf!Job
    BY <1>1 DEF Conf!Job, AtRow
  <1>6. \A ok \in BOOLEAN, at \in {"read", "confirm"} : Asked(j, ok, at) \in Conf!Job
    BY <1>1 DEF Conf!Job, Asked
  <1>7. \A at \in {"erase", "confirm"} : Written(j, at) \in Conf!Job
    BY <1>1 DEF Conf!Job, Written
  <1> QED BY <1>2, <1>3, <1>4, <1>5, <1>6, <1>7

-----------------------------------------------------------------------------
(***************************************************************************)
(* The steps, as what they do to a job and to the rest.                    *)
(***************************************************************************)
Becomes(j, next) == /\ next \in Conf!Job /\ work' = [work EXCEPT ![j] = next]

LEMMA PushedNow ==
    ASSUME Conf!TypeOK, NEW j \in Conf!Jobs, NEW clean \in BOOLEAN, Becomes(j, Pushed(j, clean))
    PROVE  /\ Others(j) /\ work'[j].at = "commit" /\ work'[j].copy = work[j].copy
           /\ work'[j].item = work[j].item /\ work'[j].to = work[j].to /\ work'[j].view = work[j].view
           /\ work'[j].names = work[j].names /\ work'[j].clean = clean
           /\ work'[j].task = work[j].task /\ work'[j].slot = work[j].slot /\ work'[j].skill = work[j].skill
  <1>1. work'[j] = Pushed(j, clean) /\ Others(j)
    BY Kept DEF Becomes, Conf!TypeOK
  <1> QED BY <1>1, Typed DEF Pushed, Conf!Job

LEMMA AnnouncedNow ==
    ASSUME Conf!TypeOK, NEW j \in Conf!Jobs, NEW s \in Skills, NEW act \in {"install", "uninstall"},
           Becomes(j, Announced(s, act))
    PROVE  /\ Others(j) /\ work'[j].at = "enqueue" /\ work'[j].copy = NULL
           /\ work'[j].task # NULL /\ work'[j].task.name = NameOf[s]
           /\ work'[j].slot = NULL /\ work'[j].skill = NULL
  <1>1. work'[j] = Announced(s, act) /\ Others(j)
    BY Kept DEF Becomes, Conf!TypeOK
  <1>2. [name |-> NameOf[s], action |-> act] \in Conf!Task
    BY Typed DEF Conf!Task
  <1> QED BY <1>1, <1>2, Typed DEF Announced, Conf!Idle

LEMMA TakenNow ==
    ASSUME Conf!TypeOK, NEW j \in Conf!Jobs, NEW q \in Slots, Becomes(j, Taken(q))
    PROVE  /\ Others(j) /\ work'[j].at = "find" /\ work'[j].copy = NULL
           /\ work'[j].task = queue[q] /\ work'[j].slot = q /\ work'[j].skill = NULL
  <1>1. work'[j] = Taken(q) /\ Others(j)
    BY Kept DEF Becomes, Conf!TypeOK
  <1> QED BY <1>1 DEF Taken, Conf!Idle

LEMMA AtRowNow ==
    ASSUME Conf!TypeOK, NEW j \in Conf!Jobs, NEW s \in Skills, Becomes(j, AtRow(j, s))
    PROVE  /\ Others(j) /\ work'[j].at = "gateway" /\ work'[j].copy = work[j].copy
           /\ work'[j].task = work[j].task /\ work'[j].slot = work[j].slot /\ work'[j].skill = s
  <1>1. work'[j] = AtRow(j, s) /\ Others(j)
    BY Kept DEF Becomes, Conf!TypeOK
  <1> QED BY <1>1, Typed DEF AtRow, Conf!Job

LEMMA AskedNow ==
    ASSUME Conf!TypeOK, NEW j \in Conf!Jobs, NEW ok \in BOOLEAN, NEW at \in {"read", "confirm"},
           Becomes(j, Asked(j, ok, at))
    PROVE  /\ Others(j) /\ work'[j].at = at /\ work'[j].copy = work[j].copy
           /\ work'[j].task = work[j].task /\ work'[j].slot = work[j].slot /\ work'[j].skill = work[j].skill
  <1>1. work'[j] = Asked(j, ok, at) /\ Others(j)
    BY Kept DEF Becomes, Conf!TypeOK
  <1> QED BY <1>1, Typed DEF Asked, Conf!Job

LEMMA WrittenNow ==
    ASSUME Conf!TypeOK, NEW j \in Conf!Jobs, NEW at \in {"erase", "confirm"}, Becomes(j, Written(j, at))
    PROVE  /\ Others(j) /\ work'[j].at = at /\ work'[j].copy = NULL
           /\ work'[j].task = work[j].task /\ work'[j].slot = work[j].slot /\ work'[j].skill = work[j].skill
  <1>1. work'[j] = Written(j, at) /\ Others(j)
    BY Kept DEF Becomes, Conf!TypeOK
  <1> QED BY <1>1, Typed DEF Written, Conf!Job

LEMMA IdleNow ==
    ASSUME Conf!TypeOK, NEW j \in Conf!Jobs, Conf!Finish(j)
    PROVE  /\ Others(j) /\ work'[j].at = "idle" /\ work'[j].copy = NULL
           /\ work'[j].task = NULL /\ work'[j].slot = NULL /\ work'[j].skill = NULL
  <1>1. work'[j] = Conf!Idle /\ Others(j)
    BY Finished DEF Conf!TypeOK
  <1> QED BY <1>1 DEF Conf!Idle

LEMMA PushStep ==
    ASSUME Conf!TypeOK, NEW j \in Conf!Jobs, Conf!Push(j)
    PROVE  \E clean \in BOOLEAN :
              /\ Becomes(j, Pushed(j, clean))
              /\ clean => work[j].clean /\ Conf!Replace(j)
              /\ Conf!Replace(j) \/ UNCHANGED <<secret, config>>
  <1>1. work[j] \in Conf!Job /\ work[j].clean \in BOOLEAN
    BY Typed DEF Conf!Job
  <1>2. CASE Conf!Replace(j) /\ work' = [work EXCEPT ![j].at = "commit"]
    <2>1. work' = [work EXCEPT ![j] = Pushed(j, work[j].clean)]
      BY <1>1, <1>2 DEF Pushed, Conf!Job, Conf!TypeOK
    <2> QED BY <1>1, <1>2, <2>1, StepsTyped DEF Becomes
  <1>3. CASE work' = [work EXCEPT ![j].at = "commit", ![j].clean = FALSE]
    <2>1. work' = [work EXCEPT ![j] = Pushed(j, FALSE)]
      BY <1>3 DEF Pushed, Conf!TypeOK
    <2>2. Conf!Replace(j) \/ UNCHANGED <<secret, config>>
      BY DEF Conf!Push
    <2> QED BY <2>1, <2>2, StepsTyped DEF Becomes
  <1> QED BY <1>2, <1>3 DEF Conf!Push

\* A request that begins a change: what it holds, and that nobody else at the
\* copy is clean.
LEMMA ChangeStep ==
    ASSUME Conf!TypeOK, NEW j \in Conf!Jobs, Conf!Change(j)
    PROVE  \E i \in Conf!Items, to \in Conf!Activity :
              /\ j \in Clients /\ Conf!Free(j)
              /\ to # items[i] => \A k \in Clients : work[k].item # i
              /\ work' \in [Conf!Jobs -> Conf!Job]
              /\ work'[j].at = "push" /\ work'[j].copy = Conf!CopyOf(i)
              /\ work'[j].item = (IF to # items[i] THEN i ELSE NULL) /\ work'[j].to = to
              /\ work'[j].view = Conf!Viewed(i, to)
              /\ work'[j].names = IF i \in Channels THEN Conf!NamesIn({"installed"}) ELSE {}
              /\ work'[j].task = NULL /\ work'[j].slot = NULL /\ work'[j].skill = NULL
              /\ work'[j].clean => Conf!Rivals(j, Conf!CopyOf(i)) = {}
              /\ Others(j)
              /\ \A k \in Conf!Jobs \ {j} : work[k].copy = Conf!CopyOf(i) => ~work'[k].clean
  <1>1. PICK i \in Conf!Items, to \in Conf!Activity :
          /\ j \in Clients /\ Conf!Free(j)
          /\ to # items[i] => \A k \in Clients : work[k].item # i
          /\ Conf!Enter(j, Changing(j, i, to))
    BY DEF Conf!Change, Changing
  <1> DEFINE next == Changing(j, i, to)
  <1>2. next \in Conf!Job /\ Conf!Enter(j, next)
    BY <1>1, ChangingTyped
  <1>3. /\ next.at = "push" /\ next.copy = Conf!CopyOf(i)
        /\ next.item = (IF to # items[i] THEN i ELSE NULL) /\ next.to = to
        /\ next.view = Conf!Viewed(i, to)
        /\ next.names = IF i \in Channels THEN Conf!NamesIn({"installed"}) ELSE {}
        /\ next.task = NULL /\ next.slot = NULL /\ next.skill = NULL
    BY DEF Changing, Conf!Idle
  <1> HIDE DEF next
  <1>4. /\ work' \in [Conf!Jobs -> Conf!Job]
        /\ work'[j].at = next.at /\ work'[j].copy = next.copy /\ work'[j].item = next.item
        /\ work'[j].to = next.to /\ work'[j].view = next.view /\ work'[j].names = next.names
        /\ work'[j].task = next.task /\ work'[j].slot = next.slot /\ work'[j].skill = next.skill
        /\ work'[j].clean => Conf!Rivals(j, next.copy) = {}
        /\ Others(j)
        /\ \A k \in Conf!Jobs \ {j} : work[k].copy = next.copy => ~work'[k].clean
    BY <1>2, Entered DEF Conf!TypeOK
  <1> QED BY <1>1, <1>3, <1>4

\* The same for a task that reads what the ConfigMap will hold.
LEMMA ReadStep ==
    ASSUME Conf!TypeOK, NEW w \in Conf!Jobs, Conf!ReadConfig(w)
    PROVE  /\ w \in Workers /\ work[w].at = "read"
           /\ work' \in [Conf!Jobs -> Conf!Job]
           /\ work'[w].at = "push" /\ work'[w].copy = "config" /\ work'[w].item = work[w].item
           /\ work'[w].view = Conf!On(items, Channels) /\ work'[w].names = Conf!Listed(w)
           /\ work'[w].task = work[w].task /\ work'[w].slot = work[w].slot
           /\ work'[w].skill = work[w].skill
           /\ work'[w].clean => Conf!Rivals(w, "config") = {}
           /\ Others(w)
           /\ \A k \in Conf!Jobs \ {w} : work[k].copy = "config" => ~work'[k].clean
  <1> DEFINE next == Reading(w)
  <1>1. next \in Conf!Job /\ Conf!Enter(w, next) /\ w \in Workers /\ work[w].at = "read"
    BY ReadingTyped DEF Conf!ReadConfig, Reading
  <1>2. /\ next.at = "push" /\ next.copy = "config" /\ next.item = work[w].item
        /\ next.view = Conf!On(items, Channels) /\ next.names = Conf!Listed(w)
        /\ next.task = work[w].task /\ next.slot = work[w].slot /\ next.skill = work[w].skill
    BY Typed DEF Reading, Conf!Job
  <1> HIDE DEF next
  <1>3. /\ work' \in [Conf!Jobs -> Conf!Job]
        /\ work'[w].at = next.at /\ work'[w].copy = next.copy /\ work'[w].item = next.item
        /\ work'[w].view = next.view /\ work'[w].names = next.names
        /\ work'[w].task = next.task /\ work'[w].slot = next.slot /\ work'[w].skill = next.skill
        /\ work'[w].clean => Conf!Rivals(w, next.copy) = {}
        /\ Others(w)
        /\ \A k \in Conf!Jobs \ {w} : work[k].copy = next.copy => ~work'[k].clean
    BY <1>1, Entered DEF Conf!TypeOK
  <1> QED BY <1>1, <1>2, <1>3

LEMMA AnnounceStep ==
    ASSUME Conf!TypeOK, NEW j \in Conf!Jobs, Conf!Install(j) \/ Conf!Uninstall(j) \/ Conf!Upgrade(j)
    PROVE  \E s \in Skills, act \in {"install", "uninstall"} :
              /\ j \in Clients /\ Conf!Free(j)
              /\ skills' = [skills EXCEPT ![s] = IF act = "install" THEN "installing" ELSE "uninstalling"]
              /\ act = "uninstall" => Conf!RowsOf(NameOf[s]) = {s}
              /\ Becomes(j, Announced(s, act))
              /\ dropped' = IF Conf!RowsOf(NameOf[s]) \subseteq {s} THEN dropped \ {NameOf[s]} ELSE dropped
              /\ Conf!Cross(NameOf[s])
              /\ UNCHANGED <<items, running, secret, config, queue>>
  <1>1. CASE Conf!Install(j) \/ Conf!Upgrade(j)
    <2>1. PICK s \in Skills : j \in Clients /\ Conf!Free(j) /\ Conf!Announce(j, s, "installing", "install")
      BY <1>1 DEF Conf!Install, Conf!Upgrade
    <2>2. Becomes(j, Announced(s, "install"))
      BY <2>1, StepsTyped DEF Conf!Announce, Announced, Becomes
    <2> QED BY <2>1, <2>2 DEF Conf!Announce
  <1>2. CASE Conf!Uninstall(j)
    <2>1. PICK s \in Skills : /\ j \in Clients /\ Conf!Free(j) /\ Conf!RowsOf(NameOf[s]) = {s}
                              /\ Conf!Announce(j, s, "uninstalling", "uninstall")
      BY <1>2 DEF Conf!Uninstall
    <2>2. Becomes(j, Announced(s, "uninstall"))
      BY <2>1, StepsTyped DEF Conf!Announce, Announced, Becomes
    <2> QED BY <2>1, <2>2 DEF Conf!Announce
  <1> QED BY <1>1, <1>2

LEMMA TakeStep ==
    ASSUME Conf!TypeOK, NEW w \in Conf!Jobs, Conf!Take(w)
    PROVE  \E q \in Slots : /\ w \in Workers /\ Conf!Free(w) /\ queue[q] # NULL /\ queue[q] \in Conf!Task
                            /\ Becomes(w, Taken(q)) /\ Conf!Cross(queue[q].name)
  <1>1. PICK q \in Slots :
          /\ queue[q] # NULL
          /\ work' = [work EXCEPT ![w] = [Conf!Idle EXCEPT !.at = "find", !.task = queue[q], !.slot = q]]
          /\ Conf!Cross(queue[q].name)
    BY DEF Conf!Take
  <1>2. Becomes(w, Taken(q)) /\ queue[q] \in Conf!Task
    BY <1>1, StepsTyped DEF Taken, Becomes, Conf!TypeOK
  <1> QED BY <1>1, <1>2 DEF Conf!Take

\* The task is found to belong to the only row of its name.
LEMMA FindStep ==
    ASSUME Conf!TypeOK, NEW w \in Conf!Jobs, Conf!Find(w), ~Conf!EndTask(w)
    PROVE  \E s \in Skills :
              /\ Conf!RowsOf(work[w].task.name) = {s}
              /\ skills' = [skills EXCEPT ![s] = IF work[w].task.action = "install" THEN "installing"
                                                 ELSE "uninstalling"]
              /\ Becomes(w, AtRow(w, s)) /\ UNCHANGED <<queue, dropped>>
  <1>1. PICK s \in Conf!Found(w) :
             /\ skills' = [skills EXCEPT ![s] = IF work[w].task.action = "install" THEN "installing"
                                                ELSE "uninstalling"]
             /\ work' = [work EXCEPT ![w].at = "gateway", ![w].skill = s]
             /\ UNCHANGED <<queue, dropped>>
    BY DEF Conf!Find
  <1> DEFINE rows == Conf!RowsOf(work[w].task.name)
  <1>2. s \in rows /\ Cardinality(rows) = 1 /\ rows \subseteq Skills
    BY <1>1 DEF Conf!Found, Conf!RowsOf, Conf!Cardinality, Cardinality
  <1> HIDE DEF rows
  <1>3. IsFiniteSet(rows)
    BY <1>2, FS_Subset, SettingsAssumption
  <1>4. PICK t : rows = {t}
    BY <1>2, <1>3, FS_Singleton
  <1>5. rows = {s} /\ s \in Skills
    BY <1>2, <1>4
  <1>6. work' = [work EXCEPT ![w] = AtRow(w, s)]
    BY <1>1 DEF AtRow, Conf!TypeOK
  <1> QED BY <1>1, <1>5, <1>6, StepsTyped DEF Becomes, rows

LEMMA AskStep ==
    ASSUME Conf!TypeOK, NEW w \in Conf!Jobs, Conf!AskGateway(w)
    PROVE  \E ok \in BOOLEAN, at \in {"read", "confirm"} :
              /\ at = "confirm" => work[w].task.action = "install"
              /\ Becomes(w, Asked(w, ok, at))
  <1>1. PICK ok \in BOOLEAN :
          work' = [work EXCEPT ![w].apiOk = ok,
                             ![w].at = IF ok /\ work[w].task.action = "install" THEN "confirm" ELSE "read"]
    BY DEF Conf!AskGateway
  <1>2. CASE ok /\ work[w].task.action = "install"
    <2>1. Becomes(w, Asked(w, ok, "confirm"))
      BY <1>1, <1>2, StepsTyped DEF Asked, Becomes, Conf!TypeOK
    <2> QED BY <1>2, <2>1
  <1>3. CASE ~(ok /\ work[w].task.action = "install")
    <2>1. Becomes(w, Asked(w, ok, "read"))
      BY <1>1, <1>3, StepsTyped DEF Asked, Becomes, Conf!TypeOK
    <2> QED BY <2>1
  <1> QED BY <1>2, <1>3

\* The ConfigMap is written, or it may not be, and the worker leaves it.
LEMMA WriteStep ==
    ASSUME Conf!TypeOK, NEW w \in Conf!Jobs, Conf!PushConfig(w)
    PROVE  \E at \in {"erase", "confirm"} :
              /\ at = "erase" <=> work[w].task.action # "install"
              /\ Becomes(w, Written(w, at))
              /\ \/ Conf!Replace(w) /\ work[w].clean /\ skewed' = skewed \ {work[w].copy}
                 \/ (Conf!Replace(w) \/ UNCHANGED <<secret, config>>) /\ skewed' = skewed \cup {work[w].copy}
  <1> DEFINE at == IF work[w].task.action = "install" THEN "confirm" ELSE "erase"
  <1>1. at \in {"erase", "confirm"} /\ (at = "erase" <=> work[w].task.action # "install")
    OBVIOUS
  <1>2. work' = [work EXCEPT ![w] = Written(w, at)]
    BY DEF Conf!PushConfig, Written, Conf!TypeOK
  <1>3. \/ Conf!Replace(w) /\ work[w].clean /\ skewed' = skewed \ {work[w].copy}
        \/ (Conf!Replace(w) \/ UNCHANGED <<secret, config>>) /\ skewed' = skewed \cup {work[w].copy}
    BY DEF Conf!PushConfig, Conf!Judge
  <1> HIDE DEF at
  <1> QED BY <1>1, <1>2, <1>3, StepsTyped DEF Becomes

\* An end, of the task too when a worker has one.
Ends(j) == Conf!Finish(j) /\ (UNCHANGED queue \/ (j \in Workers /\ work[j].task # NULL /\ Conf!EndTask(j)))

LEMMA CrashStep ==
    ASSUME Conf!TypeOK, NEW j \in Conf!Jobs, Conf!Crash(j)
    PROVE  /\ Ends(j)
           /\ (work[j].at = "push" /\ Conf!Replace(j)) \/ UNCHANGED <<secret, config>>
           /\ skewed' = IF work[j].copy # NULL THEN skewed \cup {work[j].copy} ELSE skewed
           /\ dropped' = IF work[j].task # NULL THEN dropped \cup {work[j].task.name} ELSE dropped
           /\ UNCHANGED <<items, skills, running>>
  BY DEF Conf!Crash, Ends, Conf!EndTask

-----------------------------------------------------------------------------
\* A worker with a task has a slot.
LEMMA SlotTyped ==
    ASSUME Conf!TypeOK, Shapes, NEW w \in Conf!Jobs
    PROVE  /\ work[w].slot # NULL => work[w].slot \in Slots
           /\ work[w].task # NULL => work[w].task \in Conf!Task /\ work[w].task.name \in Names
           /\ work[w].skill # NULL => work[w].skill \in Skills
           /\ work[w].copy # NULL => work[w].copy \in Conf!Copies
           /\ work[w].names \subseteq Names
           /\ work[w].clean \in BOOLEAN
           /\ w \in Clients \/ w \in Workers
           /\ ~(w \in Clients /\ w \in Workers)
  <1>1. work[w] \in Conf!Job
    BY Typed
  <1>2. ~(w \in Clients /\ w \in Workers) /\ (w \in Clients \/ w \in Workers)
    BY Typed DEF Conf!Jobs
  <1>3. work[w].task # NULL => work[w].task \in Conf!Task /\ work[w].task.name \in Names
    BY <1>1, Typed DEF Conf!Job
  <1> QED BY <1>1, <1>2, <1>3 DEF Conf!Job

LEMMA EndTypes ==
    ASSUME Conf!TypeOK, Shapes, NEW w \in Conf!Jobs, Conf!EndTask(w)
    PROVE  queue' \in [Slots -> Conf!Task \cup {NULL}] /\ work' \in [Conf!Jobs -> Conf!Job]
  BY Finished DEF Conf!EndTask, Conf!TypeOK

LEMMA CrossTypes ==
    ASSUME Conf!TypeOK, NEW name \in Names, Conf!Cross(name)
    PROVE  skewed' \subseteq Conf!Copies \cup Names /\ skewed \subseteq skewed'
  BY DEF Conf!Cross, Conf!TypeOK

LEMMA NextTypes == ASSUME Conf!TypeOK, Shapes, Conf!Next PROVE Conf!TypeOK'
  <1>1. ASSUME NEW j \in Conf!Jobs, Conf!Change(j) PROVE Conf!TypeOK'
    <2>1. work' \in [Conf!Jobs -> Conf!Job]
      BY <1>1, ChangeStep
    <2> QED BY <1>1, <2>1 DEF Conf!Change, Conf!TypeOK
  <1>2. ASSUME NEW j \in Conf!Jobs, Conf!Install(j) \/ Conf!Uninstall(j) \/ Conf!Upgrade(j) PROVE Conf!TypeOK'
    <2>1. PICK s \in Skills, act \in {"install", "uninstall"} :
              /\ skills' = [skills EXCEPT ![s] = IF act = "install" THEN "installing" ELSE "uninstalling"]
              /\ Becomes(j, Announced(s, act))
              /\ dropped' = IF Conf!RowsOf(NameOf[s]) \subseteq {s} THEN dropped \ {NameOf[s]} ELSE dropped
              /\ Conf!Cross(NameOf[s])
              /\ UNCHANGED <<items, running, secret, config, queue>>
      BY <1>2, AnnounceStep
    <2>2. work' \in [Conf!Jobs -> Conf!Job] /\ skewed' \subseteq Conf!Copies \cup Names
      BY <2>1, Kept, CrossTypes, Typed DEF Becomes, Conf!TypeOK
    <2> QED BY <2>1, <2>2 DEF Conf!TypeOK, Conf!SkillStatus
  <1>3. ASSUME NEW j \in Conf!Jobs, Conf!Take(j) PROVE Conf!TypeOK'
    <2>1. PICK q \in Slots : /\ queue[q] \in Conf!Task
                             /\ Becomes(j, Taken(q)) /\ Conf!Cross(queue[q].name)
      BY <1>3, TakeStep
    <2>2. work' \in [Conf!Jobs -> Conf!Job] /\ skewed' \subseteq Conf!Copies \cup Names
      BY <2>1, Kept, CrossTypes, Typed DEF Becomes, Conf!TypeOK
    <2> QED BY <1>3, <2>2 DEF Conf!TypeOK, Conf!Take
  <1>4. ASSUME NEW j \in Conf!Jobs, Conf!Push(j) PROVE Conf!TypeOK'
    <2>1. PICK clean \in BOOLEAN : /\ Becomes(j, Pushed(j, clean))
                                   /\ Conf!Replace(j) \/ UNCHANGED <<secret, config>>
      BY <1>4, PushStep
    <2>2. work' \in [Conf!Jobs -> Conf!Job]
      BY <2>1, Kept DEF Becomes, Conf!TypeOK
    <2>3. secret' \subseteq Keys /\ config' \in [channels : SUBSET Channels, names : SUBSET Names]
      BY <1>4, <2>1, ReplaceTypes DEF Conf!Push, Shapes, Shape
    <2> QED BY <1>4, <2>2, <2>3 DEF Conf!TypeOK, Conf!Push
  <1>5. ASSUME NEW j \in Conf!Jobs, Conf!Commit(j) PROVE Conf!TypeOK'
    <2>1. work' \in [Conf!Jobs -> Conf!Job]
      BY <1>5, Finished DEF Conf!Commit, Conf!TypeOK
    <2>2. skewed' \subseteq Conf!Copies \cup Names
      BY <1>5, SlotTyped DEF Conf!Commit, Conf!Judge, Conf!TypeOK, Shapes, Shape
    <2>3. items' \in [Conf!Items -> Conf!Activity]
      BY <1>5, Typed DEF Conf!Commit, Conf!TypeOK, Conf!Job
    <2> QED BY <1>5, <2>1, <2>2, <2>3 DEF Conf!TypeOK, Conf!Commit
  <1>6. ASSUME NEW j \in Conf!Jobs, Conf!Enqueue(j) PROVE Conf!TypeOK'
    <2>1. work' \in [Conf!Jobs -> Conf!Job]
      BY <1>6, Finished DEF Conf!Enqueue, Conf!TypeOK
    <2>2. work[j].task \in Conf!Task /\ work[j].task.name \in Names
      BY <1>6, SlotTyped DEF Conf!Enqueue, Shapes, Shape
    <2>3. queue' \in [Slots -> Conf!Task \cup {NULL}] /\ dropped' \subseteq Names
      BY <1>6, <2>2 DEF Conf!Enqueue, Conf!TypeOK
    <2> QED BY <1>6, <2>1, <2>3 DEF Conf!TypeOK, Conf!Enqueue
  <1>7. ASSUME NEW j \in Conf!Jobs, Conf!Find(j) PROVE Conf!TypeOK'
    <2>1. work[j].task \in Conf!Task /\ work[j].task.name \in Names
      BY <1>7, SlotTyped DEF Conf!Find, Shapes, Shape
    <2>2. CASE Conf!EndTask(j)
      <3>1. work' \in [Conf!Jobs -> Conf!Job] /\ queue' \in [Slots -> Conf!Task \cup {NULL}]
        BY <2>2, EndTypes
      <3>2. skills' \in [Skills -> Conf!SkillStatus]
        BY <1>7 DEF Conf!Find, Conf!TypeOK, Conf!SkillStatus
      <3>3. dropped' \subseteq Names
        BY <1>7, <2>1 DEF Conf!Find, Conf!TypeOK
      <3> QED BY <1>7, <3>1, <3>2, <3>3 DEF Conf!TypeOK, Conf!Find
    <2>3. CASE ~Conf!EndTask(j)
      <3>1. PICK s \in Skills :
              /\ skills' = [skills EXCEPT ![s] = IF work[j].task.action = "install" THEN "installing"
                                                 ELSE "uninstalling"]
              /\ Becomes(j, AtRow(j, s)) /\ UNCHANGED <<queue, dropped>>
        BY <1>7, <2>3, FindStep
      <3>2. work' \in [Conf!Jobs -> Conf!Job] /\ skills' \in [Skills -> Conf!SkillStatus]
        BY <3>1, Kept DEF Becomes, Conf!TypeOK, Conf!SkillStatus
      <3> QED BY <1>7, <3>1, <3>2 DEF Conf!TypeOK, Conf!Find
    <2> QED BY <2>2, <2>3
  <1>8. ASSUME NEW j \in Conf!Jobs, Conf!AskGateway(j) PROVE Conf!TypeOK'
    <2>1. PICK ok \in BOOLEAN, at \in {"read", "confirm"} : Becomes(j, Asked(j, ok, at))
      BY <1>8, AskStep
    <2>2. work' \in [Conf!Jobs -> Conf!Job]
      BY <2>1, Kept DEF Becomes, Conf!TypeOK
    <2> QED BY <1>8, <2>2 DEF Conf!TypeOK, Conf!AskGateway
  <1>9. ASSUME NEW j \in Conf!Jobs, Conf!ReadConfig(j) PROVE Conf!TypeOK'
    <2>1. work' \in [Conf!Jobs -> Conf!Job]
      BY <1>9, ReadStep
    <2> QED BY <1>9, <2>1 DEF Conf!ReadConfig, Conf!TypeOK
  <1>10. ASSUME NEW j \in Conf!Jobs, Conf!PushConfig(j) PROVE Conf!TypeOK'
    <2>1. PICK at \in {"erase", "confirm"} :
              /\ Becomes(j, Written(j, at))
              /\ \/ Conf!Replace(j) /\ work[j].clean /\ skewed' = skewed \ {work[j].copy}
                 \/ (Conf!Replace(j) \/ UNCHANGED <<secret, config>>) /\ skewed' = skewed \cup {work[j].copy}
      BY <1>10, WriteStep
    <2>2. work[j].copy # NULL /\ work[j].copy \in Conf!Copies
      BY <1>10, SlotTyped DEF Conf!PushConfig, Shapes, Shape
    <2>3. work' \in [Conf!Jobs -> Conf!Job] /\ skewed' \subseteq Conf!Copies \cup Names
      BY <2>1, <2>2, Kept DEF Becomes, Conf!TypeOK
    <2>4. secret' \subseteq Keys /\ config' \in [channels : SUBSET Channels, names : SUBSET Names]
      BY <2>1, <2>2, ReplaceTypes
    <2> QED BY <1>10, <2>3, <2>4 DEF Conf!TypeOK, Conf!PushConfig
  <1>11. ASSUME NEW j \in Conf!Jobs, Conf!Confirm(j) \/ Conf!Erase(j) PROVE Conf!TypeOK'
    <2>1. work' \in [Conf!Jobs -> Conf!Job] /\ queue' \in [Slots -> Conf!Task \cup {NULL}]
      BY <1>11, EndTypes DEF Conf!Confirm, Conf!Erase
    <2>2. skills' \in [Skills -> Conf!SkillStatus]
      BY <1>11 DEF Conf!Confirm, Conf!Erase, Conf!TypeOK, Conf!SkillStatus
    <2> QED BY <1>11, <2>1, <2>2 DEF Conf!TypeOK, Conf!Confirm, Conf!Erase
  <1>12. ASSUME NEW j \in Conf!Jobs, Conf!Crash(j) PROVE Conf!TypeOK'
    <2>1. work' \in [Conf!Jobs -> Conf!Job] /\ queue' \in [Slots -> Conf!Task \cup {NULL}]
      BY <1>12, CrashStep, EndTypes, Finished DEF Ends, Conf!TypeOK
    <2>2. skewed' \subseteq Conf!Copies \cup Names /\ dropped' \subseteq Names
      BY <1>12, CrashStep, SlotTyped DEF Conf!TypeOK
    <2>3. secret' \subseteq Keys /\ config' \in [channels : SUBSET Channels, names : SUBSET Names]
      <3>1. CASE work[j].at = "push" /\ Conf!Replace(j)
        BY <3>1, ReplaceTypes DEF Shapes, Shape
      <3>2. CASE UNCHANGED <<secret, config>>
        BY <3>2 DEF Conf!TypeOK
      <3> QED BY <1>12, <3>1, <3>2, CrashStep
    <2> QED BY <1>12, <2>1, <2>2, <2>3, CrashStep DEF Conf!TypeOK
  <1>13. ASSUME Conf!Switch PROVE Conf!TypeOK'
    BY <1>13 DEF Conf!Switch, Conf!TypeOK
  <1> QED BY <1>1, <1>2, <1>3, <1>4, <1>5, <1>6, <1>7, <1>8, <1>9, <1>10, <1>11, <1>12, <1>13
        DEF Conf!Next, Conf!Proceed

-----------------------------------------------------------------------------
\* In no slot another task appears where a job has one.
Stable == \A q \in Slots : queue'[q] \in {NULL, queue[q]}

LEMMA ShapeKept ==
    ASSUME Conf!TypeOK, Shapes, NEW i \in Conf!Jobs, Same(i),
           work[i].slot # NULL => queue'[work[i].slot] \in {NULL, queue[work[i].slot]}
    PROVE  Shape(i)'
  <1>1. Shape(i)
    BY DEF Shapes
  <1>2. Working(i)' <=> Working(i)
    BY DEF Working, Same
  <1>3. work[i].slot # NULL => queue'[work[i].slot] \in {NULL, work[i].task}
    BY <1>1 DEF Shape
  <1> QED BY <1>1, <1>2, <1>3 DEF Shape, Same

LEMMA IdleShape == ASSUME Conf!TypeOK, NEW i \in Conf!Jobs, work'[i] = Conf!Idle PROVE Shape(i)'
  BY Typed DEF Shape, Working, Conf!Idle, Conf!Copies

LEMMA ShapesKept ==
    ASSUME Conf!TypeOK, Shapes, NEW j \in Conf!Jobs, Others(j), Shape(j)', UNCHANGED queue \/ Stable
    PROVE  Shapes'
  <1>1. ASSUME NEW i \in Conf!Jobs, i # j PROVE Shape(i)'
    <2>1. work[i].slot # NULL => queue'[work[i].slot] \in {NULL, queue[work[i].slot]}
      BY SlotTyped DEF Stable
    <2> QED BY <1>1, <2>1, ShapeKept DEF Others
  <1> QED BY <1>1 DEF Shapes

LEMMA EndStable ==
    ASSUME Conf!TypeOK, Shapes, NEW w \in Conf!Jobs, Conf!EndTask(w)
    PROVE  Stable
  BY DEF Conf!EndTask, Stable, Conf!TypeOK

LEMMA NextShapes == ASSUME Conf!TypeOK, Shapes, Conf!Next PROVE Shapes'
  <1>0. Conf!TypeOK'
    BY NextTypes
  <1>1. ASSUME NEW j \in Conf!Jobs, Conf!Change(j) PROVE Shapes'
    <2>1. PICK i \in Conf!Items, to \in Conf!Activity :
              /\ Others(j)
              /\ work'[j].at = "push" /\ work'[j].copy = Conf!CopyOf(i)
              /\ work'[j].item \in {NULL, i} /\ work'[j].view = Conf!Viewed(i, to)
              /\ work'[j].task = NULL /\ work'[j].slot = NULL /\ work'[j].skill = NULL
      BY <1>1, ChangeStep
    <2>2. j \in Clients /\ j \notin Workers /\ UNCHANGED queue /\ Conf!CopyOf(i) # NULL
      BY <1>1, Typed DEF Conf!Change, Conf!CopyOf, Conf!Copies
    <2>4. Conf!Viewed(i, to) \subseteq Conf!Table(i)
      BY DEF Conf!Viewed, Conf!On
    <2>5. Shape(j)'
      BY <2>1, <2>2, <2>4 DEF Shape, Working, Conf!CopyOf, Conf!Table
    <2> QED BY <2>1, <2>2, <2>5, ShapesKept
  <1>2. ASSUME NEW j \in Conf!Jobs, Conf!Install(j) \/ Conf!Uninstall(j) \/ Conf!Upgrade(j) PROVE Shapes'
    <2>1. PICK s \in Skills, act \in {"install", "uninstall"} :
              j \in Clients /\ Becomes(j, Announced(s, act)) /\ UNCHANGED queue
      BY <1>2, AnnounceStep
    <2>2. work'[j] = Announced(s, act) /\ Others(j) /\ Announced(s, act) \in Conf!Job
      BY <2>1, Kept DEF Becomes, Conf!TypeOK
    <2>3. work'[j].task # NULL
      <3>1. [name |-> NameOf[s], action |-> act] \in Conf!Task
        BY Typed DEF Conf!Task
      <3> QED BY <2>2, <3>1, Typed DEF Announced, Conf!Idle
    <2>4. Shape(j)'
      BY <2>1, <2>2, <2>3, Typed DEF Shape, Working, Announced, Conf!Idle, Conf!Copies
    <2> QED BY <2>1, <2>2, <2>4, ShapesKept
  <1>3. ASSUME NEW j \in Conf!Jobs, Conf!Take(j) PROVE Shapes'
    <2>1. PICK q \in Slots : j \in Workers /\ queue[q] # NULL /\ Becomes(j, Taken(q)) /\ UNCHANGED queue
      BY <1>3, TakeStep DEF Conf!Take
    <2>2. work'[j] = Taken(q) /\ Others(j)
      BY <2>1, Kept DEF Becomes, Conf!TypeOK
    <2>3. Shape(j)'
      BY <2>1, <2>2, Typed DEF Shape, Working, Taken, Conf!Idle, Conf!Copies
    <2> QED BY <2>1, <2>2, <2>3, ShapesKept
  <1>4. ASSUME NEW j \in Conf!Jobs, Conf!Push(j) PROVE Shapes'
    <2>1. PICK clean \in BOOLEAN : Becomes(j, Pushed(j, clean)) /\ j \in Clients /\ work[j].at = "push"
      BY <1>4, PushStep DEF Conf!Push
    <2>2. work'[j] = Pushed(j, clean) /\ Others(j) /\ UNCHANGED queue
      BY <1>4, <2>1, Kept DEF Becomes, Conf!TypeOK, Conf!Push
    <2>3. /\ work'[j].at = "commit" /\ work'[j].copy = work[j].copy /\ work'[j].item = work[j].item
          /\ work'[j].view = work[j].view /\ work'[j].task = work[j].task /\ work'[j].slot = work[j].slot
          /\ work'[j].skill = work[j].skill
      BY <2>2, Typed DEF Pushed, Conf!Job
    <2>4. Shape(j) /\ j \notin Workers
      BY <2>1, SlotTyped DEF Shapes
    <2>5. Shape(j)'
      BY <2>1, <2>3, <2>4 DEF Shape, Working
    <2> QED BY <2>2, <2>5, ShapesKept
  <1>5. ASSUME NEW j \in Conf!Jobs, Conf!Finish(j), UNCHANGED queue \/ Stable PROVE Shapes'
    BY <1>5, Finished, IdleShape, ShapesKept DEF Conf!TypeOK
  <1>6. ASSUME NEW j \in Conf!Jobs, Conf!Enqueue(j) PROVE Shapes'
    <2>1. work'[j] = Conf!Idle /\ Others(j)
      BY <1>6, Finished DEF Conf!Enqueue, Conf!TypeOK
    <2>2. ASSUME NEW i \in Conf!Jobs, i # j PROVE Shape(i)'
      <3>1. work[i].slot # NULL => work[i].slot \in Slots /\ i \in Workers
        BY SlotTyped DEF Shapes, Shape, Working
      <3>2. work[i].slot # NULL => queue'[work[i].slot] = queue[work[i].slot]
        BY <1>6, <3>1 DEF Conf!Enqueue, Conf!TypeOK
      <3> QED BY <2>1, <2>2, <3>2, ShapeKept DEF Others
    <2> QED BY <2>1, <2>2, IdleShape DEF Shapes
  <1>7. ASSUME NEW j \in Conf!Jobs, Conf!EndTask(j) PROVE Shapes'
    BY <1>5, <1>7, EndStable DEF Conf!EndTask
  <1>8. ASSUME NEW j \in Conf!Jobs, Conf!Find(j), ~Conf!EndTask(j) PROVE Shapes'
    <2>1. PICK s \in Skills : /\ Conf!RowsOf(work[j].task.name) = {s} /\ Becomes(j, AtRow(j, s))
                              /\ UNCHANGED queue
      BY <1>8, FindStep
    <2>2. work'[j] = AtRow(j, s) /\ Others(j)
      BY <2>1, Kept DEF Becomes, Conf!TypeOK
    <2>3. /\ work'[j].at = "gateway" /\ work'[j].copy = work[j].copy /\ work'[j].item = work[j].item
          /\ work'[j].view = work[j].view /\ work'[j].task = work[j].task /\ work'[j].slot = work[j].slot
          /\ work'[j].skill = s
      BY <2>2, Typed DEF AtRow, Conf!Job
    <2>4. Shape(j) /\ work[j].at = "find" /\ NameOf[s] = work[j].task.name
      BY <1>8, <2>1 DEF Conf!Find, Shapes, Conf!RowsOf
    <2>5. Shape(j)'
      BY <2>1, <2>3, <2>4, Typed DEF Shape, Working
    <2> QED BY <2>1, <2>2, <2>5, ShapesKept
  <1>9. ASSUME NEW j \in Conf!Jobs, Conf!AskGateway(j) PROVE Shapes'
    <2>1. PICK ok \in BOOLEAN, at \in {"read", "confirm"} : Becomes(j, Asked(j, ok, at)) /\ UNCHANGED queue
      BY <1>9, AskStep DEF Conf!AskGateway
    <2>2. work'[j] = Asked(j, ok, at) /\ Others(j)
      BY <2>1, Kept DEF Becomes, Conf!TypeOK
    <2>3. /\ work'[j].at = at /\ work'[j].copy = work[j].copy /\ work'[j].item = work[j].item
          /\ work'[j].view = work[j].view /\ work'[j].task = work[j].task /\ work'[j].slot = work[j].slot
          /\ work'[j].skill = work[j].skill
      BY <2>2, Typed DEF Asked, Conf!Job
    <2>4. Shape(j) /\ work[j].at = "gateway"
      BY <1>9 DEF Conf!AskGateway, Shapes
    <2>5. Shape(j)'
      BY <2>1, <2>3, <2>4 DEF Shape, Working
    <2> QED BY <2>1, <2>2, <2>5, ShapesKept
  <1>10. ASSUME NEW j \in Conf!Jobs, Conf!ReadConfig(j) PROVE Shapes'
    <2>1. UNCHANGED queue /\ j \in Workers /\ work[j].at = "read"
      BY <1>10 DEF Conf!ReadConfig
    <2>2. /\ Others(j)
          /\ work'[j].at = "push" /\ work'[j].copy = "config" /\ work'[j].item = work[j].item
          /\ work'[j].view = Conf!On(items, Channels) /\ work'[j].task = work[j].task
          /\ work'[j].slot = work[j].slot /\ work'[j].skill = work[j].skill /\ work'[j].names = Conf!Listed(j)
      BY <1>10, ReadStep
    <2>3. Shape(j) /\ "config" # NULL
      BY Typed DEF Shapes, Conf!Copies
    <2>4. work[j].task.action = "uninstall" => work[j].task.name \notin Conf!Listed(j)
      BY DEF Conf!Listed
    <2>5. Conf!On(items, Channels) \subseteq Channels
      BY RowsTyped DEF Conf!On
    <2>6. Shape(j)'
      BY <2>1, <2>2, <2>3, <2>4, <2>5 DEF Shape, Working
    <2> QED BY <2>1, <2>2, <2>6, ShapesKept
  <1>11. ASSUME NEW j \in Conf!Jobs, Conf!PushConfig(j) PROVE Shapes'
    <2>1. PICK at \in {"erase", "confirm"} :
              /\ at = "erase" <=> work[j].task.action # "install"
              /\ Becomes(j, Written(j, at)) /\ UNCHANGED queue /\ j \in Workers /\ work[j].at = "push"
      BY <1>11, WriteStep DEF Conf!PushConfig
    <2>2. work'[j] = Written(j, at) /\ Others(j)
      BY <2>1, Kept DEF Becomes, Conf!TypeOK
    <2>3. /\ work'[j].at = at /\ work'[j].copy = NULL /\ work'[j].item = work[j].item
          /\ work'[j].task = work[j].task /\ work'[j].slot = work[j].slot
          /\ work'[j].skill = work[j].skill
      BY <2>2, Typed DEF Written, Conf!Job
    <2>4. Shape(j) /\ work[j].task \in Conf!Task /\ "secret" # NULL /\ "config" # NULL
      BY <2>1, SlotTyped, Typed DEF Shapes, Shape, Working, Conf!Copies
    <2>5. at = "erase" => work[j].task.action = "uninstall"
      BY <2>1, <2>4 DEF Conf!Task
    <2>6. Shape(j)'
      BY <2>1, <2>3, <2>4, <2>5 DEF Shape, Working
    <2> QED BY <2>1, <2>2, <2>6, ShapesKept
  <1>12. ASSUME Conf!Switch PROVE Shapes'
    BY <1>12 DEF Conf!Switch, Shapes, Shape, Working
  <1>13. ASSUME NEW j \in Conf!Jobs, Conf!Crash(j) PROVE Shapes'
    BY <1>5, <1>13, CrashStep, EndStable DEF Ends
  <1>14. ASSUME NEW j \in Conf!Jobs, Conf!Commit(j) PROVE Shapes'
    BY <1>5, <1>14 DEF Conf!Commit
  <1> QED BY <1>1, <1>2, <1>3, <1>4, <1>6, <1>7, <1>8, <1>9, <1>10, <1>11, <1>12, <1>13, <1>14
        DEF Conf!Next, Conf!Proceed, Conf!Confirm, Conf!Erase

-----------------------------------------------------------------------------
(***************************************************************************)
(* Tasks: which of them belong to a skill.                                 *)
(***************************************************************************)
Queued(s, q) == /\ queue[q] # NULL /\ queue[q].name = NameOf[s]
                /\ \A j \in Conf!Jobs : work[j].slot = q => work[j].skill \in {NULL, s}
Held(s, j)   == /\ work[j].task # NULL /\ work[j].task.name = NameOf[s]
                /\ work[j].skill \in {NULL, s}

LEMMA OwnedIs ==
    ASSUME NEW s
    PROVE  Owned(s) <=> (\E q \in Slots : Queued(s, q)) \/ (\E j \in Conf!Jobs : Held(s, j))
  BY DEF Owned, Queued, Held

\* The job that moves is not the one that holds the task, or still does.
LEMMA OwnedKept ==
    ASSUME NEW s, NEW j \in Conf!Jobs, Others(j), Owned(s),
           \A q \in Slots : Queued(s, q) => /\ queue'[q] = queue[q]
                                            /\ work'[j].slot = q => work'[j].skill \in {NULL, s},
           Held(s, j) => Owned(s)'
    PROVE  Owned(s)'
  <1>1. CASE \E q \in Slots : Queued(s, q)
    <2>1. PICK q \in Slots : Queued(s, q)
      BY <1>1
    <2>2. Queued(s, q)'
      BY <2>1 DEF Queued, Others, Same
    <2> QED BY <2>2 DEF Owned, Queued
  <1>2. CASE \E i \in Conf!Jobs : Held(s, i)
    <2>1. PICK i \in Conf!Jobs : Held(s, i)
      BY <1>2
    <2>2. CASE i = j
      BY <2>1, <2>2
    <2>3. CASE i # j
      BY <2>1, <2>3 DEF Held, Owned, Others, Same
    <2> QED BY <2>2, <2>3
  <1> QED BY <1>1, <1>2, OwnedIs

\* A task that ends, of another skill.
LEMMA OwnedEnds ==
    ASSUME Conf!TypeOK, Shapes, NEW s \in Skills, NEW w \in Conf!Jobs, Owned(s), ~Held(s, w),
           Conf!EndTask(w) \/ (Conf!Finish(w) /\ UNCHANGED queue)
    PROVE  Owned(s)'
  <1>1. work'[w] = Conf!Idle /\ Others(w)
    BY Finished DEF Conf!TypeOK, Conf!EndTask
  <1>2. ASSUME NEW q \in Slots, Queued(s, q), Conf!EndTask(w) PROVE queue'[q] = queue[q]
    <2>1. SUFFICES ASSUME q = work[w].slot PROVE FALSE
      BY <1>2 DEF Conf!EndTask, Conf!TypeOK
    <2>2. work[w].slot # NULL /\ Shape(w)
      BY <2>1, Typed DEF Shapes
    <2>3. queue[q] = work[w].task
      BY <1>2, <2>1, <2>2 DEF Shape, Queued
    <2> QED BY <1>2, <2>1, <2>3 DEF Queued, Held
  <1>3. work'[w].slot = NULL
    BY <1>1 DEF Conf!Idle
  <1>4. \A q \in Slots : Queued(s, q) => /\ queue'[q] = queue[q]
                                         /\ work'[w].slot = q => work'[w].skill \in {NULL, s}
    BY <1>2, <1>3, Typed
  <1> QED BY <1>1, <1>4, OwnedKept

LEMMA NextTasksOwned == ASSUME Conf!TypeOK, Shapes, TasksOwned, Conf!Next PROVE TasksOwned'
  <1> USE DEF TasksOwned
  <1> DEFINE Under(s) == skills[s] \in {"installing", "uninstalling"} /\ NameOf[s] \notin dropped
  <1>0. \A s \in Skills : Under(s) => Owned(s)
    OBVIOUS
  <1>a. ASSUME NEW j \in Conf!Jobs, Others(j), UNCHANGED <<skills, queue, dropped>>,
               work'[j].task = work[j].task, work'[j].slot = work[j].slot, work'[j].skill = work[j].skill
        PROVE  TasksOwned'
    <2>1. ASSUME NEW s \in Skills, Under(s)' PROVE Owned(s)'
      <3>1. Owned(s)
        BY <1>a, <2>1
      <3>2. \A q \in Slots : Queued(s, q) => /\ queue'[q] = queue[q]
                                             /\ work'[j].slot = q => work'[j].skill \in {NULL, s}
        BY <1>a DEF Queued
      <3>3. Held(s, j) => Owned(s)'
        BY <1>a DEF Held, Owned
      <3> QED BY <1>a, <3>1, <3>2, <3>3, OwnedKept
    <2> QED BY <2>1
  <1>b. \A j \in Conf!Jobs : Conf!Free(j) => work[j].task = NULL /\ work[j].slot = NULL /\ work[j].skill = NULL
    BY DEF Conf!Free, Shapes, Shape, Working
  <1>1. ASSUME NEW j \in Conf!Jobs, Conf!Change(j) PROVE TasksOwned'
    BY <1>1, <1>a, <1>b, ChangeStep DEF Conf!Change
  <1>2. ASSUME NEW j \in Conf!Jobs, Conf!Install(j) \/ Conf!Uninstall(j) \/ Conf!Upgrade(j) PROVE TasksOwned'
    <2>1. PICK n \in Skills, act \in {"install", "uninstall"} :
              /\ Conf!Free(j)
              /\ skills' = [skills EXCEPT ![n] = IF act = "install" THEN "installing" ELSE "uninstalling"]
              /\ Becomes(j, Announced(n, act))
              /\ dropped' = IF Conf!RowsOf(NameOf[n]) \subseteq {n} THEN dropped \ {NameOf[n]} ELSE dropped
              /\ UNCHANGED queue
      BY <1>2, AnnounceStep
    <2>2. work'[j] = Announced(n, act) /\ Others(j)
      BY <2>1, Kept DEF Becomes, Conf!TypeOK
    <2>3. /\ work'[j].task # NULL /\ work'[j].task.name = NameOf[n]
          /\ work'[j].slot = NULL /\ work'[j].skill = NULL
      <3>1. [name |-> NameOf[n], action |-> act] \in Conf!Task
        BY Typed DEF Conf!Task
      <3> QED BY <2>2, <3>1, Typed DEF Announced, Conf!Idle
    <2>4. ASSUME NEW s \in Skills, Under(s)' PROVE Owned(s)'
      <3>1. CASE NameOf[s] = NameOf[n]
        BY <2>3, <3>1 DEF Owned
      <3>2. CASE NameOf[s] # NameOf[n]
        <4>1. skills'[s] = skills[s] /\ NameOf[s] \notin dropped
          BY <2>1, <2>4, <3>2 DEF Conf!TypeOK
        <4>2. Owned(s)
          BY <1>0, <2>4, <4>1
        <4>3. ~Held(s, j)
          BY <1>b, <2>1 DEF Held
        <4> QED BY <2>1, <2>2, <2>3, <4>2, <4>3, OwnedKept
      <3> QED BY <3>1, <3>2
    <2> QED BY <2>4
  <1>3. ASSUME NEW j \in Conf!Jobs, Conf!Take(j) PROVE TasksOwned'
    <2>1. PICK q \in Slots : Conf!Free(j) /\ Becomes(j, Taken(q))
      BY <1>3, TakeStep
    <2>2. work'[j] = Taken(q) /\ Others(j) /\ UNCHANGED <<skills, queue, dropped>>
      BY <1>3, <2>1, Kept DEF Becomes, Conf!TypeOK, Conf!Take
    <2>3. work'[j].skill = NULL
      BY <2>2 DEF Taken, Conf!Idle
    <2>4. ASSUME NEW s \in Skills, Under(s)' PROVE Owned(s)'
      <3>1. Owned(s) /\ ~Held(s, j)
        BY <1>0, <1>b, <2>1, <2>2, <2>4 DEF Held
      <3> QED BY <2>2, <2>3, <3>1, OwnedKept
    <2> QED BY <2>4
  <1>4. ASSUME NEW j \in Conf!Jobs, Conf!Push(j) PROVE TasksOwned'
    <2>1. PICK clean \in BOOLEAN : Becomes(j, Pushed(j, clean))
      BY <1>4, PushStep
    <2>2. work'[j] = Pushed(j, clean) /\ Others(j)
      BY <2>1, Kept DEF Becomes, Conf!TypeOK
    <2>3. work'[j].task = work[j].task /\ work'[j].slot = work[j].slot /\ work'[j].skill = work[j].skill
      BY <2>2, Typed DEF Pushed, Conf!Job
    <2> QED BY <1>4, <1>a, <2>2, <2>3 DEF Conf!Push
  <1>5. ASSUME NEW j \in Conf!Jobs, Conf!Commit(j) PROVE TasksOwned'
    <2>1. work'[j] = Conf!Idle /\ Others(j) /\ UNCHANGED <<skills, queue, dropped>>
      BY <1>5, Finished DEF Conf!Commit, Conf!TypeOK
    <2>2. work[j].task = NULL /\ work[j].slot = NULL /\ work[j].skill = NULL
      BY <1>5 DEF Conf!Commit, Shapes, Shape, Working
    <2> QED BY <1>a, <2>1, <2>2 DEF Conf!Idle
  <1>6. ASSUME NEW j \in Conf!Jobs, Conf!Enqueue(j) PROVE TasksOwned'
    <2>1. work'[j] = Conf!Idle /\ Others(j) /\ work'[j].slot = NULL
      <3>1. work'[j] = Conf!Idle /\ Others(j)
        BY <1>6, Finished DEF Conf!Enqueue, Conf!TypeOK
      <3> QED BY <3>1 DEF Conf!Idle
    <2>2. work[j].task # NULL /\ UNCHANGED skills
      BY <1>6 DEF Conf!Enqueue, Shapes, Shape
    <2>3. CASE UNCHANGED queue /\ dropped' = dropped \cup {work[j].task.name}
      <3>1. ASSUME NEW s \in Skills, Under(s)' PROVE Owned(s)'
        <4>1. Owned(s) /\ NameOf[s] # work[j].task.name
          BY <1>0, <2>2, <2>3, <3>1
        <4>2. ~Held(s, j)
          BY <4>1 DEF Held
        <4> QED BY <1>6, <2>3, <4>1, <4>2, OwnedEnds DEF Conf!Enqueue
      <3> QED BY <3>1
    <2>4. CASE UNCHANGED dropped
              /\ \E q \in Slots : /\ queue[q] = NULL /\ \A w \in Workers : work[w].slot # q
                                  /\ queue' = [queue EXCEPT ![q] = work[j].task]
      <3>1. PICK q \in Slots : /\ queue[q] = NULL /\ \A w \in Workers : work[w].slot # q
                               /\ queue' = [queue EXCEPT ![q] = work[j].task]
        BY <2>4
      <3>2. queue'[q] = work[j].task /\ \A p \in Slots : p # q => queue'[p] = queue[p]
        BY <3>1 DEF Conf!TypeOK
      <3>3. \A i \in Conf!Jobs : work'[i].slot # q
        <4>1. \A i \in Conf!Jobs : work[i].slot # NULL => i \in Workers
          BY DEF Shapes, Shape, Working
        <4>2. \A i \in Conf!Jobs : work[i].slot # q
          BY <3>1, <4>1, Typed
        <4> QED BY <2>1, <4>2, Typed DEF Others, Same
      <3>4. ASSUME NEW s \in Skills, Under(s)' PROVE Owned(s)'
        <4>1. Owned(s)
          BY <1>0, <2>2, <2>4, <3>4
        <4>2. Held(s, j) => Owned(s)'
          BY <2>2, <3>2, <3>3 DEF Held, Owned
        <4>3. \A p \in Slots : Queued(s, p) => queue'[p] = queue[p] /\ work'[j].slot # p
          BY <2>1, <3>1, <3>2, Typed DEF Queued
        <4> QED BY <2>1, <4>1, <4>2, <4>3, OwnedKept
      <3> QED BY <3>4
    <2> QED BY <1>6, <2>3, <2>4 DEF Conf!Enqueue
  <1>7. ASSUME NEW j \in Conf!Jobs, Conf!Find(j), Conf!EndTask(j) PROVE TasksOwned'
    <2>1. UNCHANGED skills /\ dropped' = dropped \cup {work[j].task.name}
      <3>1. work'[j].at = "idle" /\ ~(work' = [work EXCEPT ![j].at = "gateway", ![j].skill = work'[j].skill])
        BY <1>7, Finished DEF Conf!EndTask, Conf!TypeOK, Conf!Idle
      <3>2. ASSUME NEW s, work' = [work EXCEPT ![j].at = "gateway", ![j].skill = s] PROVE FALSE
        BY <3>1, <3>2, Typed DEF Conf!TypeOK, Conf!Job
      <3> QED BY <1>7, <3>2 DEF Conf!Find
    <2>2. ASSUME NEW s \in Skills, Under(s)' PROVE Owned(s)'
      <3>1. Owned(s) /\ ~Held(s, j)
        BY <1>0, <2>1, <2>2 DEF Held
      <3> QED BY <1>7, <3>1, OwnedEnds
    <2> QED BY <2>2
  <1>8. ASSUME NEW j \in Conf!Jobs, Conf!Find(j), ~Conf!EndTask(j) PROVE TasksOwned'
    <2>1. PICK n \in Skills :
              /\ Conf!RowsOf(work[j].task.name) = {n}
              /\ skills' = [skills EXCEPT ![n] = IF work[j].task.action = "install" THEN "installing"
                                                 ELSE "uninstalling"]
              /\ Becomes(j, AtRow(j, n)) /\ UNCHANGED <<queue, dropped>>
      BY <1>8, FindStep
    <2>2. work'[j] = AtRow(j, n) /\ Others(j)
      BY <2>1, Kept DEF Becomes, Conf!TypeOK
    <2>3. work'[j].task = work[j].task /\ work'[j].slot = work[j].slot /\ work'[j].skill = n
      BY <2>2, Typed DEF AtRow, Conf!Job
    <2>4. work[j].task # NULL /\ NameOf[n] = work[j].task.name /\ Shape(j)
      BY <1>8, <2>1 DEF Conf!Find, Shapes, Shape, Conf!RowsOf
    <2>5. ASSUME NEW s \in Skills, Under(s)' PROVE Owned(s)'
      <3>1. CASE s = n
        BY <2>3, <2>4, <3>1 DEF Owned
      <3>2. CASE s # n
        <4>1. skills'[s] = skills[s] /\ NameOf[s] # NameOf[n]
          <5>1. skills'[s] = skills[s]
            BY <2>1, <3>2 DEF Conf!TypeOK
          <5>2. s \notin Conf!RowsOf(work[j].task.name) /\ skills[s] # "none"
            BY <2>1, <2>5, <3>2, <5>1
          <5> QED BY <2>4, <5>1, <5>2 DEF Conf!RowsOf
        <4>2. Owned(s) /\ ~Held(s, j)
          BY <1>0, <2>1, <2>4, <2>5, <4>1 DEF Held
        <4>3. ASSUME NEW q \in Slots, Queued(s, q) PROVE work'[j].slot # q
          BY <2>3, <2>4, <4>1, <4>3, Typed DEF Queued, Shape
        <4> QED BY <2>1, <2>2, <4>2, <4>3, OwnedKept
      <3> QED BY <3>1, <3>2
    <2> QED BY <2>5
  <1>9. ASSUME NEW j \in Conf!Jobs, Conf!AskGateway(j) PROVE TasksOwned'
    <2>1. PICK ok \in BOOLEAN, at \in {"read", "confirm"} : Becomes(j, Asked(j, ok, at))
      BY <1>9, AskStep
    <2>2. work'[j] = Asked(j, ok, at) /\ Others(j)
      BY <2>1, Kept DEF Becomes, Conf!TypeOK
    <2>3. work'[j].task = work[j].task /\ work'[j].slot = work[j].slot /\ work'[j].skill = work[j].skill
      BY <2>2, Typed DEF Asked, Conf!Job
    <2> QED BY <1>9, <1>a, <2>2, <2>3 DEF Conf!AskGateway
  <1>10. ASSUME NEW j \in Conf!Jobs, Conf!ReadConfig(j) PROVE TasksOwned'
    BY <1>10, <1>a, ReadStep DEF Conf!ReadConfig
  <1>11. ASSUME NEW j \in Conf!Jobs, Conf!PushConfig(j) PROVE TasksOwned'
    <2>1. PICK at \in {"erase", "confirm"} : Becomes(j, Written(j, at))
      BY <1>11, WriteStep
    <2>2. work'[j] = Written(j, at) /\ Others(j)
      BY <2>1, Kept DEF Becomes, Conf!TypeOK
    <2>3. work'[j].task = work[j].task /\ work'[j].slot = work[j].slot /\ work'[j].skill = work[j].skill
      BY <2>2, Typed DEF Written, Conf!Job
    <2> QED BY <1>11, <1>a, <2>2, <2>3 DEF Conf!PushConfig
  <1>12. ASSUME NEW j \in Conf!Jobs, Conf!Confirm(j) \/ Conf!Erase(j) PROVE TasksOwned'
    <2>1. Conf!EndTask(j) /\ UNCHANGED dropped
      BY <1>12 DEF Conf!Confirm, Conf!Erase
    <2>2. PICK n \in Skills : n = work[j].skill
      BY <1>12, SlotTyped DEF Conf!Confirm, Conf!Erase, Shapes, Shape, Working
    <2>3. /\ skills'[n] \notin {"installing", "uninstalling"}
          /\ \A s \in Skills : s # n => skills'[s] = skills[s]
      BY <1>12, <2>2 DEF Conf!Confirm, Conf!Erase, Conf!TypeOK
    <2>4. ASSUME NEW s \in Skills, Under(s)' PROVE Owned(s)'
      <3>1. s # n
        BY <2>3, <2>4
      <3>2. Owned(s) /\ ~Held(s, j)
        BY <1>0, <2>1, <2>2, <2>3, <2>4, <3>1, Typed DEF Held
      <3> QED BY <2>1, <3>2, OwnedEnds
    <2> QED BY <2>4
  <1>13. ASSUME NEW j \in Conf!Jobs, Conf!Crash(j) PROVE TasksOwned'
    <2>1. ASSUME NEW s \in Skills, Under(s)' PROVE Owned(s)'
      <3>1. Owned(s) /\ ~Held(s, j)
        BY <1>0, <1>13, <2>1, CrashStep DEF Held
      <3>2. Conf!EndTask(j) \/ (Conf!Finish(j) /\ UNCHANGED queue)
        BY <1>13, CrashStep DEF Ends
      <3> QED BY <3>1, <3>2, OwnedEnds
    <2> QED BY <2>1
  <1>14. ASSUME Conf!Switch PROVE TasksOwned'
    BY <1>14 DEF Conf!Switch, Owned
  <1> QED BY <1>1, <1>2, <1>3, <1>4, <1>5, <1>6, <1>7, <1>8, <1>9, <1>10, <1>11, <1>12, <1>13, <1>14
        DEF Conf!Next, Conf!Proceed

-----------------------------------------------------------------------------
(***************************************************************************)
(* Copies.                                                                 *)
(***************************************************************************)
Step(j) == \/ Conf!Change(j) \/ Conf!Install(j) \/ Conf!Uninstall(j) \/ Conf!Upgrade(j) \/ Conf!Take(j)
           \/ Conf!Proceed(j) \/ Conf!Crash(j)

\* The rows of a copy's table, and the copy.
Stays(d) == /\ \A x \in TableOf(d) : items'[x] = items[x]
            /\ IF d = "secret" THEN secret' = secret ELSE config' = config

\* Of the copies that j is not at it leaves everything.
Aside(j) == \A d \in Conf!Copies : d # work[j].copy => Stays(d) /\ (d \in skewed' <=> d \in skewed)

LEMMA ItemsTable ==
    ASSUME Conf!TypeOK
    PROVE  /\ \A d \in Conf!Copies : \A x \in TableOf(d) : x \in Conf!Items /\ Conf!CopyOf(x) = d
           /\ \A x \in Conf!Items : Conf!CopyOf(x) \in Conf!Copies /\ TableOf(Conf!CopyOf(x)) = Conf!Table(x)
  BY Typed DEF TableOf, Conf!CopyOf, Conf!Copies, Conf!Items, Conf!Table

LEMMA ReplaceAside ==
    ASSUME Conf!TypeOK, NEW j, Conf!Replace(j) \/ UNCHANGED <<secret, config>>, UNCHANGED items,
           NEW d \in Conf!Copies, d # work[j].copy, work[j].copy \in Conf!Copies
    PROVE  Stays(d)
  BY DEF Conf!Replace, Conf!Copies, Stays

LEMMA CrossAside ==
    ASSUME Conf!TypeOK, NEW n \in Names, Conf!Cross(n), NEW d \in Conf!Copies
    PROVE  d \in skewed' <=> d \in skewed
  BY SettingsAssumption DEF Conf!Cross, Conf!Copies, Copies

\* Most steps change neither rows of keys and channels nor copies.
LEMMA QuietAside ==
    ASSUME NEW j, UNCHANGED <<items, secret, config, skewed>>
    PROVE  Aside(j)
  BY DEF Aside, Stays

LEMMA StepAside ==
    ASSUME Conf!TypeOK, Shapes, NEW j \in Conf!Jobs, Step(j)
    PROVE  Others(j) /\ Aside(j)
  <1>1. CASE Conf!Change(j)
    BY <1>1, ChangeStep, QuietAside DEF Conf!Change
  <1>2. CASE Conf!Install(j) \/ Conf!Uninstall(j) \/ Conf!Upgrade(j)
    <2>1. PICK s \in Skills, act \in {"install", "uninstall"} :
              /\ Becomes(j, Announced(s, act)) /\ Conf!Cross(NameOf[s])
              /\ UNCHANGED <<items, secret, config>>
      BY <1>2, AnnounceStep
    <2>2. \A d \in Conf!Copies : d \in skewed' <=> d \in skewed
      BY <2>1, CrossAside, Typed
    <2>3. Others(j)
      BY <2>1, Kept DEF Becomes, Conf!TypeOK
    <2> QED BY <2>1, <2>2, <2>3 DEF Aside, Stays
  <1>3. CASE Conf!Take(j)
    <2>1. PICK q \in Slots : queue[q] \in Conf!Task /\ Becomes(j, Taken(q)) /\ Conf!Cross(queue[q].name)
      BY <1>3, TakeStep
    <2>2. \A d \in Conf!Copies : d \in skewed' <=> d \in skewed
      BY <2>1, CrossAside, Typed
    <2>3. Others(j)
      BY <2>1, Kept DEF Becomes, Conf!TypeOK
    <2> QED BY <1>3, <2>2, <2>3 DEF Aside, Stays, Conf!Take
  <1>4. CASE Conf!Push(j)
    <2>1. PICK clean \in BOOLEAN : /\ Becomes(j, Pushed(j, clean))
                                   /\ Conf!Replace(j) \/ UNCHANGED <<secret, config>>
      BY <1>4, PushStep
    <2>2. Others(j)
      BY <2>1, Kept DEF Becomes, Conf!TypeOK
    <2>3. work[j].copy \in Conf!Copies
      BY <1>4, SlotTyped DEF Conf!Push, Shapes, Shape
    <2> QED BY <1>4, <2>1, <2>2, <2>3, ReplaceAside DEF Aside, Conf!Push
  <1>5. CASE Conf!Commit(j)
    <2>1. Others(j) /\ Shape(j)
      BY <1>5, Finished DEF Conf!Commit, Conf!TypeOK, Shapes
    <2>2. ASSUME NEW d \in Conf!Copies, d # work[j].copy PROVE Stays(d) /\ (d \in skewed' <=> d \in skewed)
      <3>1. \A x \in TableOf(d) : x \in Conf!Items /\ x # work[j].item /\ x # NULL
        BY <2>1, <2>2, ItemsTable, Typed DEF Shape
      <3> QED BY <1>5, <2>2, <3>1 DEF Conf!Commit, Stays, Conf!Judge
    <2> QED BY <2>1, <2>2 DEF Aside
  <1>6. CASE Conf!Enqueue(j)
    BY <1>6, Finished, QuietAside DEF Conf!Enqueue, Conf!TypeOK
  <1>7. CASE Conf!Find(j)
    <2>1. CASE Conf!EndTask(j)
      BY <1>7, <2>1, Finished, QuietAside DEF Conf!Find, Conf!EndTask, Conf!TypeOK
    <2>2. CASE ~Conf!EndTask(j)
      <3>1. PICK s \in Skills : Becomes(j, AtRow(j, s))
        BY <1>7, <2>2, FindStep
      <3>2. Others(j)
        BY <3>1, Kept DEF Becomes, Conf!TypeOK
      <3> QED BY <1>7, <3>2, QuietAside DEF Conf!Find
    <2> QED BY <2>1, <2>2
  <1>8. CASE Conf!AskGateway(j)
    <2>1. PICK ok \in BOOLEAN, at \in {"read", "confirm"} : Becomes(j, Asked(j, ok, at))
      BY <1>8, AskStep
    <2>2. Others(j)
      BY <2>1, Kept DEF Becomes, Conf!TypeOK
    <2> QED BY <1>8, <2>2, QuietAside DEF Conf!AskGateway
  <1>9. CASE Conf!ReadConfig(j)
    BY <1>9, ReadStep, QuietAside DEF Conf!ReadConfig
  <1>10. CASE Conf!PushConfig(j)
    <2>1. PICK at \in {"erase", "confirm"} :
              /\ Becomes(j, Written(j, at))
              /\ \/ Conf!Replace(j) /\ skewed' = skewed \ {work[j].copy}
                 \/ (Conf!Replace(j) \/ UNCHANGED <<secret, config>>) /\ skewed' = skewed \cup {work[j].copy}
      BY <1>10, WriteStep
    <2>2. Others(j)
      BY <2>1, Kept DEF Becomes, Conf!TypeOK
    <2>3. work[j].copy \in Conf!Copies
      BY <1>10, SlotTyped DEF Conf!PushConfig, Shapes, Shape
    <2>4. \A d \in Conf!Copies : d # work[j].copy => Stays(d)
      BY <1>10, <2>1, <2>3, ReplaceAside DEF Conf!PushConfig
    <2> QED BY <2>1, <2>2, <2>4 DEF Aside
  <1>11. CASE Conf!Confirm(j) \/ Conf!Erase(j)
    BY <1>11, Finished, QuietAside DEF Conf!Confirm, Conf!Erase, Conf!EndTask, Conf!TypeOK
  <1>12. CASE Conf!Crash(j)
    <2>1. Others(j)
      BY <1>12, CrashStep, Finished DEF Ends, Conf!TypeOK
    <2>2. work[j].at = "push" => work[j].copy \in Conf!Copies
      BY SlotTyped DEF Shapes, Shape
    <2>3. \A d \in Conf!Copies : d # work[j].copy => Stays(d)
      <3>1. CASE UNCHANGED <<secret, config>>
        BY <1>12, <3>1, CrashStep DEF Stays
      <3>2. CASE work[j].at = "push" /\ Conf!Replace(j)
        BY <1>12, <2>2, <3>2, CrashStep, ReplaceAside
      <3> QED BY <1>12, <3>1, <3>2, CrashStep
    <2> QED BY <1>12, <2>1, <2>3, CrashStep DEF Aside
  <1> QED BY <1>1, <1>2, <1>3, <1>4, <1>5, <1>6, <1>7, <1>8, <1>9, <1>10, <1>11, <1>12
        DEF Step, Conf!Proceed

\* What a step makes of the copy of the job: a job comes to a copy only as it
\* enters, and others at the copy are no longer clean.
LEMMA StepCopy ==
    ASSUME Conf!TypeOK, Shapes, NEW j \in Conf!Jobs, Step(j)
    PROVE  \/ work'[j].copy \in {work[j].copy, NULL}
           \/ \A i \in Conf!Jobs \ {j} : work[i].copy = work'[j].copy => ~work'[i].clean
  <1>1. CASE Conf!Change(j)
    BY <1>1, ChangeStep
  <1>2. CASE Conf!ReadConfig(j)
    BY <1>2, ReadStep
  <1>3. CASE Conf!Push(j)
    BY <1>3, PushStep, PushedNow
  <1>4. ASSUME Conf!Finish(j) PROVE work'[j].copy = NULL
    BY <1>4, IdleNow
  <1>5. CASE Conf!Commit(j) \/ Conf!Enqueue(j) \/ Conf!Confirm(j) \/ Conf!Erase(j) \/ Conf!Crash(j)
    BY <1>4, <1>5, CrashStep DEF Conf!Commit, Conf!Enqueue, Conf!Confirm, Conf!Erase,
       Conf!EndTask, Ends
  <1>6. CASE Conf!Find(j)
    BY <1>4, <1>6, FindStep, AtRowNow DEF Conf!EndTask
  <1>7. CASE Conf!AskGateway(j)
    BY <1>7, AskStep, AskedNow
  <1>8. CASE Conf!PushConfig(j)
    BY <1>8, WriteStep, WrittenNow
  <1>9. CASE Conf!Install(j) \/ Conf!Uninstall(j) \/ Conf!Upgrade(j)
    BY <1>9, AnnounceStep, AnnouncedNow
  <1>10. CASE Conf!Take(j)
    BY <1>10, TakeStep, TakenNow
  <1> QED BY <1>1, <1>2, <1>3, <1>5, <1>6, <1>7, <1>8, <1>9, <1>10 DEF Step, Conf!Proceed

\* A job is at a copy only between its change, or its reading, and its commit.
LEMMA NextCleanAlone == ASSUME Conf!TypeOK, Shapes, CleanAlone, Conf!Next PROVE CleanAlone'
  <1> USE DEF CleanAlone
  <1>a. ASSUME NEW j \in Conf!Jobs, Step(j),
               work'[j].copy # NULL /\ work'[j].clean => Alone(j)'
        PROVE  CleanAlone'
    <2>1. Others(j) /\ Aside(j)
      BY <1>a, StepAside
    <2>2. ASSUME NEW i \in Conf!Jobs, i # j, work'[i].copy # NULL, work'[i].clean PROVE Alone(i)'
      <3>1. Same(i) /\ work[i].clean /\ work[i].copy # NULL
        BY <2>1, <2>2 DEF Others, Same
      <3>2. Alone(i) /\ work[i].copy \in Conf!Copies
        BY <3>1, SlotTyped
      <3>3. work[j].copy # work[i].copy
        BY <2>2, <3>2 DEF Alone, Conf!Rivals
      <3>4. work'[j].copy # work[i].copy
        BY <1>a, <2>2, <3>1, <3>3, StepCopy
      <3>5. Stays(work[i].copy)
        BY <2>1, <3>2, <3>3 DEF Aside
      <3>6. Conf!Rivals(i, work[i].copy)' = {}
        BY <2>1, <3>1, <3>2, <3>4 DEF Alone, Conf!Rivals, Others, Same
      <3>7. Conf!On(Flushed(i), TableOf(work[i].copy))' = Conf!On(Flushed(i), TableOf(work[i].copy))
        <4>1. \A x \in TableOf(work[i].copy) : Flushed(i)'[x] = Flushed(i)[x]
          BY <3>1, <3>2, <3>5, ItemsTable DEF Stays, Flushed, Same
        <4>2. TableOf(work[i].copy)' = TableOf(work[i].copy)
          BY <3>1 DEF TableOf, Same
        <4> QED BY <4>1, <4>2 DEF Conf!On
      <3>8. work[i].at = "commit" =>
              IF work[i].copy = "secret" THEN secret' \in Conf!Secrets(work[i].view)
              ELSE config' = [channels |-> work[i].view, names |-> work[i].names]
        BY <3>2, <3>5 DEF Alone, Stays
      <3> QED BY <3>1, <3>2, <3>6, <3>7, <3>8 DEF Alone, Conf!Rivals, Same
    <2> QED BY <1>a, <2>2
  <1>1. ASSUME NEW j \in Conf!Jobs, Conf!Change(j) PROVE CleanAlone'
    <2>1. PICK i \in Conf!Items, to \in Conf!Activity :
              /\ work'[j].at = "push" /\ work'[j].copy = Conf!CopyOf(i)
              /\ work'[j].item = (IF to # items[i] THEN i ELSE NULL) /\ work'[j].to = to
              /\ work'[j].view = Conf!Viewed(i, to)
              /\ work'[j].clean => Conf!Rivals(j, Conf!CopyOf(i)) = {}
              /\ Others(j)
      BY <1>1, ChangeStep
    <2>2. ASSUME work'[j].clean PROVE Conf!Rivals(j, Conf!CopyOf(i))' = {}
      BY <2>1, <2>2 DEF Conf!Rivals, Others, Same
    <2>3. Conf!Viewed(i, to) = Conf!On(Flushed(j), TableOf(Conf!CopyOf(i)))'
      <3>1. TableOf(Conf!CopyOf(i)) = Conf!Table(i) /\ Conf!Table(i) \subseteq Conf!Items
        BY ItemsTable DEF Conf!Table, Conf!Items
      <3>2. \A x \in Conf!Items : [items EXCEPT ![i] = to][x] = Flushed(j)'[x]
        BY <1>1, <2>1, Typed DEF Conf!Change, Flushed, Conf!TypeOK
      <3> QED BY <3>1, <3>2 DEF Conf!Viewed, Conf!On
    <2>4. work'[j].clean => Alone(j)'
      BY <2>1, <2>2, <2>3 DEF Alone, Conf!Rivals
    <2> QED BY <1>1, <1>a, <2>4 DEF Step
  <1>2. ASSUME NEW j \in Conf!Jobs, Conf!ReadConfig(j) PROVE CleanAlone'
    <2>1. /\ j \in Workers
          /\ work'[j].at = "push" /\ work'[j].copy = "config" /\ work'[j].item = work[j].item
          /\ work'[j].view = Conf!On(items, Channels)
          /\ work'[j].clean => Conf!Rivals(j, "config") = {}
          /\ Others(j) /\ UNCHANGED items
      BY <1>2, ReadStep DEF Conf!ReadConfig
    <2>2. ASSUME work'[j].clean PROVE Conf!Rivals(j, "config")' = {}
      BY <2>1, <2>2 DEF Conf!Rivals, Others, Same
    <2>3. Conf!On(items, Channels) = Conf!On(Flushed(j), TableOf("config"))'
      <3>1. TableOf("config") = Channels /\ Channels \subseteq Conf!Items /\ work[j].item = NULL
        BY <2>1 DEF TableOf, Conf!Items, Shapes, Shape
      <3>2. \A x \in Conf!Items : items[x] = Flushed(j)'[x]
        BY <2>1, <3>1, Typed DEF Flushed
      <3> QED BY <3>1, <3>2 DEF Conf!On
    <2>4. work'[j].clean => Alone(j)'
      BY <2>1, <2>2, <2>3 DEF Alone, Conf!Rivals, TableOf
    <2> QED BY <1>2, <1>a, <2>4 DEF Step, Conf!Proceed
  <1>3. ASSUME NEW j \in Conf!Jobs, Conf!Push(j) PROVE CleanAlone'
    <2>1. PICK clean \in BOOLEAN : /\ Becomes(j, Pushed(j, clean))
                                   /\ clean => work[j].clean /\ Conf!Replace(j)
      BY <1>3, PushStep
    <2>2. /\ Others(j) /\ work'[j].at = "commit" /\ work'[j].copy = work[j].copy
          /\ work'[j].item = work[j].item /\ work'[j].to = work[j].to /\ work'[j].view = work[j].view
          /\ work'[j].names = work[j].names /\ work'[j].clean = clean /\ UNCHANGED items
      BY <1>3, <2>1, PushedNow DEF Conf!Push
    <2>3. ASSUME clean, work[j].copy # NULL PROVE Alone(j)'
      <3>1. Alone(j) /\ Conf!Replace(j)
        BY <2>1, <2>3
      <3>2. Conf!Rivals(j, work[j].copy)' = {}
        BY <2>2, <3>1 DEF Alone, Conf!Rivals, Others, Same
      <3>3. Flushed(j)' = Flushed(j)
        BY <2>2 DEF Flushed
      <3> QED BY <2>2, <3>1, <3>2, <3>3 DEF Alone, Conf!Rivals, Conf!Replace, TableOf, Conf!On
    <2> QED BY <1>3, <1>a, <2>2, <2>3 DEF Step, Conf!Proceed
  <1>4. ASSUME NEW j \in Conf!Jobs, Step(j), work'[j].copy = NULL PROVE CleanAlone'
    BY <1>4, <1>a
  <1>5. ASSUME NEW j \in Conf!Jobs, Conf!Commit(j) \/ Conf!Enqueue(j) \/ Conf!Confirm(j) \/ Conf!Erase(j) \/ Conf!Crash(j) PROVE CleanAlone'
    <2>1. work'[j].copy = NULL
      BY <1>5, CrashStep, IdleNow DEF Conf!Commit, Conf!Enqueue, Conf!Confirm, Conf!Erase,
         Conf!EndTask, Ends
    <2> QED BY <1>4, <1>5, <2>1 DEF Step, Conf!Proceed
  <1>6. ASSUME NEW j \in Conf!Jobs, Conf!Install(j) \/ Conf!Uninstall(j) \/ Conf!Upgrade(j) \/ Conf!Take(j) PROVE CleanAlone'
    <2>1. work'[j].copy = NULL
      BY <1>6, AnnounceStep, AnnouncedNow, TakeStep, TakenNow
    <2> QED BY <1>4, <1>6, <2>1 DEF Step
  <1>7. ASSUME NEW j \in Conf!Jobs, Conf!Find(j) PROVE CleanAlone'
    <2>1. work[j].copy = NULL
      BY <1>7 DEF Conf!Find, Shapes, Shape
    <2>2. work'[j].copy = NULL
      BY <1>7, <2>1, FindStep, AtRowNow, IdleNow DEF Conf!EndTask
    <2> QED BY <1>4, <1>7, <2>2 DEF Step, Conf!Proceed
  <1>8. ASSUME NEW j \in Conf!Jobs, Conf!AskGateway(j) PROVE CleanAlone'
    <2>1. work[j].copy = NULL
      BY <1>8 DEF Conf!AskGateway, Shapes, Shape
    <2>2. work'[j].copy = NULL
      BY <1>8, <2>1, AskStep, AskedNow
    <2> QED BY <1>4, <1>8, <2>2 DEF Step, Conf!Proceed
  <1>9. ASSUME NEW j \in Conf!Jobs, Conf!PushConfig(j) PROVE CleanAlone'
    <2>1. work'[j].copy = NULL
      BY <1>9, WriteStep, WrittenNow
    <2> QED BY <1>4, <1>9, <2>1 DEF Step, Conf!Proceed
  <1>10. ASSUME Conf!Switch PROVE CleanAlone'
    BY <1>10 DEF Conf!Switch, Alone, Conf!Rivals, Flushed
  <1> QED BY <1>1, <1>2, <1>3, <1>5, <1>6, <1>7, <1>8, <1>9, <1>10 DEF Conf!Next, Conf!Proceed

-----------------------------------------------------------------------------
\* The copy is as the rows say.
Match(d) == IF d = "secret" THEN secret \in Conf!Secrets(Conf!On(items, Keys))
            ELSE config.channels = Conf!On(items, Channels)

LEMMA CopiesAre ==
    Conf!CopiesMatch <=> \A d \in Conf!Copies : Conf!Untouched(d) /\ d \notin skewed => Match(d)
  BY DEF Conf!CopiesMatch, Conf!Copies, Match

LEMMA NextCopiesMatch == ASSUME Conf!TypeOK, Shapes, CleanAlone, Conf!CopiesMatch, Conf!Next PROVE Conf!CopiesMatch'
  <1>a. ASSUME NEW j \in Conf!Jobs, Step(j), NEW d \in Conf!Copies, d # work[j].copy,
               Conf!Untouched(d)', d \notin skewed'
        PROVE  Match(d)'
    <2>1. Others(j) /\ Stays(d) /\ d \notin skewed
      BY <1>a, StepAside DEF Aside
    <2>2. Conf!Untouched(d)
      BY <1>a, <2>1 DEF Conf!Untouched, Others, Same
    <2>3. Match(d)
      BY <2>1, <2>2, CopiesAre
    <2>4. Conf!On(items, TableOf(d))' = Conf!On(items, TableOf(d))
      BY <2>1 DEF Conf!On, Stays, TableOf
    <2> QED BY <2>1, <2>3, <2>4 DEF Match, Stays, TableOf, Conf!Copies
  <1>b. ASSUME NEW j \in Conf!Jobs, Step(j), NEW d \in Conf!Copies, d = work[j].copy, Conf!Untouched(d)', d \notin skewed'
        PROVE  Match(d)'
    <2>1. Shape(j) /\ d # NULL /\ work'[j].copy # d
      BY <1>b, Typed DEF Shapes, Conf!Untouched
    <2>2. work[j].at \in {"push", "commit"}
      BY <1>b, <2>1 DEF Shape
    <2>3. CASE Conf!Push(j)
      BY <1>b, <2>1, <2>3, PushStep, PushedNow
    <2>4. CASE Conf!Commit(j)
      <3>1. work[j].clean /\ Alone(j) /\ work[j].at = "commit"
        BY <1>b, <2>1, <2>4 DEF Conf!Commit, Conf!Judge, CleanAlone
      <3>2. items' = Flushed(j) /\ UNCHANGED <<secret, config>>
        BY <2>4 DEF Conf!Commit, Flushed
      <3> QED BY <1>b, <3>1, <3>2 DEF Alone, Match, TableOf, Conf!Copies
    <2>5. CASE Conf!PushConfig(j)
      <3>1. Conf!Replace(j) /\ work[j].clean /\ Alone(j) /\ j \in Workers /\ UNCHANGED items
        BY <1>b, <2>1, <2>5, WriteStep DEF Conf!PushConfig, CleanAlone
      <3>2. d = "config" /\ work[j].item = NULL
        BY <1>b, <2>1, <3>1 DEF Shape, Conf!Copies
      <3>3. \A x \in Channels : Flushed(j)[x] = items[x]
        BY <3>2, Typed DEF Flushed, Conf!Items
      <3>4. config'.channels = Conf!On(items, Channels)
        BY <1>b, <3>1, <3>2, <3>3 DEF Conf!Replace, Alone, TableOf, Conf!On
      <3> QED BY <3>1, <3>2, <3>4 DEF Match
    <2>6. CASE Conf!Crash(j)
      BY <1>b, <2>1, <2>6, CrashStep
    <2>7. \/ Conf!Push(j) \/ Conf!Commit(j) \/ Conf!PushConfig(j) \/ Conf!Crash(j)
      BY <1>b, <2>2 DEF Step, Conf!Proceed, Conf!Change, Conf!Install, Conf!Uninstall,
         Conf!Upgrade, Conf!Take, Conf!Free, Conf!Enqueue, Conf!Find,
        Conf!AskGateway, Conf!ReadConfig, Conf!Confirm, Conf!Erase
    <2> QED BY <2>3, <2>4, <2>5, <2>6, <2>7
  <1>1. ASSUME NEW j \in Conf!Jobs, Step(j) PROVE Conf!CopiesMatch'
    <2>1. ASSUME NEW d \in Conf!Copies, Conf!Untouched(d)', d \notin skewed' PROVE Match(d)'
      BY <1>1, <1>a, <1>b, <2>1
    <2> QED BY <2>1 DEF Conf!CopiesMatch, Conf!Copies, Match
  <1>2. CASE Conf!Switch
    BY <1>2 DEF Conf!Switch, Conf!CopiesMatch, Conf!Untouched
  <1> QED BY <1>1, <1>2 DEF Conf!Next, Step

-----------------------------------------------------------------------------
(***************************************************************************)
(* Names of skills that several jobs work on, and names that are gone.     *)
(***************************************************************************)
LEMMA SkewedNames ==
    ASSUME Conf!TypeOK, Shapes, NEW j \in Conf!Jobs, Step(j), NEW n \in Names, n \in skewed
    PROVE  n \in skewed'
  <1>1. work[j].copy # NULL => n # work[j].copy
    BY SlotTyped, SettingsAssumption DEF Conf!Copies, Copies
  <1>2. CASE Conf!Install(j) \/ Conf!Uninstall(j) \/ Conf!Upgrade(j)
    BY <1>2, AnnounceStep DEF Conf!Cross
  <1>3. CASE Conf!Take(j)
    BY <1>3, TakeStep DEF Conf!Cross
  <1>4. CASE Conf!Commit(j)
    <2>1. work[j].copy # NULL
      BY <1>4 DEF Conf!Commit, Shapes, Shape
    <2> QED BY <1>1, <1>4, <2>1 DEF Conf!Commit, Conf!Judge
  <1>5. CASE Conf!PushConfig(j)
    <2>1. work[j].copy # NULL
      BY <1>5 DEF Conf!PushConfig, Shapes, Shape
    <2> QED BY <1>1, <1>5, <2>1, WriteStep
  <1>6. CASE Conf!Crash(j)
    BY <1>6, CrashStep
  <1>7. CASE Conf!Change(j) \/ Conf!Push(j) \/ Conf!Enqueue(j) \/ Conf!Find(j) \/ Conf!AskGateway(j) \/ Conf!ReadConfig(j)
             \/ Conf!Confirm(j) \/ Conf!Erase(j)
    BY <1>7 DEF Conf!Change, Conf!Push, Conf!Enqueue, Conf!Find, Conf!AskGateway, Conf!ReadConfig,
       Conf!Confirm, Conf!Erase
  <1> QED BY <1>2, <1>3, <1>4, <1>5, <1>6, <1>7 DEF Step, Conf!Proceed

\* The worker j takes the task of w's name, or has it already, or a request
\* turns to the name: then the name is marked.
LEMMA CrossMarks ==
    ASSUME NEW n, Conf!Cross(n), NEW w \in Workers, work[w].task # NULL, work[w].task.name = n
    PROVE  n \in skewed'
  BY DEF Conf!Cross

\* No step but those of its own job changes the rows of an unmarked task's name.
LEMMA SkillsAside ==
    ASSUME Conf!TypeOK, Shapes, TasksCross, NEW j \in Conf!Jobs, Step(j),
           NEW w \in Workers, w # j, work[w].task # NULL, work[w].task.name \notin skewed',
           NEW s \in Skills, NameOf[s] = work[w].task.name
    PROVE  skills'[s] = skills[s]
  <1> DEFINE n == work[w].task.name
  <1>1. CASE Conf!Install(j) \/ Conf!Uninstall(j) \/ Conf!Upgrade(j)
    <2>1. PICK r \in Skills, act \in {"install", "uninstall"} :
              /\ skills' = [skills EXCEPT ![r] = IF act = "install" THEN "installing" ELSE "uninstalling"]
              /\ Conf!Cross(NameOf[r])
      BY <1>1, AnnounceStep
    <2>2. r # s
      BY <2>1, CrossMarks
    <2> QED BY <2>1, <2>2 DEF Conf!TypeOK
  <1>2. ASSUME j \in Workers, work[j].task # NULL PROVE work[j].task.name # n
    <2>1. w \in Conf!Jobs /\ n \in Names /\ n \notin skewed
      <3>1. w \in Conf!Jobs
        BY DEF Conf!Jobs
      <3> QED BY <3>1, SlotTyped, SkewedNames
    <2> QED BY <1>2, <2>1 DEF TasksCross
  <1>3. CASE Conf!Find(j)
    <2>1. CASE Conf!EndTask(j)
      <3>1. work'[j].at = "idle"
        BY <2>1, IdleNow DEF Conf!EndTask
      <3>2. ASSUME NEW r, work' = [work EXCEPT ![j].at = "gateway", ![j].skill = r] PROVE FALSE
        BY <3>1, <3>2, Typed DEF Conf!TypeOK, Conf!Job
      <3> QED BY <1>3, <3>2 DEF Conf!Find
    <2>2. CASE ~Conf!EndTask(j)
      <3>1. PICK r \in Skills :
              /\ Conf!RowsOf(work[j].task.name) = {r}
              /\ skills' = [skills EXCEPT ![r] = IF work[j].task.action = "install" THEN "installing"
                                                 ELSE "uninstalling"]
        BY <1>3, <2>2, FindStep
      <3>2. NameOf[r] = work[j].task.name /\ work[j].task # NULL /\ j \in Workers
        BY <1>3, <3>1 DEF Conf!RowsOf, Conf!Find, Shapes, Shape
      <3> QED BY <1>2, <3>1, <3>2 DEF Conf!TypeOK
    <2> QED BY <2>1, <2>2
  <1>4. CASE Conf!Confirm(j) \/ Conf!Erase(j)
    <2>1. /\ j \in Workers /\ work[j].task # NULL /\ work[j].skill \in Skills
          /\ NameOf[work[j].skill] = work[j].task.name
      BY <1>4, SlotTyped DEF Conf!Confirm, Conf!Erase, Shapes, Shape, Working
    <2>2. work[j].skill # s
      BY <1>2, <2>1
    <2> QED BY <1>4, <2>1, <2>2 DEF Conf!Confirm, Conf!Erase, Conf!TypeOK
  <1>5. CASE \/ Conf!Change(j) \/ Conf!Take(j) \/ Conf!Push(j) \/ Conf!Commit(j) \/ Conf!Enqueue(j) \/ Conf!AskGateway(j)
             \/ Conf!ReadConfig(j) \/ Conf!PushConfig(j) \/ Conf!Crash(j)
    BY <1>5, CrashStep DEF Conf!Change, Conf!Take, Conf!Push, Conf!Commit, Conf!Enqueue,
       Conf!AskGateway, Conf!ReadConfig, Conf!PushConfig
  <1> QED BY <1>1, <1>3, <1>4, <1>5 DEF Step, Conf!Proceed

\* What a step makes of the task of a worker's job and of the row it has found.
LEMMA TaskStep ==
    ASSUME Conf!TypeOK, Shapes, NEW j \in Workers, Step(j), work'[j].task # NULL, ~Conf!Take(j)
    PROVE  /\ work'[j].task = work[j].task
           /\ work'[j].skill = work[j].skill \/ (Conf!Find(j) /\ ~Conf!EndTask(j))
           /\ work'[j].at = "erase" => Conf!PushConfig(j)
  <1>1. j \in Conf!Jobs /\ j \notin Clients
    BY Typed DEF Conf!Jobs
  <1>2. ~Conf!Change(j) /\ ~Conf!Push(j) /\ ~Conf!Install(j) /\ ~Conf!Uninstall(j) /\ ~Conf!Upgrade(j) /\ ~Conf!Finish(j)
    BY <1>1, IdleNow DEF Conf!Change, Conf!Push, Conf!Install, Conf!Uninstall, Conf!Upgrade
  <1>3. CASE Conf!Find(j)
    BY <1>1, <1>2, <1>3, FindStep, AtRowNow DEF Conf!EndTask
  <1>4. CASE Conf!AskGateway(j)
    BY <1>1, <1>4, AskStep, AskedNow
  <1>5. CASE Conf!ReadConfig(j)
    BY <1>1, <1>5, ReadStep
  <1>6. CASE Conf!PushConfig(j)
    BY <1>1, <1>6, WriteStep, WrittenNow
  <1> QED BY <1>1, <1>2, <1>3, <1>4, <1>5, <1>6, CrashStep
        DEF Step, Conf!Proceed, Conf!Commit, Conf!Enqueue, Conf!Confirm, Conf!Erase, Conf!EndTask,
        Ends

LEMMA NextTasksCross == ASSUME Conf!TypeOK, Shapes, TasksCross, Conf!Next PROVE TasksCross'
  <1>1. ASSUME NEW j \in Conf!Jobs, Step(j) PROVE TasksCross'
    <2>1. Others(j)
      BY <1>1, StepAside
    <2>2. ASSUME NEW v \in Workers, NEW w \in Workers, v # w, v # j,
                 work'[v].task # NULL, work'[w].task # NULL, work'[v].task.name = work'[w].task.name
          PROVE  work'[v].task.name \in skewed'
      <3>1. v \in Conf!Jobs /\ w \in Conf!Jobs
        BY DEF Conf!Jobs
      <3>2. work'[v].task = work[v].task /\ work[v].task.name \in Names
        BY <2>1, <2>2, <3>1, SlotTyped DEF Others, Same
      <3>3. CASE w # j \/ ~Conf!Take(j)
        <4>1. work'[w].task = work[w].task
          BY <1>1, <2>1, <2>2, <3>1, <3>3, TaskStep DEF Others, Same
        <4>2. work[v].task.name \in skewed
          BY <2>2, <3>2, <4>1 DEF TasksCross
        <4> QED BY <1>1, <3>2, <4>2, SkewedNames
      <3>4. CASE w = j /\ Conf!Take(j)
        <4>1. PICK q \in Slots : Becomes(j, Taken(q)) /\ Conf!Cross(queue[q].name)
          BY <3>4, TakeStep
        <4>2. work'[w].task = queue[q]
          BY <3>4, <4>1, TakenNow
        <4> QED BY <2>2, <3>2, <4>1, <4>2, CrossMarks
      <3> QED BY <3>3, <3>4
    <2>3. ASSUME NEW v \in Workers, NEW w \in Workers, v # w,
                 work'[v].task # NULL, work'[w].task # NULL, work'[v].task.name = work'[w].task.name
          PROVE  work'[v].task.name \in skewed'
      <3>1. CASE v # j
        BY <2>2, <2>3, <3>1
      <3>2. CASE v = j
        BY <2>2, <2>3, <3>2
      <3> QED BY <3>1, <3>2
    <2> QED BY <2>3 DEF TasksCross
  <1>2. CASE Conf!Switch
    BY <1>2 DEF Conf!Switch, TasksCross
  <1> QED BY <1>1, <1>2 DEF Conf!Next, Step

LEMMA NextUninstallsOne ==
    ASSUME Conf!TypeOK, Shapes, TasksCross, UninstallsOne, Conf!Next
    PROVE  UninstallsOne'
  <1>1. ASSUME NEW j \in Conf!Jobs, Step(j), NEW w \in Workers, work'[w].skill # NULL,
               work'[w].task.action = "uninstall", NEW n, n = work'[w].task.name, n \notin skewed'
        PROVE  Conf!RowsOf(n)' = {work'[w].skill} /\ skills'[work'[w].skill] = "uninstalling"
    <2>1. Others(j) /\ w \in Conf!Jobs /\ Shapes'
      BY <1>1, StepAside, NextShapes DEF Conf!Jobs
    <2>2. work'[w].task # NULL
      BY <1>1, <2>1 DEF Shapes, Shape, Working
    <2>3. CASE work'[w].task = work[w].task /\ work'[w].skill = work[w].skill
      <3>1. n \in Names /\ n \notin skewed
        BY <1>1, <2>1, <2>2, <2>3, SlotTyped, SkewedNames
      <3>2. Conf!RowsOf(n) = {work[w].skill} /\ skills[work[w].skill] = "uninstalling"
        BY <1>1, <2>3, <3>1 DEF UninstallsOne
      <3>3. ASSUME NEW s \in Skills, NameOf[s] = n PROVE skills'[s] = skills[s]
        <4>1. CASE w # j
          BY <1>1, <2>2, <2>3, <3>3, <4>1, SkillsAside
        <4>2. CASE w = j /\ UNCHANGED skills
          BY <4>2
        <4>3. CASE w = j /\ ~UNCHANGED skills
          <5>1. ~Conf!Install(j) /\ ~Conf!Uninstall(j) /\ ~Conf!Upgrade(j) /\ ~Conf!Finish(j)
            BY <1>1, <2>1, <2>2, <4>3, Typed, IdleNow DEF Conf!Install, Conf!Uninstall, Conf!Upgrade
          <5>2. Conf!Find(j)
            BY <1>1, <4>3, <5>1, CrashStep
              DEF Step, Conf!Proceed, Conf!Change, Conf!Take, Conf!Push, Conf!Commit,
              Conf!Enqueue, Conf!AskGateway, Conf!ReadConfig,
                  Conf!PushConfig, Conf!Confirm, Conf!Erase, Conf!EndTask
          <5>3. work[w].skill = NULL
            BY <4>3, <5>2 DEF Conf!Find, Shapes, Shape, Working
          <5> QED BY <1>1, <2>3, <5>3
        <4> QED BY <4>1, <4>2, <4>3
      <3>4. work[w].skill \in Skills /\ NameOf[work[w].skill] = n
        BY <3>2 DEF Conf!RowsOf
      <3>5. Conf!RowsOf(n)' = Conf!RowsOf(n)
        BY <3>3 DEF Conf!RowsOf
      <3> QED BY <2>3, <3>2, <3>3, <3>4, <3>5
    <2>4. CASE ~(work'[w].task = work[w].task /\ work'[w].skill = work[w].skill)
      <3>1. w = j
        BY <2>1, <2>4 DEF Others, Same
      <3>2. ~Conf!Take(j)
        BY <1>1, <3>1, TakeStep, TakenNow
      <3>3. Conf!Find(j) /\ ~Conf!EndTask(j) /\ work'[j].task = work[j].task
        BY <1>1, <2>2, <2>4, <3>1, <3>2, TaskStep
      <3>4. PICK s \in Skills :
              /\ Conf!RowsOf(work[j].task.name) = {s}
              /\ skills' = [skills EXCEPT ![s] = IF work[j].task.action = "install" THEN "installing"
                                                 ELSE "uninstalling"]
              /\ Becomes(j, AtRow(j, s))
        BY <3>3, FindStep
      <3>5. work'[j].skill = s
        BY <3>4, AtRowNow
      <3>6. skills'[s] = "uninstalling" /\ \A r \in Skills : r # s => skills'[r] = skills[r]
        BY <1>1, <3>1, <3>3, <3>4 DEF Conf!TypeOK
      <3>7. Conf!RowsOf(n)' = {s}
        BY <1>1, <3>1, <3>3, <3>4, <3>6 DEF Conf!RowsOf
      <3> QED BY <3>1, <3>5, <3>6, <3>7
    <2> QED BY <2>3, <2>4
  <1>2. CASE Conf!Switch
    BY <1>2 DEF Conf!Switch, UninstallsOne, Conf!RowsOf
  <1>3. ASSUME NEW j \in Conf!Jobs, Step(j) PROVE UninstallsOne'
    BY <1>1, <1>3 DEF UninstallsOne, Conf!RowsOf
  <1> QED BY <1>2, <1>3 DEF Conf!Next, Step

\* Of a name that is gone no row is installed, or is being installed.
LEMMA GoneUnlisted ==
    ASSUME Conf!TypeOK, Shapes, UninstallsOne, NEW n \in Names, n \notin skewed, Gone(n)
    PROVE  n \notin Conf!NamesIn({"installed", "installing"}) /\ n \notin Conf!NamesIn({"installed"})
  <1>1. SUFFICES ASSUME NEW s \in Skills, NameOf[s] = n, skills[s] \in {"installed", "installing"}
                 PROVE  FALSE
    BY DEF Conf!NamesIn
  <1>2. s \in Conf!RowsOf(n)
    BY <1>1 DEF Conf!RowsOf
  <1>3. PICK w \in Workers : work[w].at = "erase" /\ work[w].task.name = n
    BY <1>2 DEF Gone
  <1>4. work[w].skill # NULL /\ work[w].task.action = "uninstall"
    BY <1>3 DEF Shapes, Shape, Working, Conf!Jobs
  <1>5. Conf!RowsOf(n) = {work[w].skill} /\ skills[work[w].skill] = "uninstalling"
    BY <1>3, <1>4 DEF UninstallsOne
  <1> QED BY <1>1, <1>2, <1>5

\* A name becomes gone as an uninstallation leaves the ConfigMap.
LEMMA GoneBefore ==
    ASSUME Conf!TypeOK, Shapes, NEW j \in Conf!Jobs, Step(j), NEW n \in Names, Gone(n)', ~Gone(n)
    PROVE  Conf!PushConfig(j) /\ work[j].task.name = n /\ work[j].task.action = "uninstall"
  <1>0. Others(j) /\ Shapes'
    BY StepAside, NextShapes DEF Conf!Next, Step
  <1>1. CASE Conf!RowsOf(n)' = {}
    <2>1. PICK s \in Skills : NameOf[s] = n /\ skills[s] # "none" /\ skills'[s] = "none"
      BY <1>1 DEF Gone, Conf!RowsOf
    <2>2. CASE Conf!Install(j) \/ Conf!Uninstall(j) \/ Conf!Upgrade(j)
      BY <2>1, <2>2, AnnounceStep DEF Conf!TypeOK
    <2>3. CASE Conf!Find(j)
      BY <2>1, <2>3 DEF Conf!Find, Conf!TypeOK
    <2>4. CASE Conf!Confirm(j)
      BY <2>1, <2>4 DEF Conf!Confirm, Conf!TypeOK
    <2>5. CASE Conf!Erase(j)
      <3>1. s = work[j].skill
        BY <2>1, <2>5 DEF Conf!Erase, Conf!TypeOK
      <3>2. work[j].at = "erase" /\ work[j].task.name = n /\ j \in Workers
        BY <2>1, <2>5, <3>1, SlotTyped, Typed DEF Conf!Erase, Shapes, Shape, Working
      <3> QED BY <3>2 DEF Gone
    <2>6. CASE \/ Conf!Change(j) \/ Conf!Take(j) \/ Conf!Push(j) \/ Conf!Commit(j) \/ Conf!Enqueue(j) \/ Conf!AskGateway(j)
               \/ Conf!ReadConfig(j) \/ Conf!PushConfig(j) \/ Conf!Crash(j)
      BY <2>1, <2>6, CrashStep
        DEF Conf!Change, Conf!Take, Conf!Push, Conf!Commit, Conf!Enqueue, Conf!AskGateway,
        Conf!ReadConfig, Conf!PushConfig
    <2> QED BY <2>2, <2>3, <2>4, <2>5, <2>6 DEF Step, Conf!Proceed
  <1>2. CASE \E w \in Workers : work'[w].at = "erase" /\ work'[w].task.name = n
    <2>1. PICK w \in Workers : work'[w].at = "erase" /\ work'[w].task.name = n
      BY <1>2
    <2>2. w = j
      BY <1>0, <2>1 DEF Gone, Others, Same, Conf!Jobs
    <2>3. work'[j].task # NULL
      BY <1>0, <2>1, <2>2 DEF Shapes, Shape, Working
    <2>4. ~Conf!Take(j)
      BY <2>1, <2>2, TakeStep, TakenNow
    <2>5. Conf!PushConfig(j) /\ work'[j].task = work[j].task
      BY <2>1, <2>2, <2>3, <2>4, TaskStep
    <2>6. work'[j].task.action = "uninstall"
      BY <1>0, <2>1, <2>2 DEF Shapes, Shape
    <2> QED BY <2>1, <2>2, <2>5, <2>6
  <1> QED BY <1>1, <1>2 DEF Gone

\* What a job at the ConfigMap has read: as it was, or just now.
LEMMA StepNames ==
    ASSUME Conf!TypeOK, Shapes, NEW j \in Conf!Jobs, Step(j), work'[j].copy = "config"
    PROVE  \/ work[j].copy = "config" /\ work'[j].names = work[j].names /\ (work'[j].clean => work[j].clean)
           \/ work'[j].names \subseteq Conf!NamesIn({"installed", "installing"}) \cup Conf!NamesIn({"installed"})
  <1>0. "config" # NULL
    BY Typed DEF Conf!Copies
  <1>1. CASE Conf!Change(j)
    BY <1>1, ChangeStep DEF Conf!CopyOf
  <1>2. CASE Conf!ReadConfig(j)
    BY <1>2, ReadStep DEF Conf!Listed
  <1>3. CASE Conf!Push(j)
    BY <1>3, PushStep, PushedNow
  <1>4. CASE Conf!Commit(j) \/ Conf!Enqueue(j) \/ Conf!Confirm(j) \/ Conf!Erase(j) \/ Conf!Crash(j)
    BY <1>0, <1>4, IdleNow, CrashStep DEF Conf!Commit, Conf!Enqueue, Conf!Confirm, Conf!Erase,
       Conf!EndTask, Ends
  <1>5. CASE Conf!Install(j) \/ Conf!Uninstall(j) \/ Conf!Upgrade(j) \/ Conf!Take(j)
    BY <1>0, <1>5, AnnounceStep, AnnouncedNow, TakeStep, TakenNow
  <1>6. CASE Conf!Find(j)
    BY <1>0, <1>6, FindStep, AtRowNow, IdleNow DEF Conf!EndTask, Conf!Find, Shapes, Shape
  <1>7. CASE Conf!AskGateway(j)
    BY <1>0, <1>7, AskStep, AskedNow DEF Conf!AskGateway, Shapes, Shape
  <1>8. CASE Conf!PushConfig(j)
    BY <1>0, <1>8, WriteStep, WrittenNow
  <1> QED BY <1>1, <1>2, <1>3, <1>4, <1>5, <1>6, <1>7, <1>8 DEF Step, Conf!Proceed

LEMMA NextGoneUnread ==
    ASSUME Conf!TypeOK, Shapes, CleanAlone, UninstallsOne, GoneUnread, Conf!Next
    PROVE  GoneUnread'
  <1>0. "config" \in Conf!Copies /\ "config" # NULL
    BY Typed DEF Conf!Copies
  <1>1. ASSUME NEW j \in Conf!Jobs, Step(j), NEW n \in Names, n \notin skewed', Gone(n)'
        PROVE  /\ \A i \in Conf!Jobs : work'[i].copy = "config" /\ work'[i].clean => n \notin work'[i].names
               /\ Conf!Untouched("config")' /\ "config" \notin skewed' => n \notin config'.names
    <2>1. Others(j) /\ Aside(j) /\ n \notin skewed
      BY <1>1, StepAside, SkewedNames
    <2>2. CASE Gone(n)
      <3>1. /\ \A i \in Conf!Jobs : work[i].copy = "config" /\ work[i].clean => n \notin work[i].names
            /\ Conf!Untouched("config") /\ "config" \notin skewed => n \notin config.names
        BY <2>1, <2>2 DEF GoneUnread
      <3>2. n \notin Conf!NamesIn({"installed", "installing"}) /\ n \notin Conf!NamesIn({"installed"})
        BY <2>1, <2>2, GoneUnlisted
      <3>3. ASSUME NEW i \in Conf!Jobs, work'[i].copy = "config", work'[i].clean PROVE n \notin work'[i].names
        <4>1. CASE i = j
          BY <1>1, <3>1, <3>2, <3>3, <4>1, StepNames
        <4>2. CASE i # j
          BY <2>1, <3>1, <3>3, <4>2 DEF Others, Same
        <4> QED BY <4>1, <4>2
      <3>4. ASSUME Conf!Untouched("config")', "config" \notin skewed' PROVE n \notin config'.names
        <4>1. CASE work[j].copy # "config"
          <5>1. config' = config /\ "config" \notin skewed
            BY <1>0, <2>1, <3>4, <4>1 DEF Aside, Stays
          <5>2. Conf!Untouched("config")
            BY <2>1, <3>4, <4>1 DEF Conf!Untouched, Others, Same
          <5> QED BY <3>1, <5>1, <5>2
        <4>2. CASE work[j].copy = "config"
          <5>1. work'[j].copy # "config" /\ work[j].at \in {"push", "commit"}
            BY <1>0, <3>4, <4>2 DEF Conf!Untouched, Shapes, Shape
          <5>2. CASE Conf!Push(j)
            BY <4>2, <5>1, <5>2, PushStep, PushedNow
          <5>3. CASE Conf!Commit(j)
            <6>1. work[j].clean /\ work[j].at = "commit" /\ config' = config
              BY <3>4, <4>2, <5>3 DEF Conf!Commit, Conf!Judge
            <6>2. config.names = work[j].names
              BY <1>0, <4>2, <6>1 DEF CleanAlone, Alone
            <6> QED BY <3>1, <4>2, <6>1, <6>2
          <5>4. CASE Conf!PushConfig(j)
            <6>1. Conf!Replace(j) /\ work[j].clean
              BY <3>4, <4>2, <5>4, WriteStep
            <6>2. config'.names = work[j].names
              BY <4>2, <6>1 DEF Conf!Replace
            <6> QED BY <3>1, <4>2, <6>1, <6>2
          <5>5. CASE Conf!Crash(j)
            BY <1>0, <3>4, <4>2, <5>5, CrashStep
          <5>6. \/ Conf!Push(j) \/ Conf!Commit(j) \/ Conf!PushConfig(j) \/ Conf!Crash(j)
            BY <1>1, <5>1 DEF Step, Conf!Proceed, Conf!Change, Conf!Install, Conf!Uninstall,
               Conf!Upgrade, Conf!Take, Conf!Free, Conf!Enqueue,
              Conf!Find, Conf!AskGateway, Conf!ReadConfig, Conf!Confirm, Conf!Erase
          <5> QED BY <5>2, <5>3, <5>4, <5>5, <5>6
        <4> QED BY <4>1, <4>2
      <3> QED BY <3>3, <3>4
    <2>3. CASE ~Gone(n)
      <3>1. Conf!PushConfig(j) /\ work[j].task.name = n /\ work[j].task.action = "uninstall"
        BY <1>1, <2>3, GoneBefore
      <3>2. work[j].copy = "config" /\ n \notin work[j].names /\ work'[j].copy = NULL
        <4>1. Shape(j) /\ j \in Workers /\ work[j].at = "push"
          BY <3>1 DEF Conf!PushConfig, Shapes
        <4>2. work[j].copy = "config" /\ n \notin work[j].names
          BY <3>1, <4>1, SlotTyped DEF Shape, Conf!Copies
        <4> QED BY <3>1, <4>2, WriteStep, WrittenNow
      <3>3. ASSUME NEW i \in Conf!Jobs, work'[i].copy = "config", work'[i].clean PROVE FALSE
        <4>1. i # j /\ work[i].copy = "config" /\ work[i].clean
          BY <1>0, <2>1, <3>2, <3>3 DEF Others, Same
        <4>2. Conf!Rivals(i, "config") = {}
          BY <1>0, <4>1 DEF CleanAlone, Alone
        <4> QED BY <3>2, <4>1, <4>2 DEF Conf!Rivals
      <3>4. ASSUME "config" \notin skewed' PROVE n \notin config'.names
        <4>1. Conf!Replace(j)
          BY <3>1, <3>2, <3>4, WriteStep
        <4> QED BY <3>2, <4>1 DEF Conf!Replace
      <3> QED BY <3>3, <3>4
    <2> QED BY <2>2, <2>3
  <1>2. ASSUME NEW j \in Conf!Jobs, Step(j) PROVE GoneUnread'
    BY <1>1, <1>2 DEF GoneUnread
  <1>3. CASE Conf!Switch
    BY <1>3 DEF Conf!Switch, GoneUnread, Gone, Conf!RowsOf, Conf!Untouched
  <1> QED BY <1>2, <1>3 DEF Conf!Next, Step

-----------------------------------------------------------------------------
LEMMA InitIInv == ASSUME Conf!Init PROVE IInv
  <1> USE DEF Conf!Init
  <1>0. \A j \in Conf!Jobs : work[j] = Conf!Idle
    OBVIOUS
  <1>1. \A j \in Conf!Jobs : /\ work[j].at = "idle" /\ work[j].copy = NULL /\ work[j].item = NULL
                             /\ work[j].task = NULL /\ work[j].slot = NULL /\ work[j].skill = NULL
    BY <1>0 DEF Conf!Idle
  <1>2. Conf!TypeOK
    BY IdleTyped DEF Conf!TypeOK, Conf!Activity, Conf!SkillStatus
  <1>3. Shapes
    BY <1>1, <1>2, Typed DEF Shapes, Shape, Working, Conf!Copies
  <1>4. TasksOwned
    BY DEF TasksOwned
  <1>5. CleanAlone
    BY <1>1 DEF CleanAlone
  <1>6. Conf!CopiesMatch
    BY DEF Conf!CopiesMatch, Conf!On, Conf!Items, Conf!Secrets
  <1>7. TasksCross /\ UninstallsOne
    BY <1>1 DEF TasksCross, UninstallsOne, Conf!Jobs
  <1>8. GoneUnread
    BY <1>1, <1>2, Typed DEF GoneUnread, Conf!Copies
  <1> QED BY <1>2, <1>3, <1>4, <1>5, <1>6, <1>7, <1>8 DEF IInv

LEMMA StepIInv == ASSUME IInv, [Conf!Next]_Conf!vars PROVE IInv'
  <1>1. CASE Conf!Next
    BY <1>1, NextTypes, NextShapes, NextTasksOwned, NextCleanAlone, NextCopiesMatch, NextTasksCross,
       NextUninstallsOne, NextGoneUnread DEF IInv
  <1>2. CASE UNCHANGED Conf!vars
    BY <1>2 DEF Conf!vars, IInv, Conf!TypeOK, Shapes, Shape, Working, TasksOwned, Owned,
       CleanAlone, Alone, Conf!Rivals,
      Flushed, Conf!CopiesMatch, Conf!Untouched, TasksCross, UninstallsOne, Conf!RowsOf,
      GoneUnread, Gone
  <1> QED BY <1>1, <1>2

\* The inductive invariant holds in every reachable state of the requests and
\* tasks, however many run at once, are cut off or fail at their call.
THEOREM Invariant == Conf!Spec => []IInv
  BY InitIInv, StepIInv, PTL DEF Conf!Spec

\* Beside the life of the instance the settings behave as they do alone, and so
\* does it beside them.
THEOREM PartsAsAlone == InstanceSpec => Spec /\ Conf!Spec
  <1>1. InstanceInit => Init /\ Conf!Init
    BY DEF InstanceInit
  <1>2. [InstanceNext]_<<part, vars, settingsVars>> => [Next]_vars /\ [Conf!Next]_Conf!vars
    BY DEF InstanceNext, settingsVars, Conf!vars
  <1> QED BY <1>1, <1>2, PTL DEF InstanceSpec, Spec, Conf!Spec

\* The variables keep their types: a job holds rows, slots and tasks that exist.
THEOREM TypeCorrect == Conf!Spec => []Conf!TypeOK
  <1>1. IInv => Conf!TypeOK
    BY DEF IInv
  <1> QED BY <1>1, Invariant, PTL

\* With no request or task at it, the Secret holds one key of every provider
\* that has an active one and the ConfigMap the active channels, after the last
\* change ran alone and to its end.
THEOREM CopiesAreRight ==
  (Conf!Spec => []CopiesMatch) /\ (InstanceSpec => []CopiesMatch)
  <1>1. IInv => CopiesMatch
    BY DEF CopiesMatch, IInv
  <1> QED BY <1>1, Invariant, PartsAsAlone, PTL

\* A skill that is shown as being installed or uninstalled has a task in the
\* queue or a job for its name, unless a task for it was lost or gave up.
THEOREM TasksAreUnderway ==
  (Conf!Spec => []TaskUnderway) /\ (InstanceSpec => []TaskUnderway)
  <1>1. IInv => TaskUnderway
    BY DEF TaskUnderway, IInv, TasksOwned, Owned, Conf!TaskUnderway
  <1> QED BY <1>1, Invariant, PartsAsAlone, PTL

\* A skill whose row an uninstallation deleted is not in the ConfigMap, unless
\* two jobs worked on its name or on the ConfigMap at once, or one failed.
THEOREM RemovedSkillsAreGone ==
  (Conf!Spec => []RemovedSkillIsGone) /\ (InstanceSpec => []RemovedSkillIsGone)
  <1>1. ASSUME IInv PROVE RemovedSkillIsGone
    <2>1. ASSUME Conf!Untouched("config"), "config" \notin skewed, NEW n \in config.names, n \notin skewed
          PROVE  n \in Conf!NamesIn(Conf!SkillStatus \ {"none"})
      <3>1. n \in Names
        BY <1>1, <2>1 DEF IInv, Conf!TypeOK
      <3>2. Conf!RowsOf(n) # {}
        BY <1>1, <2>1, <3>1 DEF IInv, GoneUnread, Gone
      <3> QED BY <1>1, <3>2 DEF Conf!RowsOf, Conf!NamesIn, IInv, Conf!TypeOK
    <2> QED BY <2>1 DEF RemovedSkillIsGone, Conf!RemovedSkillIsGone
  <1> QED BY <1>1, Invariant, PartsAsAlone, PTL

=============================================================================
