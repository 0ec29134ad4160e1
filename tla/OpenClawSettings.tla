-------------------------- MODULE OpenClawSettings ---------------------------
(***************************************************************************)
(* The settings of one OpenClaw instance, and their copy in Kubernetes:    *)
(* the model keys and the Secret, the channels and skills and the          *)
(* ConfigMap.  The requests are those of app/api/v1/openclaw.py, the task  *)
(* openclaw_skill_manage is that of app/tasks.py.                          *)
(*                                                                         *)
(* A change of a key or a channel is flushed, all rows are read, the copy  *)
(* is replaced as a whole, and only then the change is committed.          *)
(***************************************************************************)
EXTENDS OpenClawConstants

VARIABLES
    items,    \* the committed keys and channels: none, active or inactive
    skills,   \* the committed status of the skills
    running,  \* the instance's status is running
    secret,   \* the keys in the Secret
    config,   \* the channels and the names of skills in the ConfigMap
    queue,    \* the tasks openclaw_skill_manage in Redis
    job,      \* what each job is doing
    skewed,   \* auxiliary: the copies that the last change may have left wrong, and
              \* the names of skills that jobs have worked on at once
    dropped   \* auxiliary: the names of skills whose task is lost

vars == <<items, skills, running, secret, config, queue, job, skewed, dropped>>

Activity    == {"none", "on", "off"}
SkillStatus == {"none", "installing", "installed", "uninstalling", "error"}

Job == [at    : {"idle", "push", "commit", "enqueue", "find", "gateway", "read", "confirm",
                 "erase"},
        copy  : Copies \cup {NULL},       \* the copy that it replaces
        item  : Items \cup {NULL},        \* the row that it changes, and to what
        to    : Activity,
        view  : SUBSET Items,             \* the active rows that it read
        names : SUBSET Names,             \* the skills that it read
        clean : BOOLEAN,                  \* auxiliary: nothing overlapped or failed
        task  : Task \cup {NULL},
        slot  : Slots \cup {NULL},
        skill : Skills \cup {NULL},
        apiOk : BOOLEAN]

Idle == [at |-> "idle", copy |-> NULL, item |-> NULL, to |-> "none", view |-> {}, names |-> {},
         clean |-> TRUE, task |-> NULL, slot |-> NULL, skill |-> NULL, apiOk |-> FALSE]

Jobs  == Requests \cup Workers

-----------------------------------------------------------------------------
Init ==
    /\ items = [i \in Items |-> "none"]
    /\ skills = [s \in Skills |-> "none"]
    /\ running = TRUE
    /\ secret = {} /\ config = [channels |-> {}, names |-> {}]
    /\ queue = [q \in Slots |-> NULL]
    /\ job = [j \in Jobs |-> Idle]
    /\ skewed = {} /\ dropped = {}

Free(j)   == job[j].at = "idle"
Finish(j) == job' = [job EXCEPT ![j] = Idle]

CopyOf(i) == IF i \in Keys THEN "secret" ELSE "config"

On(rows, among) == {i \in among : rows[i] = "on"}
Table(i)        == IF i \in Keys THEN Keys ELSE Channels
RowsOf(name)    == {s \in Skills : NameOf[s] = name /\ skills[s] # "none"}
NamesIn(status) == {NameOf[s] : s \in {t \in Skills : skills[t] \in status}}

\* The jobs that replace the copy, other than j: what each of them read may
\* not be what is there when it writes.
Rivals(j, copy) == {i \in Jobs \ {j} : job[i].copy = copy}

\* The job j becomes next, and no longer is the only one at its copy.
Enter(j, next) ==
    job' = [i \in Jobs |->
              IF i = j THEN [next EXCEPT !.clean = Rivals(j, next.copy) = {}]
              ELSE IF i \in Rivals(j, next.copy) THEN [job[i] EXCEPT !.clean = FALSE]
              ELSE job[i]]

\* j is done with its copy.
Judge(j, clean) == skewed' = IF clean THEN skewed \ {job[j].copy} ELSE skewed \cup {job[j].copy}

-----------------------------------------------------------------------------
(***************************************************************************)
(* POST, PUT and DELETE of model keys and channels.                        *)
(***************************************************************************)
\* Variant of Viewed: the rows as they were before the change.
ViewedBefore(i, to) == On(items, Table(i))

\* All rows of the instance, the flushed change among them.
Viewed(i, to) == On([items EXCEPT ![i] = to], Table(i))

\* The row is flushed, which waits for a change of it that is not committed.
Change(j) ==
    /\ j \in Requests /\ Free(j)
    /\ \E i \in Items, to \in Activity :
          /\ items[i] = "none" => to = "on"
          /\ to # items[i] => \A k \in Requests : job[k].item # i
          /\ Enter(j, [Idle EXCEPT !.at = "push", !.copy = CopyOf(i),
                                   !.item = IF to # items[i] THEN i ELSE NULL, !.to = to,
                                   !.view = Viewed(i, to),
                                   !.names = IF i \in Channels THEN NamesIn({"installed"}) ELSE {}])
    /\ UNCHANGED <<items, skills, running, secret, config, queue, skewed, dropped>>

\* Of the active keys of a provider one, in the order of the rows, goes into
\* the Secret.
Secrets(view) ==
    {S \in SUBSET view : \A k \in view : Cardinality({s \in S : ProviderOf[s] = ProviderOf[k]}) = 1}

\* hot_update_secret and hot_update_config: replace the copy, and let the
\* Deployment know; False is not noticed.
Replace(j) ==
    IF job[j].copy = "secret"
    THEN secret' \in Secrets(job[j].view) /\ UNCHANGED config
    ELSE config' = [channels |-> job[j].view, names |-> job[j].names] /\ UNCHANGED secret

Push(j) ==
    /\ j \in Requests /\ job[j].at = "push"
    /\ \/ Replace(j) /\ job' = [job EXCEPT ![j].at = "commit"]
       \/ /\ Replace(j) \/ UNCHANGED <<secret, config>>
          /\ job' = [job EXCEPT ![j].at = "commit", ![j].clean = FALSE]
    /\ UNCHANGED <<items, skills, running, queue, skewed, dropped>>

Commit(j) ==
    /\ job[j].at = "commit"
    /\ items' = [i \in Items |-> IF i = job[j].item THEN job[j].to ELSE items[i]]
    /\ Judge(j, job[j].clean)
    /\ Finish(j)
    /\ UNCHANGED <<skills, running, secret, config, queue, dropped>>

-----------------------------------------------------------------------------
(***************************************************************************)
(* Skills: the row is committed, then the task is enqueued.                *)
(***************************************************************************)
\* A job turns to the skill while a task is at it.
Cross(name) ==
    skewed' = IF \E w \in Workers : job[w].task # NULL /\ job[w].task.name = name
              THEN skewed \cup {name} ELSE skewed

\* The row s becomes status; a name with one row is no longer without a task.
Announce(j, s, status, action) ==
    /\ skills' = [skills EXCEPT ![s] = status]
    /\ job' = [job EXCEPT ![j] = [Idle EXCEPT !.at = "enqueue",
                                              !.task = [name |-> NameOf[s], action |-> action]]]
    /\ dropped' = IF RowsOf(NameOf[s]) \subseteq {s} THEN dropped \ {NameOf[s]} ELSE dropped
    /\ Cross(NameOf[s])
    /\ UNCHANGED <<items, running, secret, config, queue>>

Install(j) == /\ j \in Requests /\ Free(j)
              /\ \E s \in Skills : skills[s] = "none" /\ Announce(j, s, "installing", "install")

\* By the name, of which there must be one row.
Uninstall(j) == /\ j \in Requests /\ Free(j)
                /\ \E s \in Skills : RowsOf(NameOf[s]) = {s} /\ Announce(j, s, "uninstalling", "uninstall")

\* By the identity of the row, to another version.
Upgrade(j) == /\ j \in Requests /\ Free(j)
              /\ \E s \in Skills : skills[s] # "none" /\ Announce(j, s, "installing", "install")

\* The failure to reach Redis is passed over.
Enqueue(j) ==
    /\ job[j].at = "enqueue"
    /\ \/ /\ \E q \in Slots : /\ queue[q] = NULL /\ \A w \in Workers : job[w].slot # q
                           /\ queue' = [queue EXCEPT ![q] = job[j].task]
          /\ UNCHANGED dropped
       \/ dropped' = dropped \cup {job[j].task.name} /\ UNCHANGED queue
    /\ Finish(j)
    /\ UNCHANGED <<items, skills, running, secret, config, skewed>>

-----------------------------------------------------------------------------
(***************************************************************************)
(* openclaw_skill_manage.  A task is in the queue until it ends; a worker  *)
(* that starts clears the marks of those in progress, and they run again.  *)
(***************************************************************************)
Take(w) ==
    /\ w \in Workers /\ Free(w)
    /\ \E q \in Slots :
          /\ queue[q] # NULL
          /\ job' = [job EXCEPT ![w] = [Idle EXCEPT !.at = "find", !.task = queue[q], !.slot = q]]
          /\ Cross(queue[q].name)
    /\ UNCHANGED <<items, skills, running, secret, config, queue, dropped>>

EndTask(w) ==
    /\ queue' = [queue EXCEPT ![job[w].slot] = NULL]
    /\ Finish(w)

\* Variant of Found: the task takes any of the rows of its name.
FoundAnyway(w) == RowsOf(job[w].task.name)

\* The instance must run, and the name must have one row, or nothing is written.
Found(w) == IF running /\ Cardinality(RowsOf(job[w].task.name)) = 1 THEN RowsOf(job[w].task.name) ELSE {}

Find(w) ==
    /\ job[w].at = "find"
    /\ \/ /\ Found(w) = {}
          /\ UNCHANGED skills /\ EndTask(w)
          /\ dropped' = dropped \cup {job[w].task.name}
       \/ \E s \in Found(w) :
             /\ skills' = [skills EXCEPT ![s] = IF job[w].task.action = "install" THEN "installing"
                                                ELSE "uninstalling"]
             /\ job' = [job EXCEPT ![w].at = "gateway", ![w].skill = s]
             /\ UNCHANGED <<queue, dropped>>
    /\ UNCHANGED <<items, running, secret, config, skewed>>

\* The gateway's API; without it, and for an uninstallation always, the ConfigMap.
AskGateway(w) ==
    /\ job[w].at = "gateway"
    /\ \E ok \in BOOLEAN :
          job' = [job EXCEPT ![w].apiOk = ok,
                             ![w].at = IF ok /\ job[w].task.action = "install" THEN "confirm" ELSE "read"]
    /\ UNCHANGED <<items, skills, running, secret, config, queue, skewed, dropped>>

\* Variant of Listed: an uninstallation lists the name itself.
ListedAll(w) == IF job[w].task.action = "install" THEN NamesIn({"installed", "installing"})
                ELSE NamesIn({"installed", "uninstalling"})

Listed(w) == IF job[w].task.action = "install" THEN NamesIn({"installed", "installing"})
             ELSE NamesIn({"installed"}) \ {job[w].task.name}

ReadConfig(w) ==
    /\ w \in Workers /\ job[w].at = "read"
    /\ Enter(w, [job[w] EXCEPT !.at = "push", !.copy = "config", !.view = On(items, Channels),
                               !.names = Listed(w)])
    /\ UNCHANGED <<items, skills, running, secret, config, queue, skewed, dropped>>

PushConfig(w) ==
    /\ w \in Workers /\ job[w].at = "push"
    /\ \/ Replace(w) /\ Judge(w, job[w].clean)
       \/ (Replace(w) \/ UNCHANGED <<secret, config>>) /\ Judge(w, FALSE)
    /\ job' = [job EXCEPT ![w].at = IF job[w].task.action = "install" THEN "confirm" ELSE "erase",
                          ![w].copy = NULL, ![w].view = {}, ![w].names = {}, ![w].clean = TRUE]
    /\ UNCHANGED <<items, skills, running, queue, dropped>>

\* Whatever the status has become; the update of a deleted row is an error.
Confirm(w) ==
    /\ job[w].at = "confirm"
    /\ \E status \in {"installed"} \cup (IF job[w].apiOk THEN {} ELSE {"error"}) :
          skills' = [skills EXCEPT ![job[w].skill] = IF @ # "none" THEN status ELSE @]
    /\ EndTask(w)
    /\ UNCHANGED <<items, running, secret, config, skewed, dropped>>

Erase(w) ==
    /\ job[w].at = "erase"
    /\ skills' = [skills EXCEPT ![job[w].skill] = "none"]
    /\ EndTask(w)
    /\ UNCHANGED <<items, running, secret, config, skewed, dropped>>

-----------------------------------------------------------------------------
\* A process ends: what is not committed is rolled back; the task stays in the
\* queue, unless it timed out.
Crash(j) ==
    /\ ~Free(j)
    /\ IF j \in Workers /\ job[j].task # NULL THEN EndTask(j) \/ (Finish(j) /\ UNCHANGED queue)
       ELSE Finish(j) /\ UNCHANGED queue
    /\ (job[j].at = "push" /\ Replace(j)) \/ UNCHANGED <<secret, config>>
    /\ skewed' = IF job[j].copy # NULL THEN skewed \cup {job[j].copy} ELSE skewed
    /\ dropped' = IF job[j].task # NULL THEN dropped \cup {job[j].task.name} ELSE dropped
    /\ UNCHANGED <<items, skills, running>>

\* The instance's life is OpenClaw's.
Switch ==
    /\ running' = ~running
    /\ UNCHANGED <<items, skills, secret, config, queue, job, skewed, dropped>>

Proceed(j) ==
    \/ Push(j) \/ Commit(j) \/ Enqueue(j)
    \/ Find(j) \/ AskGateway(j) \/ ReadConfig(j) \/ PushConfig(j) \/ Confirm(j) \/ Erase(j)

Next ==
    \/ \E j \in Jobs : \/ Change(j) \/ Install(j) \/ Uninstall(j) \/ Upgrade(j) \/ Take(j)
                      \/ Proceed(j) \/ Crash(j)
    \/ Switch

Spec == Init /\ [][Next]_vars

-----------------------------------------------------------------------------
TypeOK ==
    /\ items \in [Items -> Activity] /\ skills \in [Skills -> SkillStatus]
    /\ running \in BOOLEAN
    /\ secret \subseteq Keys
    /\ config \in [channels : SUBSET Channels, names : SUBSET Names]
    /\ queue \in [Slots -> Task \cup {NULL}]
    /\ job \in [Jobs -> Job]
    /\ skewed \subseteq Copies \cup Names /\ dropped \subseteq Names

Untouched(copy) == \A j \in Jobs : job[j].copy # copy

\* A change that nothing overlapped or broke leaves the Secret with a key of
\* every provider that has an active one, and none else, and the ConfigMap with
\* the active channels, whatever earlier changes had left there.
CopiesMatch ==
    /\ Untouched("secret") /\ "secret" \notin skewed => secret \in Secrets(On(items, Keys))
    /\ Untouched("config") /\ "config" \notin skewed => config.channels = On(items, Channels)

\* A skill that is being installed or uninstalled has a task that will finish
\* it, queued, running or about to be enqueued; unless Redis could not be
\* reached, the task found the instance not running or the name twice, or a
\* process ended.
TaskUnderway ==
    \A s \in Skills :
        skills[s] \in {"installing", "uninstalling"} /\ NameOf[s] \notin dropped
        => \/ \E q \in Slots : queue[q] # NULL /\ queue[q].name = NameOf[s]
           \/ \E j \in Jobs : job[j].task # NULL /\ job[j].task.name = NameOf[s]

\* A skill that was uninstalled is not in the ConfigMap, unless another request
\* or task for it came in between; changes of channels that read the skills
\* while it is uninstalled do not bring it back.
RemovedSkillIsGone ==
    Untouched("config") /\ "config" \notin skewed
    => config.names \ skewed \subseteq NamesIn(SkillStatus \ {"none"})

=============================================================================
