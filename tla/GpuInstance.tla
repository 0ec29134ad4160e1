---------------------------- MODULE GpuInstance -----------------------------
(***************************************************************************)
(* The life of one GPU instance: its row in the instances table, its       *)
(* Kubernetes Deployment, and everybody who changes one because of what    *)
(* was seen of the other: the user's requests and their background tasks   *)
(* (app/api/v1/instances.py), the administrator's deployment page          *)
(* (admin/admin_deployments.py), the worker's status synchronisation and   *)
(* billing (app/tasks.py) and the settlement they share (billing.py).      *)
(*                                                                         *)
(* Every job reads the row once, may call Kubernetes, and then writes the  *)
(* columns it changed; other jobs run at every await in between.  Time is  *)
(* counted in minutes from the creation of the instance.  What a balance   *)
(* allows is left open here: RechargeLedger models the balance.            *)
(***************************************************************************)
EXTENDS Integers

CONSTANTS
    Requests,      \* slots for requests, each with its background task
    Workers,       \* slots for the jobs of the worker process
    Ops,           \* the kinds of job that run
    Prepaid,       \* billing_type is monthly or yearly, not hourly
    Period,        \* the length of a prepaid period, in minutes
    ListTimeout,   \* CREATING_TIMEOUT of list_instances
    SyncTimeout,   \* CREATING_TIMEOUT of sync_instance_status_task
    Horizon,       \* bound on the clock
    MaxExpiry,     \* bound on expired_at
    Losable,       \* the kinds of job that may be lost: a crash, a cancelled
                   \* request, a timeout
    NULL

Statuses == {"creating", "starting", "running", "stopping", "stopped", "error",
             "expired", "releasing", "released"}

RequestOps == {"create", "start", "stop", "force", "release", "renew", "list", "scale", "delete"}
WorkerOps  == {"sync", "bill"}
AllOps     == RequestOps \cup WorkerOps

Jobs == Requests \cup Workers

ASSUME ConstantsAssumption ==
    /\ Ops \subseteq AllOps /\ Losable \subseteq AllOps
    /\ Requests \cap Workers = {}
    /\ Prepaid \in BOOLEAN
    /\ Period \in Nat \ {0}
    /\ ListTimeout \in Nat /\ SyncTimeout \in Nat
    /\ Horizon \in Nat /\ MaxExpiry \in Nat
    /\ NULL \notin Int \cup Statuses \cup AllOps

VARIABLES
    row,       \* the instance's committed row
    dep,       \* its Deployment, as list_deployments parses it
    job,       \* what each job is doing
    now,       \* the minutes since the creation
    due,       \* auxiliary: minutes that ran metered and no record charges yet
    overcharged, \* auxiliary: a record charged a minute that was not due
    paid,      \* auxiliary: the prepaid periods that orders charge
    disturbed  \* auxiliary: a job wrote the row on an outdated assumption

ledger == <<due, overcharged, paid>>
vars   == <<row, dep, job, now, ledger, disturbed>>

Minute == 0 .. Horizon
Time   == Minute \cup {NULL}

Row == [status    : Statuses \cup {NULL},       \* NULL: not inserted yet
        lastBilled : Time,
        startedAt  : Time,
        expiredAt  : 0 .. MaxExpiry \cup {NULL}]

NoRow == [status |-> NULL, lastBilled |-> NULL, startedAt |-> NULL, expiredAt |-> NULL]

\* No Deployment; scaled to 0; scaled up but not yet seen by its controller
\* (no updated replica); Pods coming up; given up (Progressing is False or
\* ReplicaFailure); every replica ready.
Deployments == {"none", "zero", "fresh", "pending", "failed", "ready"}

Steps == {"idle", "charge", "build", "buildError", "commitError", "poll", "up", "commitUp",
          "scaleUp", "markStarting", "scaleDown", "commitStop", "commitForce", "cleanup",
          "commitRelease", "remove", "finishRelease", "commitReleased", "commitRenew",
          "look", "commitLook", "remedy", "commitRemedy", "findLinked", "commitScale", "deleteDep",
          "commitDelete", "readBill", "forceStop", "commitBill"}

Job == [op   : AllOps \cup {NULL},
        at   : Steps,
        seen : Row,                      \* the row as the job read it
        when : Time,                     \* when it read the row, or a time it will write
        to   : Statuses \cup {NULL}]     \* a status it will write

Idle == [op |-> NULL, at |-> "idle", seen |-> NoRow, when |-> NULL, to |-> NULL]

-----------------------------------------------------------------------------
Init ==
    /\ row = NoRow
    /\ dep = "none"
    /\ job = [j \in Jobs |-> Idle]
    /\ now = 0
    /\ due = {} /\ overcharged = FALSE /\ paid = 0
    /\ disturbed = FALSE

\* A free slot of the right process for the job.
MayBegin(j, op) ==
    /\ op \in Ops
    /\ j \in IF op \in WorkerOps THEN Workers ELSE Requests
    /\ job[j].at = "idle"

\* The job begins by reading the row; t is a time that it will use.
Begin(j, op, step, t) ==
    /\ MayBegin(j, op) /\ row.status # NULL
    /\ job' = [job EXCEPT ![j] = [op |-> op, at |-> step, seen |-> row, when |-> t, to |-> NULL]]

Goto(j, step) == job' = [job EXCEPT ![j].at = step]

\* The request is answered, its session is closed; its background task goes on.
Background(j, step) ==
    job' = [job EXCEPT ![j] = [Idle EXCEPT !.op = job[j].op, !.at = step]]

Finish(j) == job' = [job EXCEPT ![j] = Idle]

At(j, op, step) == job[j].op = op /\ job[j].at = step

\* A write by j is based on what j read, which another job may have changed.
Outdated(j) == row # job[j].seen

\* The row changes to r, and the minutes are charged.
Save(j, r, minutes) ==
    /\ row' = r
    /\ due' = due \ minutes
    /\ overcharged' = (overcharged \/ ~(minutes \subseteq due))
    /\ disturbed' = (disturbed \/ Outdated(j))
    /\ UNCHANGED <<dep, now, paid>>

\* The row changes to r, on which j does not depend.
Overwrite(r) ==
    /\ row' = r
    /\ UNCHANGED <<dep, now, ledger>>

\* Kubernetes has scaled or deleted the Deployment.
Scaled(up) == CASE dep = "none"                    -> "none"
                [] dep # "none" /\ ~up             -> "zero"
                [] dep = "zero" /\ up              -> "fresh"
                [] dep \notin {"none", "zero"} /\ up -> dep

-----------------------------------------------------------------------------
(***************************************************************************)
(* settle_instance_billing, shared by stop, force, release and the         *)
(* administrator's scale and delete.                                       *)
(***************************************************************************)
\* The row r is metered, so settling it clears last_billed_at.
Settles(r) == ~Prepaid /\ r.lastBilled # NULL

\* The minutes charged, none for less than a minute.
Settlement(r, t) ==
    IF Settles(r) /\ r.status \in {"running", "stopped"} THEN r.lastBilled .. (t - 1) ELSE {}

\* Variant of Settled: the meter runs on.
SettledUncleared(j, status) == [row EXCEPT !.status = IF status # job[j].seen.status THEN status ELSE @]

\* The row after j's settlement, with j's new status: the session writes only
\* what differs from what it read.
Settled(j, status) ==
    [row EXCEPT !.status = IF status # job[j].seen.status THEN status ELSE @,
                !.lastBilled = IF Settles(job[j].seen) THEN NULL ELSE @]

SettleAndSave(j, status) ==
    Save(j, Settled(j, status), Settlement(job[j].seen, job[j].when))

-----------------------------------------------------------------------------
(***************************************************************************)
(* POST /instances and its background task create_k8s_resources.           *)
(***************************************************************************)
Create(j) ==
    /\ MayBegin(j, "create") /\ row.status = NULL
    /\ row' = [NoRow EXCEPT !.status = "creating"]
    /\ job' = [job EXCEPT ![j] = [Idle EXCEPT !.op = "create", !.at = "charge"]]
    /\ UNCHANGED <<dep, now, ledger, disturbed>>

\* The order of the first period, and expired_at; a failure is only logged.
FirstCharge(j) ==
    /\ At(j, "create", "charge")
    /\ Goto(j, "build")
    /\ \/ /\ Prepaid /\ now + Period <= MaxExpiry
          /\ row' = [row EXCEPT !.expiredAt = now + Period]
          /\ paid' = paid + 1
          /\ disturbed' = (disturbed \/ row.expiredAt # NULL)
       \/ /\ ~Prepaid \/ "create" \in Losable
          /\ UNCHANGED <<row, paid, disturbed>>
    /\ UNCHANGED <<dep, now, due, overcharged>>

\* create_deployment succeeds; or it reports an error, though the Deployment
\* may exist (a lost answer, and a conflict at the retry); or it raises.
Build(j) ==
    /\ At(j, "create", "build")
    /\ \/ dep' = "fresh" /\ Goto(j, "poll")
       \/ dep' \in {"none", "fresh"} /\ Goto(j, "buildError")
       \/ dep' \in {"none", "fresh"} /\ Finish(j)
    /\ UNCHANGED <<row, now, ledger, disturbed>>

\* A background task reads the row afresh, in a session of its own.
Reread(j) ==
    /\ job[j].at \in {"buildError", "up", "finishRelease"}
    /\ job' = [job EXCEPT ![j].seen = row,
                          ![j].at = CASE @ = "buildError" -> "commitError"
                                      [] @ = "up"         -> "commitUp"
                                      [] OTHER            -> "commitReleased"]
    /\ UNCHANGED <<row, dep, now, ledger, disturbed>>

\* The status after j has set it: the session writes it only if it has read another.
Marked(j, status) == IF job[j].seen.status = status THEN row.status ELSE status

BuildError(j) ==
    /\ At(j, "create", "commitError")
    /\ Overwrite([row EXCEPT !.status = Marked(j, "error")])
    /\ disturbed' = (disturbed \/ row.status # "creating")
    /\ Finish(j)

\* wait_for_pod_ready, of create and start: a ready Pod, which may be one of
\* several, or 120 s are over.
PodReady(j) ==
    /\ job[j].at = "poll" /\ dep \in {"pending", "ready"}
    /\ Goto(j, "up")
    /\ UNCHANGED <<row, dep, now, ledger, disturbed>>

PodNotReady(j) ==
    /\ job[j].at = "poll"
    /\ Finish(j)
    /\ UNCHANGED <<row, dep, now, ledger, disturbed>>

\* The row becomes running, whatever it was; one that was running when it was
\* read, and no longer is, gets a meter only.
MarkUp(j) ==
    /\ job[j].at = "commitUp"
    /\ Overwrite([row EXCEPT !.status = Marked(j, "running"),
                             !.startedAt = IF job[j].op = "create" THEN now ELSE @,
                             !.lastBilled = IF Prepaid THEN @ ELSE now])
    /\ disturbed' = (disturbed \/ row'.status # "running")
    /\ Finish(j)

-----------------------------------------------------------------------------
\* POST /start: scale up, mark STARTING, poll.
Start(j) ==
    /\ row.status \in {"stopped", "error", "expired"}
    /\ Begin(j, "start", "scaleUp", NULL)
    /\ UNCHANGED <<row, dep, now, ledger, disturbed>>

ScaleUp(j) ==
    /\ At(j, "start", "scaleUp")
    /\ \/ dep # "none" /\ dep' = Scaled(TRUE) /\ Goto(j, "markStarting")
       \/ dep' \in {dep, Scaled(TRUE)} /\ Finish(j)         \* refused, or no answer
    /\ UNCHANGED <<row, now, ledger, disturbed>>

MarkStarting(j) ==
    /\ At(j, "start", "markStarting")
    /\ Save(j, [row EXCEPT !.status = "starting", !.startedAt = now], {})
    /\ Background(j, "poll")

\* POST /stop: settle, scale down, commit both.
Stop(j) ==
    /\ row.status = "running"
    /\ Begin(j, "stop", "scaleDown", now)
    /\ UNCHANGED <<row, dep, now, ledger, disturbed>>

ScaleDown(j) ==
    /\ At(j, "stop", "scaleDown")
    /\ \/ dep # "none" /\ dep' = "zero" /\ Goto(j, "commitStop")
       \/ dep' \in {dep, Scaled(FALSE)} /\ Finish(j)        \* 500, rolled back
    /\ UNCHANGED <<row, now, ledger, disturbed>>

CommitStop(j) ==
    /\ At(j, "stop", "commitStop")
    /\ SettleAndSave(j, "stopped")
    /\ Finish(j)

-----------------------------------------------------------------------------
\* DELETE /force: RELEASED first, Kubernetes afterwards.
ForceDelete(j) ==
    /\ Begin(j, "force", "commitForce", now)
    /\ UNCHANGED <<row, dep, now, ledger, disturbed>>

CommitForce(j) ==
    /\ At(j, "force", "commitForce")
    /\ SettleAndSave(j, "released")
    /\ Background(j, "cleanup")

\* DELETE: RELEASING, Kubernetes, RELEASED.
Release(j) ==
    /\ row.status \notin {"releasing", "released"}
    /\ Begin(j, "release", "commitRelease", now)
    /\ UNCHANGED <<row, dep, now, ledger, disturbed>>

CommitRelease(j) ==
    /\ At(j, "release", "commitRelease")
    /\ SettleAndSave(j, "releasing")
    /\ Background(j, "remove")

\* Variant of Remove: a failure ends the background task.
RemoveOrGiveUp(j) ==
    /\ job[j].at \in {"cleanup", "remove"}
    /\ \/ dep' = "none" /\ IF job[j].at = "cleanup" THEN Finish(j) ELSE Goto(j, "finishRelease")
       \/ dep' = dep /\ Finish(j)
    /\ UNCHANGED <<row, now, ledger, disturbed>>

\* delete_deployment in the background: its failure is ignored.
Remove(j) ==
    /\ job[j].at \in {"cleanup", "remove"}
    /\ dep' \in {dep, "none"}
    /\ IF job[j].at = "cleanup" THEN Finish(j) ELSE Goto(j, "finishRelease")
    /\ UNCHANGED <<row, now, ledger, disturbed>>

\* The row becomes released, whatever it was.
FinishRelease(j) ==
    /\ At(j, "release", "commitReleased")
    /\ Overwrite([row EXCEPT !.status = Marked(j, "released")])
    /\ Finish(j)
    /\ UNCHANGED disturbed

-----------------------------------------------------------------------------
\* Variant of Extended: what is left of the period is forfeited.
ExtendedFromNow(expiry, t) == t + Period

\* POST /renew, in any status: a period from expired_at, or from now.
Extended(expiry, t) == (IF expiry # NULL /\ expiry > t THEN expiry ELSE t) + Period

Renew(j) ==
    /\ Prepaid
    /\ Extended(row.expiredAt, now) <= MaxExpiry
    /\ Begin(j, "renew", "commitRenew", now)
    /\ UNCHANGED <<row, dep, now, ledger, disturbed>>

CommitRenew(j) ==
    LET seen == job[j].seen IN
    /\ At(j, "renew", "commitRenew")
    /\ row' = [row EXCEPT !.expiredAt = Extended(seen.expiredAt, job[j].when),
                          !.status = IF seen.status = "expired" THEN "stopped" ELSE @]
    /\ paid' = paid + 1
    /\ disturbed' = (disturbed \/ Outdated(j))
    /\ Finish(j)
    /\ UNCHANGED <<dep, now, due, overcharged>>

-----------------------------------------------------------------------------
(***************************************************************************)
(* The administrator's deployment page.                                    *)
(***************************************************************************)
\* PUT /scale to 0: Kubernetes first, then settle and mark STOPPED; to more
\* replicas: Kubernetes only.
AdminScale(j) ==
    /\ MayBegin(j, "scale") /\ dep # "none"
    /\ \/ dep' = "zero" /\ job' = [job EXCEPT ![j].op = "scale", ![j].at = "findLinked"]
       \/ dep' \in {Scaled(TRUE), "zero"} /\ UNCHANGED job  \* more replicas; or no answer
    /\ UNCHANGED <<row, now, ledger, disturbed>>

FindLinked(j) ==
    /\ At(j, "scale", "findLinked")
    /\ job' = [job EXCEPT ![j].at = "commitScale", ![j].seen = row, ![j].when = now]
    /\ UNCHANGED <<row, dep, now, ledger, disturbed>>

CommitScale(j) ==
    /\ At(j, "scale", "commitScale")
    /\ SettleAndSave(j, "stopped")
    /\ Finish(j)

\* DELETE: settle, delete the Deployment, mark RELEASED.
AdminDelete(j) ==
    /\ dep # "none"
    /\ Begin(j, "delete", "deleteDep", now)
    /\ UNCHANGED <<row, dep, now, ledger, disturbed>>

DeleteDep(j) ==
    /\ At(j, "delete", "deleteDep")
    /\ \/ dep # "none" /\ dep' = "none" /\ Goto(j, "commitDelete")
       \/ dep' \in {dep, "none"} /\ Finish(j)               \* 400, rolled back
    /\ UNCHANGED <<row, now, ledger, disturbed>>

CommitDelete(j) ==
    /\ At(j, "delete", "commitDelete")
    /\ SettleAndSave(j, "released")
    /\ Finish(j)

-----------------------------------------------------------------------------
(***************************************************************************)
(* Two alignments of the row with the Deployment: GET /instances and the   *)
(* worker's sync_instance_status_task.                                     *)
(***************************************************************************)
\* Variant of Derived: Kubernetes' own word for the status.
DerivedRaw(d, status) ==
    CASE d = "zero"  -> "stopped"
      [] d = "ready" -> "running"
      [] d = "failed" -> "error"
      [] OTHER       -> d

\* _derive_instance_status
Derived(d, status) ==
    CASE d = "zero"   -> "stopped"
      [] d = "ready"  -> "running"
      [] d = "failed" -> "error"
      [] OTHER        -> IF status = "creating" THEN "creating"
                         ELSE IF d = "fresh" THEN "error" ELSE "starting"

\* Variant of Vanished: a creation is given all the time it takes.
VanishedPatient(status, timeout) ==
    IF status \in {"running", "starting"} THEN "error" ELSE status

\* The status of a row whose Deployment is not in the list.  (STOPPING, which
\* nothing writes, is left out.)
Vanished(status, timeout) ==
    CASE status = "creating"                -> IF now > timeout THEN "error" ELSE "creating"
      [] status \in {"running", "starting"} -> "error"
      [] OTHER                              -> status

ListInstances(j) ==
    /\ row.status \in {"running", "creating", "starting", "stopping"}
    /\ Begin(j, "list", "look", NULL)
    /\ UNCHANGED <<row, dep, now, ledger, disturbed>>

\* Variant of Watched: starting is left to the poller.
WatchedWithoutStarting == {"creating", "running", "stopping", "error"}

\* The statuses that the worker compares with the Deployment.
Watched == {"creating", "starting", "running", "stopping", "error"}

SyncStatus(j) ==
    /\ IF row.status \in Watched
       THEN Begin(j, "sync", "look", NULL)
       ELSE Begin(j, "sync", "remedy", NULL)
    /\ UNCHANGED <<row, dep, now, ledger, disturbed>>

\* What follows when the Deployment looks like d.
Look(j, d) ==
    LET seen == job[j].seen
        status == IF d = "none"
                  THEN Vanished(seen.status, IF job[j].op = "list" THEN ListTimeout ELSE SyncTimeout)
                  ELSE Derived(d, seen.status)
    IN
    /\ job[j].at = "look"
    /\ IF status # seen.status
       THEN job' = [job EXCEPT ![j].at = "commitLook", ![j].to = status]
       ELSE IF job[j].op = "list" THEN Finish(j) ELSE Goto(j, "remedy")
    /\ UNCHANGED <<row, dep, now, ledger, disturbed>>

\* list_deployments: an API error other than a lost connection comes back as
\* an empty list; a lost connection ends the alignment.
LookRight(j) == Look(j, dep)

LookWrong(j) ==
    \/ Look(j, "none")
    \/ /\ job[j].at = "look"
       /\ Finish(j)
       /\ UNCHANGED <<row, dep, now, ledger, disturbed>>

\* What both write: the status, and started_at once.
Aligned(j) ==
    [row EXCEPT !.status = job[j].to,
                !.startedAt = IF job[j].to = "running" /\ job[j].seen.startedAt = NULL
                              THEN now ELSE @]

\* list_instances leaves last_billed_at as it is.
CommitList(j) ==
    /\ At(j, "list", "commitLook")
    /\ Overwrite(Aligned(j))
    /\ disturbed' = (disturbed \/ Outdated(j) \/ "running" \in {job[j].to, job[j].seen.status})
    /\ Finish(j)

\* The worker starts the meter when it writes running, and stops it when it
\* writes something else over running.
CommitSync(j) ==
    LET seen == job[j].seen
        r == [Aligned(j) EXCEPT
                !.lastBilled = IF Prepaid THEN @
                               ELSE IF job[j].to = "running" THEN now
                               ELSE IF seen.status = "running" /\ seen.lastBilled # NULL THEN NULL ELSE @]
    IN
    /\ At(j, "sync", "commitLook")
    /\ Save(j, r, {})
    /\ job' = [job EXCEPT ![j].at = "remedy",
                          ![j].seen.startedAt = IF job[j].to = "running" /\ @ = NULL THEN now ELSE @]

\* Variant of Remedy: the billing types are exchanged.
RemedyPrepaid(j) ==
    /\ At(j, "sync", "remedy")
    /\ IF Prepaid /\ row.status = "running" /\ row.lastBilled = NULL
       THEN job' = [job EXCEPT ![j].at = "commitRemedy", ![j].seen = row, ![j].when = now]
       ELSE Finish(j)
    /\ UNCHANGED <<row, dep, now, ledger, disturbed>>

\* The repair at the end of the synchronisation: running without a meter.  The
\* start is that of the session's copy of the row, if it has one.
Remedy(j) ==
    LET seen == job[j].seen
        copy == IF seen.status \in {"stopped", "expired", "releasing", "released"} THEN row ELSE seen
    IN
    /\ At(j, "sync", "remedy")
    /\ IF ~Prepaid /\ row.status = "running" /\ row.lastBilled = NULL
       THEN job' = [job EXCEPT ![j].at = "commitRemedy", ![j].seen = row,
                               ![j].when = IF copy.startedAt = NULL THEN now ELSE copy.startedAt]
       ELSE Finish(j)
    /\ UNCHANGED <<row, dep, now, ledger, disturbed>>

CommitRemedy(j) ==
    /\ At(j, "sync", "commitRemedy")
    /\ Save(j, [row EXCEPT !.lastBilled = job[j].when], {})
    /\ Finish(j)

-----------------------------------------------------------------------------
(***************************************************************************)
(* The worker's process_all_billing_task, and process_instance_billing_task*)
(* for the instance it selected.                                           *)
(***************************************************************************)
SelectBill(j) ==
    /\ row.status \in (IF Prepaid THEN {"running", "stopped", "expired"} ELSE {"running"})
    /\ Begin(j, "bill", "readBill", NULL)
    /\ UNCHANGED <<row, dep, now, ledger, disturbed>>

\* Variant of MeterStart: always from the start of the run.
MeterStartOfRun(r, t) == IF r.startedAt # NULL THEN r.startedAt ELSE t

\* Hourly: the meter, or the start of the run, or now.  A debt of 10 yuan
\* stops the instance.
MeterStart(r, t) == IF r.lastBilled # NULL THEN r.lastBilled
                    ELSE IF r.startedAt # NULL THEN r.startedAt ELSE t

ReadHourly(j) ==
    /\ ~Prepaid
    /\ At(j, "bill", "readBill")
    /\ IF row.status # "running" \/ row.lastBilled = now THEN Finish(j)
       ELSE \E step \in {"commitBill", "forceStop"} :
              /\ step = "forceStop" => MeterStart(row, now) < now
              /\ job' = [job EXCEPT ![j].at = step, ![j].seen = row, ![j].when = now]
    /\ UNCHANGED <<row, dep, now, ledger, disturbed>>

\* A refusal is not noticed; an exception leaves the status as it is.
ForceStop(j) ==
    /\ At(j, "bill", "forceStop")
    /\ dep' \in {dep, Scaled(FALSE)}
    /\ job' = [job EXCEPT ![j].at = "commitBill", ![j].to = "stopped"] \/ Goto(j, "commitBill")
    /\ UNCHANGED <<row, now, ledger, disturbed>>

CommitHourly(j) ==
    LET start == MeterStart(job[j].seen, job[j].when) IN
    /\ ~Prepaid
    /\ At(j, "bill", "commitBill")
    /\ Save(j, IF job[j].to = "stopped"
               THEN [row EXCEPT !.status = "stopped", !.lastBilled = NULL]
               ELSE [row EXCEPT !.lastBilled = job[j].when],
            start .. (job[j].when - 1))
    /\ Finish(j)

\* Variant of Subscribed: the last minute does not count.
SubscribedShort(r, t) == r.expiredAt # NULL /\ t + 1 < r.expiredAt

\* Prepaid: when the period is over, another one, or EXPIRED.
Subscribed(r, t) == r.expiredAt # NULL /\ t < r.expiredAt

NextExpiry(r, t) == (IF r.expiredAt # NULL THEN r.expiredAt ELSE t) + Period

ReadPrepaid(j) ==
    /\ Prepaid
    /\ At(j, "bill", "readBill")
    /\ IF row.status \in {"released", "releasing"} \/ Subscribed(row, now)
       THEN Finish(j)
       ELSE \E status \in {NULL, "expired"} :      \* the balance suffices, or not
              /\ status = NULL => NextExpiry(row, now) <= MaxExpiry
              /\ job' = [job EXCEPT ![j].at = "commitBill", ![j].seen = row,
                                    ![j].when = now, ![j].to = status]
    /\ UNCHANGED <<row, dep, now, ledger, disturbed>>

CommitPrepaid(j) ==
    /\ Prepaid
    /\ At(j, "bill", "commitBill")
    /\ IF job[j].to = "expired"
       THEN /\ row' = [row EXCEPT !.status = IF job[j].seen.status # "expired" THEN "expired" ELSE @]
            /\ UNCHANGED paid
       ELSE /\ row' = [row EXCEPT !.expiredAt = NextExpiry(job[j].seen, job[j].when)]
            /\ paid' = paid + 1
    /\ disturbed' = (disturbed \/ Outdated(j))
    /\ Finish(j)
    /\ UNCHANGED <<dep, now, due, overcharged>>

-----------------------------------------------------------------------------
\* A job is lost: its process ends, its request is cancelled, it times out.
Lose(j) ==
    /\ job[j].at # "idle" /\ job[j].op \in Losable
    /\ Finish(j)
    /\ UNCHANGED <<row, dep, now, ledger, disturbed>>

\* Kubernetes: the controller takes the Deployment up, and its Pods become ready
\* or it gives up (progressDeadlineSeconds); ready Pods can fail.
Roll ==
    /\ \/ dep = "fresh" /\ dep' \in {"pending", "failed"}
       \/ dep = "pending" /\ dep' \in {"ready", "failed"}
       \/ dep = "failed" /\ dep' = "ready"
    /\ UNCHANGED <<row, job, now, ledger, disturbed>>

Unready ==
    /\ dep = "ready" /\ dep' = "pending"
    /\ UNCHANGED <<row, job, now, ledger, disturbed>>

Tick ==
    /\ row.status # NULL /\ now < Horizon
    /\ now' = now + 1
    /\ due' = IF ~Prepaid /\ row.status = "running" THEN due \cup {now} ELSE due
    /\ UNCHANGED <<row, dep, job, overcharged, paid, disturbed>>

Arrive(j) ==
    \/ Create(j) \/ Start(j) \/ Stop(j) \/ ForceDelete(j) \/ Release(j) \/ Renew(j)
    \/ AdminScale(j) \/ AdminDelete(j) \/ ListInstances(j) \/ SyncStatus(j) \/ SelectBill(j)

Proceed(j) ==
    \/ FirstCharge(j) \/ Build(j) \/ Reread(j) \/ BuildError(j) \/ PodReady(j) \/ PodNotReady(j) \/ MarkUp(j)
    \/ ScaleUp(j) \/ MarkStarting(j) \/ ScaleDown(j) \/ CommitStop(j) \/ CommitForce(j)
    \/ CommitRelease(j) \/ Remove(j) \/ FinishRelease(j) \/ CommitRenew(j)
    \/ FindLinked(j) \/ CommitScale(j) \/ DeleteDep(j) \/ CommitDelete(j)
    \/ LookRight(j) \/ LookWrong(j) \/ CommitList(j) \/ CommitSync(j) \/ Remedy(j) \/ CommitRemedy(j)
    \/ ReadHourly(j) \/ ForceStop(j) \/ CommitHourly(j) \/ ReadPrepaid(j) \/ CommitPrepaid(j)

Next ==
    \/ \E j \in Jobs : Arrive(j) \/ Proceed(j) \/ Lose(j)
    \/ Roll \/ Unready \/ Tick

Spec == Init /\ [][Next]_vars

\* A job that has begun goes on, unless it is lost; the clock and Kubernetes'
\* controllers run; the worker synchronises every 30 s, and now and then it is
\* not lost, list_deployments works and both commits succeed.
Fairness ==
    /\ \A j \in Jobs : WF_vars(Proceed(j))
    /\ \A j \in Workers : /\ SF_vars(SyncStatus(j)) /\ SF_vars(LookRight(j)) /\ SF_vars(CommitSync(j))
                          /\ SF_vars(Remedy(j)) /\ SF_vars(CommitRemedy(j))
    /\ WF_vars(Roll)
    /\ WF_vars(Tick)

FairSpec == Spec /\ Fairness

-----------------------------------------------------------------------------
TypeOK ==
    /\ row \in Row
    /\ dep \in Deployments
    /\ job \in [Jobs -> Job]
    /\ now \in Minute
    /\ due \subseteq Minute
    /\ paid \in Nat
    /\ overcharged \in BOOLEAN /\ disturbed \in BOOLEAN

-----------------------------------------------------------------------------
(***************************************************************************)
(* The parts of the inductive invariant.                                   *)
(***************************************************************************)
\* Before the row is inserted nothing has happened.
NothingBefore == row.status = NULL => /\ dep = "none" /\ paid = 0
                                     /\ \A j \in Jobs : job[j].at = "idle"

\* The steps for which a job remembers when it read the row.
TimedSteps == {"scaleDown", "commitStop", "commitForce", "commitRelease", "commitRenew", "commitScale",
               "deleteDep", "commitDelete", "forceStop", "commitBill"}

\* What a job j knows: the time, the row that let it come this far, and what it
\* decided from that row.
Informed(j) ==
    LET w == job[j] IN
    /\ w.at \in TimedSteps => w.when # NULL /\ w.when <= now
    /\ w.at = "commitRenew" => Prepaid /\ Extended(w.seen.expiredAt, w.when) <= MaxExpiry
    /\ w.at \in {"scaleUp", "markStarting"} => w.seen.status \in {"stopped", "error", "expired"}
    /\ w.at \in {"look", "commitLook"} => w.seen.status \in Watched
    /\ w.at = "commitLook" => w.to \in {"creating", "starting", "running", "stopped", "error"}
    /\ w.at = "forceStop" => ~Prepaid
    /\ w.at \in {"forceStop", "commitBill"} /\ ~Prepaid =>
          w.seen.status = "running" /\ (disturbed \/ w.seen.lastBilled <= w.when)
    /\ w.at = "commitBill" /\ Prepaid => IF w.to = "expired" THEN ~Subscribed(w.seen, w.when)
                                        ELSE NextExpiry(w.seen, w.when) <= MaxExpiry
    /\ w.at = "commitRemedy" => disturbed

JobsInformed == \A j \in Jobs : Informed(j)

\* The meter of a running instance stands at the first minute that is not
\* charged; an instance that does not run has none, unless its deletion
\* overtook a poller.
MeterIsRight ==
    ~Prepaid /\ ~disturbed =>
        /\ row.lastBilled # NULL => row.status \in {"running", "released"}
        /\ row.status = "running" => /\ row.lastBilled # NULL /\ row.lastBilled <= now
                                    /\ row.lastBilled .. (now - 1) \subseteq due

-----------------------------------------------------------------------------
\* An hourly instance is billed for minutes in which it ran, and for none of
\* them twice: by the periodic billing, the settlement of stop, delete, force,
\* scale and admin delete together, whatever runs in between; unless a job
\* wrote over a change it had not seen, or GET /instances changed the status
\* without the meter.
BilledAsItRan == ~disturbed => ~overcharged

\* What was paid for is granted: every order extends expired_at by a period.
PeriodsPaidFor == ~disturbed /\ paid > 0 => row.expiredAt # NULL /\ row.expiredAt >= paid * Period

\* An instance becomes EXPIRED only when its period is over: a renewal that was
\* paid meanwhile is not answered by an expiry.
ExpiresWhenDue ==
    [][row'.status = "expired" /\ row.status # "expired" /\ ~disturbed'
          => row.expiredAt = NULL \/ row.expiredAt <= now]_vars

\* The inductive invariant from which the theorems follow.
IInv ==
    /\ TypeOK
    /\ NothingBefore
    /\ JobsInformed
    /\ MeterIsRight
    /\ BilledAsItRan
    /\ PeriodsPaidFor

\* Ready Pods fail only finitely often.
Steady == <>[][~Unready]_vars

\* A creation and a start come to an end, in running or in error, whatever
\* becomes of their poller and however often the synchronisation fails; unless
\* the Pods come and go for ever, each time between two synchronisations.
TransitionsEnd ==
    Steady => \A status \in {"creating", "starting"} : row.status = status ~> row.status # status

\* GET /instances writes RUNNING and starts no meter; the worker's repair makes
\* good for that, so that no metered instance runs for nothing for ever.
MeterStarts ==
    ~Prepaid => (row.status = "running" /\ row.lastBilled = NULL
                   ~> row.status # "running" \/ row.lastBilled # NULL)

\* A deletion comes to an end, though the background task that ends it is all
\* that remembers it: nothing looks for RELEASING rows.
ReleasingEnds == row.status = "releasing" ~> row.status # "releasing"

\* process_instance_billing_task says that metered instances pay for the time
\* they really ran.
BilledForRunningOnly == ~overcharged

=============================================================================
