------------------------------ MODULE OpenClaw -------------------------------
(***************************************************************************)
(* The life of one OpenClaw instance: its row (models OpenClawInstance),   *)
(* the Kubernetes resources OpenClawManager makes for it, the requests of  *)
(* its user (app/api/v1/openclaw.py) and of the administrator              *)
(* (admin_openclaw.py, admin_deployments.py), and the worker's             *)
(* openclaw_instance_sync and billing (app/tasks.py).                      *)
(*                                                                         *)
(* As in GpuInstance, a job reads the row once, calls Kubernetes, and then *)
(* writes the columns it changed.  POST /start has no action: it takes     *)
(* billing_type, a string column, for an enum, and inst.billing_type.value *)
(* raises before anything is done.                                         *)
(***************************************************************************)
EXTENDS OpenClawConstants

\* The Secret, the ConfigMap and the Service as one; the volume and its claim.
Parts == {"configuration", "volume"}

VARIABLES
    row,         \* the committed row
    kept,        \* the Kubernetes resources other than the Deployment
    dep,         \* the Deployment, as get_deployment parses it
    job,         \* what each job is doing
    now,         \* minutes since the creation
    due,         \* auxiliary: minutes in which it ran and no record charges yet
    overcharged, \* auxiliary: a record charged a minute that was not due
    paid,        \* auxiliary: the prepaid periods that were charged
    leaked,      \* auxiliary: a creation or a deletion failed in Kubernetes, and
                 \* kept does not tell what it left behind
    disturbed    \* auxiliary: a job wrote the row on an outdated assumption

ledger == <<due, overcharged, paid>>
vars   == <<row, kept, dep, job, now, ledger, leaked, disturbed>>

Jobs   == Requests \cup Workers
Minute == 0 .. Horizon
Time   == Minute \cup {NULL}

Row == [status     : Statuses \cup {NULL},     \* NULL: not committed
        named      : BOOLEAN,                  \* deployment_name is set
        prepaid    : BOOLEAN,                  \* billing_type is not hourly
        lastBilled : Time,
        startedAt  : Time,
        expiredAt  : 0 .. MaxExpiry \cup {NULL}]

NoRow == [status |-> NULL, named |-> FALSE, prepaid |-> FALSE, lastBilled |-> NULL,
          startedAt |-> NULL, expiredAt |-> NULL]

\* None; scaled to 0; scaled to 0 while its Pod still counts as ready; with a
\* Pod coming up; given up (Progressing is False, or ReplicaFailure); ready.
Deployments == {"none", "zero", "draining", "pending", "failed", "ready"}

Steps == {"idle", "build", "commitCreate", "buildError", "scaleDown", "scaleUp", "commit",
          "remove", "finish", "cleanup", "deleteDep", "look", "readBill", "forceStop", "commitBill"}

Job == [op   : Ops \cup {NULL},
        at   : Steps,
        seen : Row,
        when : Time,
        to   : Statuses \cup {NULL}]

Idle == [op |-> NULL, at |-> "idle", seen |-> NoRow, when |-> NULL, to |-> NULL]

-----------------------------------------------------------------------------
Init ==
    /\ row = NoRow
    /\ kept = {} /\ dep = "none"
    /\ job = [j \in Jobs |-> Idle]
    /\ now = 0
    /\ due = {} /\ overcharged = FALSE /\ paid = 0
    /\ leaked = FALSE /\ disturbed = FALSE

\* The job begins by reading the row; t is a time that it will use.
Begin(j, op, step, t) ==
    /\ j \in (IF op \in {"sync", "bill"} THEN Workers ELSE Requests)
    /\ job[j].at = "idle" /\ row.status # NULL
    /\ job' = [job EXCEPT ![j] = [op |-> op, at |-> step, seen |-> row, when |-> t, to |-> NULL]]
    /\ UNCHANGED <<row, kept, dep, now, ledger, leaked, disturbed>>

Goto(j, step)       == job' = [job EXCEPT ![j].at = step]
Decide(j, step, to) == job' = [job EXCEPT ![j].at = step, ![j].to = to]
Finish(j)           == job' = [job EXCEPT ![j] = Idle]
At(j, op, step)     == job[j].op = op /\ job[j].at = step

Outdated(j) == row # job[j].seen

\* The row changes to r; the minutes found to be due are so, and those charged
\* no longer are.  The accounts end with the first outdated write.
Account(j, found, charged, periods) ==
    /\ disturbed' = (disturbed \/ Outdated(j))
    /\ due' = IF disturbed' THEN {} ELSE (due \cup found) \ charged
    /\ overcharged' = (~disturbed' /\ (overcharged \/ ~(charged \subseteq due)))
    /\ paid' = IF disturbed' THEN 0 ELSE paid + periods

Save(j, r, charged) ==
    /\ row' = r
    /\ Account(j, {}, charged, 0)
    /\ UNCHANGED <<kept, dep, now, leaked>>

\* Of the resources k, those that a job that went wrong leaves are forgotten.
Leave(k, wrong) ==
    /\ leaked' = (leaked \/ wrong)
    /\ kept' = IF leaked' THEN {} ELSE k

\* The Deployment after a successful scale_deployment.
Down == IF dep = "ready" THEN "draining" ELSE IF dep = "none" THEN "none" ELSE "zero"
Up   == IF dep \in {"zero", "draining"} THEN "pending" ELSE dep

\* scale_deployment answers True, or False though it may have had its effect.
Scale(to, then, otherwise) ==
    \/ dep # "none" /\ dep' = to /\ then
    \/ dep' \in {dep, to} /\ otherwise

-----------------------------------------------------------------------------
(***************************************************************************)
(* settle_instance_billing                                                 *)
(***************************************************************************)
Settles(r) == ~r.prepaid /\ r.lastBilled # NULL

Settlement(r, t) ==
    IF Settles(r) /\ r.status \in {"running", "stopped"} THEN r.lastBilled .. (t - 1) ELSE {}

\* Variant of Settled: the meter runs on.
SettledUncleared(j, status) == [row EXCEPT !.status = IF status # job[j].seen.status THEN status ELSE @]

Settled(j, status) ==
    [row EXCEPT !.status = IF status # job[j].seen.status THEN status ELSE @,
                !.lastBilled = IF Settles(job[j].seen) THEN NULL ELSE @]

SettleAndSave(j, status) ==
    Save(j, Settled(j, status), Settlement(job[j].seen, job[j].when))

-----------------------------------------------------------------------------
(***************************************************************************)
(* POST /instances: the row is flushed but not committed while the         *)
(* resources are made.                                                     *)
(***************************************************************************)
Create(j) ==
    /\ job[j].at = "idle" /\ j \in Requests
    /\ row.status = NULL /\ kept = {} /\ dep = "none" /\ ~leaked
    /\ \A i \in Requests : job[i].at = "idle"
    /\ \E prepaid \in BOOLEAN :
          /\ prepaid => now + Period <= MaxExpiry
          /\ job' = [job EXCEPT ![j] =
                [Idle EXCEPT !.op = "create", !.at = "build",
                             !.seen = [NoRow EXCEPT !.status = "creating", !.prepaid = prepaid,
                                                    !.expiredAt = IF prepaid THEN now + Period ELSE NULL]]]
    /\ UNCHANGED <<row, kept, dep, now, ledger, leaked, disturbed>>

\* OpenClawManager.create_instance: an exception ends it and nothing is taken
\* back; create_deployment answers None for an error, which may hide a
\* Deployment; create_service's None goes unnoticed.
Build(j) ==
    /\ At(j, "create", "build")
    /\ \/ /\ kept' = Parts /\ dep' = "pending"
          /\ Goto(j, "commitCreate")
          /\ UNCHANGED leaked
       \/ /\ dep' \in {"none", "pending"}
          /\ Goto(j, "buildError")
          /\ Leave({}, TRUE)
    /\ UNCHANGED <<row, now, ledger, disturbed>>

\* Variant of Insert: the first period is not charged.
InsertUncharged(j, r) ==
    /\ row' = r
    /\ UNCHANGED paid

\* The commit of the row, with the charge of the first period.
Insert(j, r) ==
    /\ row' = r
    /\ paid' = IF r.prepaid /\ r.named THEN paid + 1 ELSE paid

CommitCreate(j) ==
    /\ job[j].at \in {"commitCreate", "buildError"}
    /\ Insert(j, IF job[j].at = "commitCreate" THEN [job[j].seen EXCEPT !.named = TRUE]
                 ELSE [job[j].seen EXCEPT !.status = "error"])
    /\ Finish(j)
    /\ UNCHANGED <<kept, dep, now, due, overcharged, leaked, disturbed>>

-----------------------------------------------------------------------------
\* POST /stop: settle, scale to 0, commit both.
Stop(j)    == row.status \in {"running", "error"} /\ Begin(j, "stop", "scaleDown", now)

\* POST /restart: scale to 0 and back, no settlement.
Restart(j) == row.status = "running" /\ Begin(j, "restart", "scaleDown", NULL)

ScaleDown(j) ==
    /\ job[j].at = "scaleDown"
    /\ Scale(Down, Goto(j, IF job[j].op = "stop" THEN "commit" ELSE "scaleUp"), Finish(j))
    /\ UNCHANGED <<row, kept, now, ledger, leaked, disturbed>>

ScaleUp(j) ==
    /\ At(j, "restart", "scaleUp")
    /\ Scale(Up, Decide(j, "commit", "creating"), Decide(j, "commit", "error"))
    /\ UNCHANGED <<row, kept, now, ledger, leaked, disturbed>>

CommitStop(j) ==
    /\ At(j, "stop", "commit")
    /\ SettleAndSave(j, "stopped")
    /\ Finish(j)

CommitRestart(j) ==
    /\ At(j, "restart", "commit")
    /\ Save(j, IF job[j].to = "creating" THEN [row EXCEPT !.status = "creating", !.startedAt = now]
               ELSE [row EXCEPT !.status = "error"], {})
    /\ Finish(j)

-----------------------------------------------------------------------------
\* DELETE by the user, in any status: releasing, the resources, released.
\* DELETE /force: released first, the resources after.
Delete(j) == \E op \in {"delete", "force"} : Begin(j, op, "commit", now)

\* The administrator's DELETE goes on as the user's does.
AdminRelease(j) == row.status # "released" /\ Begin(j, "delete", "commit", now)

CommitDelete(j) ==
    /\ job[j].op \in {"delete", "force"} /\ job[j].at = "commit"
    /\ SettleAndSave(j, IF job[j].op = "delete" THEN "releasing" ELSE "released")
    /\ job' = [job EXCEPT ![j] = [Idle EXCEPT !.op = job[j].op,
                              !.at = IF job[j].op = "delete" THEN "remove" ELSE "cleanup"]]

\* Variant of Removal: the volume stays.
RemovalButVolume == kept' = kept \cap {"volume"} /\ dep' = "none" /\ UNCHANGED leaked

\* release_instance: one resource after the other; failures are ignored.
Removal ==
    /\ dep' \in {dep, "none"}
    /\ \E k \in SUBSET kept : Leave(k, k # {} \/ dep' # "none")

Remove(j) ==
    /\ job[j].at \in {"remove", "cleanup"}
    /\ Removal
    /\ IF job[j].at = "cleanup" THEN Finish(j) ELSE Goto(j, "finish")
    /\ UNCHANGED <<row, now, ledger, disturbed>>

\* Whatever the row has become.
FinishDelete(j) ==
    /\ At(j, "delete", "finish")
    /\ row' = [row EXCEPT !.status = "released"]
    /\ Finish(j)
    /\ UNCHANGED <<kept, dep, now, ledger, leaked, disturbed>>

-----------------------------------------------------------------------------
\* PUT /admin/deployments/.../scale: first Kubernetes; at 0, settle, stopped.
AdminScale(j) ==
    /\ job[j].at = "idle" /\ j \in Requests /\ row.status # NULL /\ dep # "none"
    /\ \/ dep' = Up /\ UNCHANGED job
       \/ dep' = Down /\ job' = [job EXCEPT ![j] = [Idle EXCEPT !.op = "scale", !.at = "look"]]
    /\ UNCHANGED <<row, kept, now, ledger, leaked, disturbed>>

FindLinked(j) ==
    /\ At(j, "scale", "look")
    /\ job' = [job EXCEPT ![j].at = "commit", ![j].seen = row, ![j].when = now]
    /\ UNCHANGED <<row, kept, dep, now, ledger, leaked, disturbed>>

CommitScale(j) ==
    /\ At(j, "scale", "commit")
    /\ SettleAndSave(j, "stopped")
    /\ Finish(j)

\* DELETE /admin/deployments/...: settle, the resources, commit.
AdminDelete(j) == dep # "none" /\ Begin(j, "adminDelete", "deleteDep", now)

DeleteDep(j) ==
    /\ At(j, "adminDelete", "deleteDep")
    /\ \/ /\ dep # "none" /\ dep' = "none" /\ kept' \in SUBSET kept
          /\ leaked' = (leaked \/ kept' # {})
          /\ Goto(j, "commit")
       \/ dep' \in {dep, "none"} /\ Finish(j) /\ UNCHANGED <<kept, leaked>>
    /\ UNCHANGED <<row, now, ledger, disturbed>>

CommitAdminDelete(j) ==
    /\ At(j, "adminDelete", "commit")
    /\ SettleAndSave(j, "released")
    /\ Finish(j)

-----------------------------------------------------------------------------
(***************************************************************************)
(* The worker's openclaw_instance_sync.                                    *)
(***************************************************************************)
\* Variant of Watched: a released instance is synchronised too.
WatchedReleased == {"creating", "running", "stopped", "error", "released"}

Watched == {"creating", "running", "stopped", "error"}

Sync(j) == row.status \in Watched /\ Begin(j, "sync", "look", NULL)

\* The status for the Deployment d.  The number of replicas wanted is read as
\* "replicas or 1", which is never 0: a Deployment scaled to 0 is being created,
\* or runs as long as its Pod is ready.
Derived(d) == CASE d = "failed"              -> "error"
                [] d \in {"ready", "draining"} -> "running"
                [] d \in {"zero", "pending"}   -> "creating"

\* Without a Deployment; a creation has some time for it.
Missing(status) ==
    CASE status = "creating" /\ now > CreatingTimeout -> "error"
      [] status \in {"running", "stopped"}            -> "error"
      [] OTHER                                        -> NULL

\* A row without deployment_name is skipped; get_deployment answers None for a
\* Deployment that is not there, and for an error.
Look(j) ==
    LET seen == job[j].seen IN
    /\ At(j, "sync", "look") /\ seen.named
    /\ \/ job' = [job EXCEPT ![j].at = "commit", ![j].to = Missing(seen.status), ![j].when = NULL]
       \/ /\ dep # "none"
          /\ job' = [job EXCEPT ![j].at = "commit", ![j].to = Derived(dep), ![j].when = now]
    /\ UNCHANGED <<row, kept, dep, now, ledger, leaked, disturbed>>

Skip(j) ==
    /\ At(j, "sync", "look") /\ ~job[j].seen.named
    /\ Finish(j)
    /\ UNCHANGED <<row, kept, dep, now, ledger, leaked, disturbed>>

\* The meter of the hourly row r, seen by a synchronisation at t that makes it to.
Metered(r, to, t) ==
    CASE to = "running" /\ r.status # "running" -> t
      [] to = "running" /\ r.status = "running" /\ r.lastBilled = NULL ->
            IF r.startedAt # NULL THEN r.startedAt ELSE t
      [] to \in {"creating", "error"} /\ r.status = "running" -> NULL
      [] OTHER -> r.lastBilled

\* The row after the synchronisation; an instance whose Deployment is missing
\* keeps its meter.
Aligned(j) ==
    LET seen == job[j].seen  to == job[j].to  t == job[j].when
        meter == IF seen.prepaid \/ t = NULL THEN seen.lastBilled
                 ELSE Metered(seen, to, t)
    IN [row EXCEPT !.status = IF to # seen.status THEN to ELSE @,
                   !.startedAt = IF to = "running" /\ seen.status # "running" /\ seen.startedAt = NULL
                                 THEN t ELSE @,
                   !.lastBilled = IF meter # seen.lastBilled THEN meter ELSE @]

\* It runs since the synchronisation found its Pod ready.
Found(j) == IF job[j].to = "running" /\ job[j].seen.status # "running" /\ ~row.prepaid
            THEN job[j].when .. (now - 1) ELSE {}

CommitSync(j) ==
    /\ At(j, "sync", "commit")
    /\ IF job[j].to = NULL THEN UNCHANGED <<row, ledger, disturbed>>
       ELSE row' = Aligned(j) /\ Account(j, Found(j), {}, 0)
    /\ Finish(j)
    /\ UNCHANGED <<kept, dep, now, leaked>>

-----------------------------------------------------------------------------
(***************************************************************************)
(* process_all_billing_task, and process_instance_billing_task.            *)
(***************************************************************************)
Bill(j) == row.status \in {"running", "stopped", "expired"} /\ Begin(j, "bill", "readBill", NULL)

MeterStart(r, t) == IF r.lastBilled # NULL THEN r.lastBilled
                    ELSE IF r.startedAt # NULL THEN r.startedAt ELSE t

\* Skipped: not running, or paid for, or less than a minute to charge.
NothingToBill ==
    IF row.prepaid THEN \/ row.status \in {"released", "releasing"}
                        \/ row.expiredAt # NULL /\ now < row.expiredAt
    ELSE row.status # "running" \/ row.lastBilled = now

NextExpiry(r, t) == (IF r.expiredAt # NULL THEN r.expiredAt ELSE t) + Period

\* The balance suffices or not: prepaid, renewal or expiry; hourly, a charge,
\* and a stop when the debt is too high.
ReadBill(j) ==
    /\ At(j, "bill", "readBill")
    /\ IF NothingToBill THEN Finish(j)
       ELSE \E step \in {"commitBill", "forceStop"}, to \in {NULL, "expired"} :
              /\ step = "forceStop" => ~row.prepaid /\ MeterStart(row, now) < now
              /\ to = "expired" => row.prepaid
              /\ row.prepaid /\ to = NULL => NextExpiry(row, now) <= MaxExpiry
              /\ job' = [job EXCEPT ![j].at = step, ![j].seen = row, ![j].when = now, ![j].to = to]
    /\ UNCHANGED <<row, kept, dep, now, ledger, leaked, disturbed>>

\* stop_instance's False is not noticed; an exception leaves the status.
ForceStop(j) ==
    /\ At(j, "bill", "forceStop")
    /\ dep' \in {dep, Down}
    /\ Decide(j, "commitBill", "stopped") \/ Goto(j, "commitBill")
    /\ UNCHANGED <<row, kept, now, ledger, leaked, disturbed>>

CommitHourly(j) ==
    /\ At(j, "bill", "commitBill") /\ ~job[j].seen.prepaid
    /\ Save(j, IF job[j].to = "stopped" THEN [row EXCEPT !.status = "stopped", !.lastBilled = NULL]
               ELSE [row EXCEPT !.lastBilled = job[j].when],
            MeterStart(job[j].seen, job[j].when) .. (job[j].when - 1))
    /\ Finish(j)

\* The renewal of an expired instance leaves it expired.
CommitPrepaid(j) ==
    /\ At(j, "bill", "commitBill") /\ job[j].seen.prepaid
    /\ IF job[j].to = "expired"
       THEN row' = [row EXCEPT !.status = "expired"] /\ Account(j, {}, {}, 0)
       ELSE /\ row' = [row EXCEPT !.expiredAt = NextExpiry(job[j].seen, job[j].when)]
            /\ Account(j, {}, {}, 1)
    /\ Finish(j)
    /\ UNCHANGED <<kept, dep, now, leaked>>

-----------------------------------------------------------------------------
\* A job is lost: its process ends, its request is cancelled, it times out.
Lose(j) ==
    /\ job[j].at # "idle"
    /\ Finish(j)
    /\ Leave(kept, job[j].at \in {"commitCreate", "buildError", "cleanup"})
    /\ UNCHANGED <<row, dep, now, ledger, disturbed>>

Kubernetes(from, to) ==
    /\ dep = from /\ dep' = to
    /\ UNCHANGED <<row, kept, job, now, ledger, leaked, disturbed>>

Roll ==
    \/ Kubernetes("pending", "ready") \/ Kubernetes("pending", "failed")
    \/ Kubernetes("failed", "ready") \/ Kubernetes("draining", "zero")

\* The Pod fails, or is replaced (strategy Recreate): PATCH /spec, a new Secret
\* or ConfigMap, the administrator's restart.
Replaced == \E d \in {"ready", "failed"} : Kubernetes(d, "pending")

Tick ==
    /\ row.status # NULL /\ now < Horizon
    /\ now' = now + 1
    /\ due' = IF ~row.prepaid /\ row.status = "running" /\ ~disturbed THEN due \cup {now} ELSE due
    /\ UNCHANGED <<row, kept, dep, job, overcharged, paid, leaked, disturbed>>

Arrive(j) ==
    \/ Create(j) \/ Stop(j) \/ Restart(j) \/ Delete(j) \/ AdminRelease(j)
    \/ AdminScale(j) \/ AdminDelete(j) \/ Sync(j) \/ Bill(j)

Proceed(j) ==
    \/ Build(j) \/ CommitCreate(j) \/ ScaleDown(j) \/ ScaleUp(j) \/ CommitStop(j) \/ CommitRestart(j)
    \/ CommitDelete(j) \/ Remove(j) \/ FinishDelete(j) \/ FindLinked(j) \/ CommitScale(j)
    \/ DeleteDep(j) \/ CommitAdminDelete(j) \/ Look(j) \/ Skip(j) \/ CommitSync(j)
    \/ ReadBill(j) \/ ForceStop(j) \/ CommitHourly(j) \/ CommitPrepaid(j)

Next ==
    \/ \E j \in Jobs : Arrive(j) \/ Proceed(j) \/ Lose(j)
    \/ Roll \/ Replaced \/ Tick

Spec == Init /\ [][Next]_vars

-----------------------------------------------------------------------------
TypeOK ==
    /\ row \in Row
    /\ kept \subseteq Parts /\ dep \in Deployments
    /\ job \in [Jobs -> Job]
    /\ now \in Minute /\ due \subseteq Minute
    /\ paid \in Nat
    /\ overcharged \in BOOLEAN /\ leaked \in BOOLEAN /\ disturbed \in BOOLEAN

\* An hourly instance is billed for minutes in which its row said that it runs,
\* and for none of them twice, by the billing and the settlements of stop,
\* delete, force and the administrator together, while the synchronisation
\* starts and clears the meter; unless a job wrote over a change it had not seen.
BilledAsItRan == ~disturbed => ~overcharged

\* A prepaid instance that came into being has its first period, charged once
\* and in the same commit, and every later charge extends it by a period.
PeriodsPaidFor ==
    ~disturbed /\ row.prepaid /\ row.named => row.expiredAt = paid * Period

\* Whatever overtakes a deletion, its resources do not come back: once the row
\* is released and the deletions are done, nothing is left in Kubernetes,
\* unless one of its deletions failed or was lost.
ReleasedIsClean ==
    /\ row.status = "released" /\ ~leaked
    /\ \A j \in Jobs : job[j].op \notin {"force", "delete", "adminDelete"}
    => kept = {} /\ dep = "none"

ComesBackFor(j) == \/ job[j].seen.status \notin {NULL, "released", "releasing"}
                   \/ At(j, "scale", "commit")

KeepsReleased == row.status = "released" /\ row'.status \notin {"released", "releasing"}
                   => \E j \in Jobs : ComesBackFor(j)

\* A released instance comes back only by a job that had read it before its
\* deletion, or by the administrator's scaling of its Deployment to 0, where
\* the deletion in Kubernetes failed or is not yet done.
ReleasedStays == [][KeepsReleased]_vars

\* openclaw_instance_sync says of the Pods that are not all ready that it keeps
\* the creating state: an instance that was stopped does not become creating.
StoppedStays == [][row.status = "stopped" => row'.status # "creating"]_vars

=============================================================================
