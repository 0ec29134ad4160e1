# Formal verification of the LMAI Cloud backend

This directory holds TLA+ models of the backend under `src/app`, the TLC
configurations that check them on small instances, and proofs that TLAPS checks
for every value of the constants. `PROJECT.json` maps every definition to the
lines it was translated from and lists runs, hazards, findings and theorems.

    tlc -workers 2 -config GpuInstance_billing.cfg MCGpuBilling.tla
    tlapm GpuInstance_proofs.tla

`*_proofs.tla` are the proofs of the module they are named after (`Portal_proofs` and
`Services_proofs` of the modules that `MCPortal` and `MCAppServices` hold, `OpenClawSettings_proofs` of
`OpenClawSettings` in `MCOpenClaw`), and `SumTheorems` has
the lemmas on sums that two of them need; the other modules are extended or instantiated by an
`MC` module.

## 1. The system

The backend rents GPU containers and OpenClaw assistants that run on
Kubernetes. Its processes are

* **uvicorn / FastAPI** (`app/main.py`, `app/api/v1`): one coroutine per request,
  one SQLAlchemy `AsyncSession` per request (`get_db`), background tasks after the
  answer with sessions of their own, WebSockets, a thread pool for calls that block;
* **the ARQ worker** (`app/tasks.py`), a child process started under a Redis lock:
  status synchronisation every 30 s, billing every 15 min, OpenClaw's monitors, the
  installation of skills;
* **PostgreSQL** at READ COMMITTED, **Redis** (queue, locks, captchas,
  publish/subscribe), the **Kubernetes API**, the payment and storage providers, the
  gateway in an OpenClaw Pod.

Three facts about the sessions shape all models: `get_current_user` loads the
caller's row into the request's identity map before the handler runs; an ORM write
stores the *absolute* value computed from the row as it was first read, and only
for columns whose value changed; a flush takes the row lock until commit, a plain
SELECT takes none. No handler uses `SELECT ... FOR UPDATE`.

### Inventory

| component | state | operations | what is hard | correct means |
|---|---|---|---|---|
| recharges, payments, balance (`billing.py`, `admin_orders.py`, `admin_users.py`) | `ai_users.balance/points`, `recharges.status`, `orders.status` | create, WeChat/Alipay callback, mock payment, confirm, cancel, refund, adjust | repeated and concurrent callbacks, unlocked reads, lock order | paid out once; no amount lost; status and money together; every request ends |
| points (`points.py`) | points, `last_checkin_date` | check-in, `add_points` | writes the same row as payments | no points lost |
| GPU instance (`instances.py`) | `instances` row; a Deployment | create, start, stop, force, delete, renew, list; background pollers | pollers and requests interleave; lost background tasks; Kubernetes answers lost | creations, starts and deletions end |
| synchronisation and billing (`tasks.py`, `settle_instance_billing`) | `last_billed_at`, `expired_at`, `billing_records`, `orders` | sync, hourly billing, renewal, expiry, forced stop, settlement | the same time charged by several writers; stale reads | billed for running time, once; a paid period is granted |
| admin deployments | the same | scale, delete | changes a Deployment behind the instance's handlers | settles and aligns the row |
| Kubernetes client, Pod manager | breaker counters | list, scale, delete, wait; retry | error answers turned into values | — (the breaker never opens, section 11) |
| OpenClaw instance (`openclaw.py`, `openclaw_manager.py`, `admin_openclaw.py`) | `openclaw_instances`; Deployment, Secret, ConfigMap, Service, volume | create, stop, restart, delete, force; sync; billing | as GPU instances; a creation holds its row back until Kubernetes is done | as GPU instances; a released one leaves nothing and does not return |
| OpenClaw settings (`openclaw.py`, `openclaw_skill_manage`) | model keys, channels, skills; their copies in Secret and ConfigMap; tasks | add, change, remove; install, uninstall, upgrade | two copies of one table replaced as a whole; rows and tasks in transition | copies say what the tables say; no skill stays in transition |
| monitors of keys and channels (`tasks.py`) | `check_status`, `online_status` | ask the gateway, write | rows change while it waits | comes to say what is the case |
| storage (`storage.py`, `storage_provider.py`) | `user_files`, `storage_used`, objects | upload, mkdir, delete | compensations; shared objects; locks held over slow calls | counter = sum of sizes; quota; a tree; objects kept |
| status messages (`ws_manager.py`, `main.py`, `websocket.py`) | connection sets; Redis channel | connect, subscribe, publish, broadcast | sets change during an iteration; lost and crossing messages; statuses that nobody announces | shows the committed status; registered = open |
| terminals (`websocket.py`, `admin_pods.py`) | handler, reader task, exec stream, dictionaries | open, read, write, resize, end | reader blocked in a thread; pool full; timeouts | both sides end together; nothing is left |
| log page (`websocket_logs`) | Pod name, last text | find, follow | Pods come and go | catches up |
| worker bootstrap (`main.py`, `startup`) | Redis lock, marks of jobs | start, stop, release, die | lock is not renewed, released twice by whoever stops; marks are cleared, whosever they are | one worker; one runner of a job |
| accounts (`auth.py`, `admin_users.py`) | `ai_users` row: link, password, verified | register, log in with a code, create, activate, resend, forgot, reset, change, delete | one column for two kinds of links; overlapping requests | one reward; one use of a link |
| captchas, codes, rate of logins (`auth.py`) | Redis or memory | draw, send, compare, count | check and act in two calls | one use; limited logins |
| tickets (`tickets.py`, `admin_tickets.py`) | `tickets` row | open, reply, resolve, close, delete | administrators overlap | the handler shown is who replied |
| catalogues, notifications, audit, cluster pages, reports, settings | rows written by one administrator | CRUD | nothing concurrent | — |

`PROJECT.json` "components" gives the status of each, "hazards" the lines where
the hard behaviour bites and the property that watches it, or why none does.

## 2. Modules, and what is to come

| module | checked in | proofs |
|---|---|---|
| `RechargeLedger` | `MCRechargeLedger`, which `MCAppServices` extends | `RechargeLedger_proofs` |
| `GpuInstance` | `MCGpuBilling`, `MCGpuEnds` | `GpuInstance_proofs` |
| `OpenClaw`, `OpenClawSettings`, both with the constants of `OpenClawConstants` | `MCOpenClaw` | `OpenClaw_proofs`, `OpenClawSettings_proofs` |
| `UserStorage`, which implements `FileSpace` | `MCUserStorage` | `UserStorage_proofs`, `SumTheorems` |
| `WorkerBoot`, `Terminals`, `LogStream`, `GatewayMonitor` | `MCAppServices` | `Services_proofs` |
| `StatusPush`, `Accounts`, `Verification`, `Tickets` | `MCPortal` | `Portal_proofs`, `SumTheorems` |

`MCAppServices` and `MCPortal` hold components that share no state. A behaviour is
one of the component that `running` names while the others stay in their initial
states: the state space is the sum of theirs, not the product. This loses nothing
that the code has, since no step of one component reads what another writes. For
the fairness of the components that are not running see section 7.
`MCOpenClaw` chooses in the same way between the life and the settings of one instance
(`part`), which share its status only, of which the settings take any change (`Switch`);
`MCGpuBilling` and `MCGpuEnds` between a metered and a prepaid instance, or between two
sets of operations on one.
`MCAppServices` extends `MCRechargeLedger`, and `MCPortal` extends `Verification`; the
other components are instantiated.

Not done, in the order of their worth: an abstract bank account which `RechargeLedger` implements
for uncontended users; the balance shared by `RechargeLedger` and the billing of instances; a ghost
of the Pods' own running time, which the uncovered hazards of the forced stop and of the
administrator's scaling need; a log page whose Pod is replaced.

Every module defines its type invariant. The runs check those of `RechargeLedger`
and `GpuInstance`; that of every module but the abstract `FileSpace` is proved.

## 3. `RechargeLedger`: money and points

A *session* serves one request, step by step; every step is one database statement
(or the wait for the payment provider), and sessions interleave between steps.

| code | model |
|---|---|
| `ai_users` row: balance, points, "checked in today" | `account[u]` |
| `recharges.status`, `orders.status` | `voucher[v]`, lower case; `absent` before the INSERT |
| sum of `point_records` | `pointLog[u]` |
| identity map of the session | `cache[s][u]`: the row as *first* read, never refreshed |
| row locks | `userLock`, `voucherLock`: taken by the flush, released by `Commit` / `Rollback` |
| POST /recharge, /pay | `CreateRecharge`, `OrderPlaced`, `OrderRejected` |
| `wechat_callback`, `alipay_callback` | `Callback`, `Decline`, `ClaimVoucher` (autoflush before the SELECT of the user), `LoadUser`, `Commit` |
| `mock_payment_success` | `MockPayment`, `FindOpen`; user flushed before the recharge |
| admin confirm, cancel, refund, adjust | `ConfirmRecharge`, `CancelRecharge`, `RefundOrder`, `AdjustBalance` |
| `daily_checkin`, `add_points` | `DailyCheckin`, `WriteUser` |
| `get_db` commits or rolls back | `Commit`, `Rollback` |
| PostgreSQL's lock waits and deadlock detection | `WaitsFor`, `DeadlockVictim` (external) |

The ghosts are `credits` (committed payments per voucher), `ledger` (what the
balance should be), and the two that name a race: `overlapped` holds a voucher once
two requests have found it open at the same time, `contended` a user whose row two
requests have read to write it back. The code protects neither, so what is
guaranteed is stated for vouchers and users outside those sets; the violated
`PaidOutOnce` says what happens inside.

Abstractions: amounts are integers of cents, points are whole yuan as the code
computes them; a callback with a wrong signature or amount takes the branch that
writes nothing (`Decline`, or no request at all); requests rejected before they touch
state are left out; the provider's answer is a choice. Alipay's handler returns
`fail` on an exception and lets `get_db` commit: PostgreSQL has aborted the
transaction by then, so that this commit is a rollback. A wait-for cycle has
always two members: mock payments lock the user first, callbacks the recharge
first, and nobody locks more than one of each.

### Runs

| run | instance | shows |
|---|---|---|
| `services`, `running = "ledger"` | 2 sessions, a recharge with and one without order id, 1 order, 2 users, every kind of request, `Fairness` | `TypeOK`, `SettledOnce`, `StatusMatchesMoney`, `NothingLost`, `CallbacksSerialised`, `StatusIsFinal`, `RequestsEnd` |
| `ledger_repeated_callback` | 2 callbacks, 1 recharge | violated: `PaidOutOnce` |

A session serves one request. Two make every race of the model: a race is between a
reader and a writer, a deadlock between two sessions. A third request, which would
come after two that raced, is covered by the theorems, not by a run. One order and two
recharges with one owner make a user be written for different vouchers; the second
user, an administrator, is somebody else's balance. The amounts are of cents that make
one yuan and a rest, so that each gives one point.

Fairness is `WF` of `Serve(s)` per session: PostgreSQL queues lock waiters and ends
deadlocks, and the call of the provider has a timeout. `Rollback` (a crash, a cancelled
request) is never forced.

### What is proved

`RechargeLedger_proofs` proves for *every* set of users, vouchers and sessions, any
amounts and any adjustments, from `ConstantsAssumption` alone:
`Invariant`, `TypeCorrect`, `PaysOutOnce`, `StatusAndMoneyAgree`, `BalancesAddUp`,
`CallbacksWait`, `OutcomesStay`.

None of the properties is inductive by itself. `SettledOnce` needs to know that an
un-overlapped voucher has *one* handler, which still finds it open (`OneHandler`);
`NothingLost` needs that the copy a session will write back is current and the only
one (`CopyIsCurrent`); both need that requests carry the voucher and user of their
kind (`WellFormed`), and `CallbacksSerialised` rests on locks that follow from the
step a request is at (`VoucherLocked`, `UserRead`). `IInv` is their conjunction.
The step lemmas go over the actions: `VoucherSteps` says once what a step can do to
vouchers and payments (nothing, create, commit), the arrivals are treated
together by `ArriveIsArrival`, and each conjunct has one lemma. `RequestsEnd` is
liveness and stays with TLC.

## 4. `GpuInstance`: one instance, its Deployment and its billing

One row, one Deployment, and jobs: requests with their background tasks
(`Requests`) and jobs of the worker (`Workers`). Every job reads the row, may call
Kubernetes, and writes; other jobs run at each `await` in between.

| code | model |
|---|---|
| `instances` row: `status`, `last_billed_at`, `started_at`, `expired_at` | `row` |
| the Deployment as `_parse_deployment` returns it | `dep`: none, zero, fresh, pending, failed, ready |
| a handler, background task or cron job | `job[j]`: its kind, step, the row it read, a time and a status it will write |
| `create_instance`, `create_k8s_resources` | `Create`, `FirstCharge`, `Build`, `PodReady`, `PodNotReady`; `Reread`, then `BuildError` or `MarkUp` |
| `start_instance`, `wait_for_running` | `Start`, `ScaleUp`, `MarkStarting`, `PodReady`; `Reread`, `MarkUp` |
| `stop_instance` | `Stop`, `ScaleDown`, `CommitStop` |
| `_do_force_delete` | `ForceDelete`, `CommitForce`, `Remove` |
| `release_instance`, `do_release` | `Release`, `CommitRelease`, `Remove`; `Reread`, `FinishRelease` |
| `renew_instance` | `Renew`, `CommitRenew` |
| `list_instances` | `ListInstances`, `LookRight`, `CommitList` |
| admin scale, delete | `AdminScale`, `FindLinked`, `CommitScale`, `AdminDelete`, `DeleteDep`, `CommitDelete` |
| `sync_instance_status_task` | `SyncStatus`, `LookRight`, `LookWrong`, `CommitSync`, `Remedy`, `CommitRemedy` |
| billing job | `SelectBill`, `ReadHourly`, `ForceStop`, `CommitHourly`, `ReadPrepaid`, `CommitPrepaid` |
| `settle_instance_billing` | `Settles`, `Settlement`, `Settled`, inside the commits that call it |
| `_derive_instance_status` | `Derived` |
| a crash, a cancelled request, ARQ's timeout | `Lose` |
| Kubernetes' controllers | `Roll`, `Unready` (external) |

`due` is the ghost of the bill: the minutes that passed while the committed status was RUNNING and
that no record has charged. `Save` removes the minutes a record charges; charging one that is not
there sets `overcharged`. `disturbed` is set when a job writes a row that has changed since it read
it, when a poller or a background task finds or leaves a status that another job has given the row
meanwhile, and when GET /instances moves a status into or out of RUNNING and leaves the meter: from
there on the code guarantees nothing about the bill, and the runs whose properties are guarded by
`~disturbed` stop at such states (`CONSTRAINT Undisturbed`, sound because `disturbed` never becomes
false again). `gpu_stopped_time` states the same without the guard.

Details that are easy to get wrong and are in the model: a session writes only the
columns that differ from what it read; the pollers and `create_k8s_resources` read the
row again in a session of their own (`Reread`) and write it *whatever its status*, but write
no status that they have read already (`Marked`), whatever it has become since; one ready
Pod of several is enough for `wait_for_pod_ready`; `list_deployments` answers an API error
with an empty list, which the synchronisation takes for "vanished" (`LookWrong`); a
False of `scale_deployment` is ignored by some callers and not by others; a request
can be refused although Kubernetes has done it.

Left open or out: whether a balance suffices is a choice (the balance is
RechargeLedger's); the second early return of the synchronisation (no row watched) is
over-approximated, since other instances are watched; STOPPING is never written by
the code, only read; a new Deployment of one instance is the only one with its name.

### Runs

| run | instance | shows |
|---|---|---|
| `gpu_billing`, `bill = "user"`, `"admin"` | metered; every kind of request of the user, or creations and starts with the administrator's scaling and deletion; 1 request at a time, 1 worker, any job may be lost; 2 minutes | `TypeOK`, `BilledAsItRan` |
| `gpu_billing`, `bill = "prepaid"` | 2 requests at once, 1 worker: create, stop, renew, billing; periods of 2 in 3 minutes | `PeriodsPaidFor`, `ExpiresWhenDue` |
| `gpu_ends` | prepaid: create, start, stop, delete, sync, any but the deletion may be lost; or metered: create, list, sync, any may be lost | `TransitionsEnd`, `ReleasingEnds`, `MeterIsStarted` |
| `gpu_stopped_time` | metered: create, admin scale, list, delete | violated: `BilledForRunningOnly` |

Bounds. Two minutes let an instance run for one, be billed or settled for it, and run
for another that a second job bills; the timeouts of a creation are 0 and 1 minute, so
that the list's and the synchronisation's differ and both happen. Three minutes with a
period of two hold a first period, a renewal and an expiry, in time or late; `expired_at` is bounded by
`MaxExpiry` = 5, where a renewal at the third minute ends, and a renewal past it is not
taken. Two metered requests at once are not
in a run: `BillsAreTrue` is proved for any number of them. Where the bill has
become meaningless (`disturbed`) the state is not continued. In `gpu_ends` the
clock stops at `Horizon`, after the last timeout: nothing the properties need happens
later.

Fairness (`Fairness`, which `EndsSpec` applies to either instance). `WF` of
`Proceed(j)`: a coroutine that can go on does, unless it is lost. `SF` of
`SyncStatus`, `LookRight`, `CommitSync`, `Remedy` and `CommitRemedy`: the cron starts
the job every 30 s for ever, and the assumption is that not every one of them is lost,
gets an error from Kubernetes or fails to commit. `WF` of `Roll` and `Tick`:
controllers and clocks run. `TransitionsEnd` also assumes `Steady`, Pods that fail
only finitely often: an instance whose Pods come up and fail for ever, each time
between two synchronisations, may show STARTING for ever, which is no error of the
code. `ReleasingEnds` is checked with deletions whose background task is not lost:
nothing else in the code looks at RELEASING rows, and with a loss it fails.

### What is proved

`GpuInstance_proofs` proves for *every* number of requests and worker jobs, every
choice of operations that run and may be lost, every period, timeout and clock, from
`ConstantsAssumption` alone: `Invariant`, `TypeCorrect`, `BillsAreTrue`
(`BilledAsItRan`), `PeriodsAreGranted` (`PeriodsPaidFor`) and `ExpiryIsDue`
(`ExpiresWhenDue`).

`BilledAsItRan` is not inductive: that a charge from the meter is due rests on
`MeterIsRight`, the sentence the billing relies on without stating it. While no job
has written over a change it had not seen, a RUNNING instance has a meter, every
minute from it to now is due, and an instance in another status has none — except a
RELEASED one, whose creation's poller may have run into the deletion and whose meter
no settlement bills. That in turn needs what each job knows (`JobsInformed`): a
settlement's and a billing's time is not in the future and not before the meter they
read, a start saw a stopped instance, a status that the synchronisation will write
is one that a Deployment can have. The repair at the end of the synchronisation
(`Remedy`) is then reached only after a disturbance, so `commitRemedy => disturbed`
is part of it: in an undisturbed history no running instance lacks its meter. `PeriodsPaidFor`
needs `NothingBefore`, nothing is paid for a row that is not there; `ExpiryIsDue` that
the billing job which decided on an expiry found the period over when it read the row.

The proof goes over the actions: the step lemmas of the types, of what a job knows
(others' jobs stay, `OthersStay`), of the bill (`SettleStep` for the five commits that
settle, `ProceedBill` for the others) and of the periods (`OrderExtends`). The liveness
properties of this module's runs stay with TLC.


## 5. `OpenClaw`: the life of an OpenClaw instance

Built as `GpuInstance`, from other code. What differs: the resources besides the
Deployment matter (`kept`: configuration and volume); whether the instance is metered is a
column of the row and not a constant; a creation makes everything in Kubernetes
before the row is committed (`Build`, `CommitCreate`); a deletion is one request, whose
`release_instance` ignores failures (`Removal`); the synchronisation reads
`replicas or 1` (`Derived`); `POST /start` always raises and has no action.

| code | model |
|---|---|
| `create_openclaw_instance`, `OpenClawManager.create_instance` | `Create`, `Build`, `CommitCreate` |
| stop, restart | `Stop`, `Restart`, `ScaleDown`, `ScaleUp`, `CommitStop`, `CommitRestart` |
| delete, force delete, the administrator's delete | `Delete`, `AdminRelease`, `CommitDelete`, `Remove`, `FinishDelete` |
| admin scale and delete of the Deployment | `AdminScale`, `FindLinked`, `CommitScale`, `AdminDelete`, `DeleteDep`, `CommitAdminDelete` |
| `openclaw_instance_sync` | `Sync`, `Look`, `Skip`, `CommitSync` |
| billing | `Bill`, `ReadBill`, `ForceStop`, `CommitHourly`, `CommitPrepaid` |
| crash, timeout; Kubernetes | `Lose`; `Roll`, `Replaced` (external) |

The run `openclaw` (`part = "life"`) has one request and one job of the worker at a time over two
minutes with a period of one: a first period, a renewal, an expiry, and a metered instance that is
billed, stopped, and runs again. `BilledAsItRan` and `PeriodsPaidFor` are those of `GpuInstance`,
here against a synchronisation that clears and starts the meter itself. `ReleasedIsClean` excuses a
creation or deletion that failed or was lost in Kubernetes (`leaked`), which the code ignores.
`ReleasedStays` names the two ways a released row comes back: a job that had read it before, and a
scaling of a Deployment that is still there. The states that follow an outdated write, or a failure
that left something in Kubernetes, are explored only for an instance that is or was deleted, and not
where both have happened (`Explored`): after the first the bill no longer says anything, after the
second `ReleasedIsClean` does not, and `ReleasedStays` is about deletions. `openclaw_stopped` is a
finding.

### What is proved

`OpenClaw_proofs` proves for *every* number of requests and worker jobs, every period,
timeout and clock, from `LifeAssumption`: `Invariant`, `TypeCorrect`, `BillsAreTrue` (`BilledAsItRan`),
`PeriodsArePaid` (`PeriodsPaidFor`), `ReleasedLeavesNothing` (`ReleasedIsClean`) and
`ReleasedStaysReleased` (`ReleasedStays`). The assumptions are those of `GpuInstance`: a
request is no job of the worker, times are numbers, NULL is neither a number, a status
nor an operation.

The bill follows as for `GpuInstance` from a meter that stands at the first minute not
charged (`MeterIsRight`) and from what each job has read (`JobsInformed`); here the
synchronisation writes the meter, too, and a job can find the instance prepaid or
metered. `OneCreation` is what `create_openclaw_instance` gives by inserting the row first
and committing it last: until then nobody else has anything to work on. `ReleasedIsClean`
is not inductive, as it says nothing while a deletion runs. `DeletionIsClean` says what
one has achieved at each step: after the resources were removed, none is there or
`leaked` is set; of a released row none is there, or a forced deletion has its clean-up
before it. What could bring resources back, a scaling, finds no Deployment to scale.
`ReleasedStays` goes over the actions that write a status.

## 6. `OpenClawSettings` and `UserStorage`

**`OpenClawSettings`**: the rows of model keys and channels (`items`) and their copies (`secret`,
`config`); skills, whose task is queued after the commit (`queue`) and found again by name. A
request flushes its change, reads the table (`Viewed`), replaces the copy as a whole (`Push`) and
commits; a worker installs or removes a skill by the gateway or by the ConfigMap (`Find`,
`AskGateway`, `ReadConfig`, `PushConfig`, `Confirm`, `Erase`). Two changes that overlap can leave a
copy that nobody's table had: `skewed` marks the copies whose last change overlapped another or
failed, and a later change that is alone makes them right again. That ARQ takes a task out of the
queue (`Take`) is external: the repository only queues it and names the function that runs it.
`CopiesMatch` says so; `TaskUnderway` that a skill in transition has a task, unless that was
`dropped`; `RemovedSkillIsGone` that a removed skill is in no ConfigMap. Two keys of one provider,
one channel, two rows for one skill, one place in the queue (`openclaw`, `part = "settings"`);
Secret and ConfigMap have nothing in common and are used one after the other (`OneCopy`): two
requests at once change keys, and one request, beside the worker, channels and skills
(`OneForConfig`), since what overlaps a replacement of the ConfigMap is the worker's, as it is
another request's for the Secret. States are not continued once the ConfigMap is `skewed` and the
task `dropped` (`OneTrouble`): little is said of either then.

`OpenClawSettings_proofs` proves without these bounds, for every table, queue and number of requests
and workers: `Invariant`, `TypeCorrect`, and, of the settings alone and of `MCOpenClaw`, where they run
beside the life of the instance (`PartsAsAlone`), `CopiesAreRight` (`CopiesMatch`),
`TasksAreUnderway` (`TaskUnderway`) and `RemovedSkillsAreGone` (`RemovedSkillIsGone`). Assumed
(`SettingsAssumption`, `ClientsAssumption`) is that keys are no channels, requests no workers, the
skills finitely many, and names, copies and NULL different from each other. The invariant adds

* `CleanAlone`: the job of a change that nothing overlapped is the only one at its copy, its view
  is what its own commit makes true, and once it has replaced the copy, the copy is that;
* `TasksOwned`: a skill in transition owns a task, which no job works on for another skill
  of the same name;
* `GoneUnread`, `UninstallsOne`, `TasksCross`: of a name that has no row, or is about to lose
  its only one, no undisturbed job has read anything. This is what keeps a change of
  a channel from bringing a removed skill back.

**`UserStorage`**: rows, counter, objects, and the lock that a reservation takes on the
user's row until commit.

| code | model |
|---|---|
| `upload_file` | `Upload` (count), `Reserve` (conditional UPDATE), `ResolveParent`, `Store`, `Record`, `RecordFails`, `Refresh`, `Unpin` |
| `mkdir` | `Mkdir`, `InsertDir` |
| `delete_file`, `_collect_subtree_files` | `Delete`, `Below`, `Discard`, `Erase`, `EraseFails`, `Refund` |
| PostgreSQL | `CanLock`, `InsertWaits`, `EraseWaits`; a deadlock's victim fails by `RecordFails` or `Lose` |
| IPFS or another provider | `KeyOf`: an object is named by its content, or by its row |

`FileSpace` is what a user is promised: a set of files and a counter, changed in one step, within
the quota. `ImplementsFileSpace` is the refinement: under the mapping of rows to files, every step
of the many that a request takes is one of `Add`, `Remove` or a stutter, until a request has upset
the accounts (`miscounted`: two deletions of one file, or the deletion of a directory with files).
In the run, two requests at once, four ids of rows, two directories, two contents, quota 2 against
sizes 1 and 2, at most two rows: the quota and the number of rows are both reached by concurrent
uploads, contents are shared by rows, and a directory is deleted under an upload. `CountNearLimit`
states by how much the count may exceed its limit. An upload may fail in every way that its handler
catches: the commit may raise before it took effect (`RecordFails`) or after, its answer lost
(`Record`), and the refresh after the commit for any reason (`Refresh`). Each time the object is
taken back (`Unpin`). When the row was committed, this leaves a file without its object, which is
the finding `storage_objects`; the ghost `disowned` holds these files. `KeptUntilDeleted` says that
nothing *else* takes away a row's object: no compensation of another upload, no deletion of another
file or directory. It excuses the disowned files, and keys that were stored more than once, which
the code does not count. `storage_counter` is a finding, too.

`UserStorage_proofs` proves for every set of users, paths and contents, all sizes, limits and
ids, either provider and any finite number of requests: `Invariant`, `TypeCorrect`,
`CounterIsTheSum` (`UsedIsSum`), `QuotaIsKept` (`QuotaHolds`), `CountStaysNearLimit`
(`CountNearLimit`), `ObjectsAreKept` (`KeptUntilDeleted`), `TreeStaysWhole` (`TreeIsWhole`) and
`ImplementsTheSpace` (`ImplementsFileSpace`). Assumed is that a size is at least one byte,
that ids, contents and NULL are different from each other, and that there is a request.

* `Shapes` and `OwnIds`: what a request holds at each step; an id belongs to one request,
  and is a row only after that. The lock of a user is held exactly from the reservation to
  the commit, so that `used` can be compared with the rows of committed transactions.
* `UsedIsSum` needs sums over sets of rows. `SumFunction` is a fold, and the library's
  induction over finite sets is not available; the lemmas of `SumTheorems` (`SumsExist`, `SumIs`,
  `SumMore` ...) argue with a *smallest part* of a finite set that fails, which
  `SmallestPart` provides.
* `StoresCounted` and `KeptInFlight`: a key that was stored once has one holder, be it a row,
  an upload or a condemned file; so nobody else's compensation removes it. An upload whose row is
  committed and that still has its `Unpin` before it is a holder of its own row's key.
* `RoomLeft`: rows and requests that may still add one stay below `MaxFiles` plus the number of
  requests. A request that counts fewer than `MaxFiles` rows is one of at most that many.

`NextMoves` reduces the actions to the kinds of `Move`, and each conjunct is proved for those that
can disturb it. The refinement (`SpaceStep`) maps the commits of an upload (`Record`) and of a
directory to `Add`, that of a deletion (`Refund`) to `Remove`, and every other step to a stutter,
since neither a reservation nor an object is committed. A deletion that frees bytes subtracts them
only if the counter has as many, and 0 is written otherwise; that it always has them is `UsedIsSum`.

## 7. `MCAppServices`: worker, terminals, log page, monitors, and the ledger of section 3

**`WorkerBoot`**: a process takes the lock and starts a worker in a child (`Boot`, `Start`),
stops it (`Shut`) and deletes the lock, whoever holds it, and once more when it exits, as the
function that stops is also registered with `atexit` (`Release`, twice); or it is killed and its
child lives on (`Kill`). The lock expires (`LockExpires`). A worker loads, which clears every mark
of a job in progress unless Redis fails (`Load`); jobs are queued, taken, marked, ended (`Enqueue`,
`Take`, `End`: ARQ's, external), and a worker may die at any time. `OneWorker` excuses what the lock
does not guard against (`excused`): an expiry or a release while a worker lives or is about to
start, and a Redis that cannot be asked. `OneRunner` does not depend on the lock: however many
workers live, a job has one runner, because its mark stays until it ends or its worker gives it
back; the one thing that breaks this is a worker that starts beside another and clears the marks of
living ones (`cleared`). That a job of a dead worker runs again is no property here: ARQ's own mark
expires, with the repository's clean-up or without. Two processes, three workers one after the
other.

**`Terminals`**: handlers of users, of administrators and of consoles; every call that
blocks is an entry of `pool`, of which the first `PoolSize` run. A run has connections of two
of the three kinds and one thread, so that one terminal's reader blocks the
other's end. `LeavesNothing` excuses consoles that gave up their stream before it came,
or whose client left before it was announced (`abandoned`): their code takes no care
then. `BothSidesEnd` is liveness.

**`LogStream`**: `LogIsShown` excuses a Pod that was replaced: the page keeps the first
name that it has found. **`GatewayMonitor`**: two monitors over the rows of one instance;
`StatusSettles` says of every row that it comes to tell what is the case once nothing
changes any more. One key or one channel, which share no code.

Fairness: a request to the ledger goes on (section 3); the oldest call in the thread pool returns, and a
handler receives the end of its WebSocket; the log page turns, and Kubernetes does not
fail for ever; the monitors are started by cron again and again and are not aborted every
time. No process, worker, client, Pod, gateway or
administrator is fair.

A component that is not running stays in its initial state, in which none of its fair
actions is enabled: no session serves a request; the pool is
empty and no handler talks; no page is open; the instance does not run. Its fairness then
holds trivially, and constrains nothing of the one that runs.

### What is proved

`Services_proofs` proves of each service alone and beside the others, for any number of processes,
workers, connections, threads, Pods and rows: `ServicesInvariant`, `TypesStay` (the four type
invariants), `OneWorkerLives` (`OneWorker`), `OneRunnerRuns` (`OneRunner`) and `NothingIsLeft`
(`LeavesNothing`). Assumed (`ServicesAssumption`) is that a console is no connection of the other
handlers, NULL no process, and that the size of the pool and the bound on a log are numbers.

* `OneWorker` becomes inductive with `LockedAlone`: unless excused, one worker lives *or* one
  process is about to start one, and then the lock is held; this is why no second one is started.
* `OneRunner` needs `RunnersLive` (who runs a job lives) and `MarkedAlone` (unless cleared, a job
  that runs is marked, so that nobody else takes it).
* `LeavesNothing` says something of a handler that has ended; what makes it true happens before, in
  calls that wait for a thread. `OneCall`: a session has at most one call that is *due*, not
  counting its reader's, which says how far the handler has come (`Handled`). While `find` or `open`
  is due there is no stream; once `close` is due the dictionaries have been cleared; nothing is due
  of who talks; after the end only the `open` of a console that gave up. `Kept`: a stream that runs
  is in the dictionary or is about to be closed. The reader is in none of these: that it may do what
  it likes while the handler leaves is what is proved.
* The pool is a sequence, from which a call returns while others wait behind it. `CallAppended`,
  `CallRemoved` and `CallReplaced` say what the three operations on it do to the set of the due
  calls, and the steps are proved with that set alone.

## 8. `MCPortal`: status messages, accounts, logins, tickets

**`StatusPush`**: the worker commits and publishes (`Sync`, `Publish`), the listener and
requests broadcast (`Listen`, `Request`), which iterates over a set with an `await`
after each message (`Start`, `Send`, `EndOfSet`, or `Abort` when the set has changed its
size; of a set that has changed and not its size, the iteration may skip members); connections
come, subscribe and go. Not every change is announced: GET /instances commits the status that it
derives, billing commits EXPIRED and a forced STOPPED, several handlers commit STARTING, RELEASING or
RELEASED, and the administrator's scaling and deletion commit theirs, all without a message
(`Unannounced`); and `do_release` broadcasts "released" also when its commit has failed
(`Uncommitted`). A page then shows another status than the committed one, for good if nothing
changes again, as the next synchronisation finds no difference: the finding `status_not_pushed`.

`ShowsTheStatus` says what is left of the promise, by naming who may show another status. `behind`
holds the connections that an *announced* change may not have reached: a lost message, crossing
changes, a broadcast that broke off or skipped one, a change between the reading of the row and the
registration. `misled` holds those that were open at a change nobody announced, or at an
announcement of what was not committed. An open connection leaves either set only when a broadcast of the
last change comes to it that nothing has crossed, so that the property is also about what repairs a
page. `OpenIsRegistered` is about all connections. The run has one connection
of either kind and one request: a broadcast over both, interrupted by either, while a
message waits behind it; at most two changes are underway (`Calm`).

**`Accounts`**: the row of one address; every request reads it and commits later.
`RewardedOnce` and `ResetOnce` hold while no request wrote on an outdated reading
(`outdated`), in whatever order registrations, links, activations, resets and mails come,
some lost. An account also comes into being by a login with a code (`LoginWithCode`: not active, no
link) or by the administrator (`CreateUser`: active), and goes by his deletion (`DeleteUser`). The
model lets any account be deleted; in the code the deletion fails when orders, audit records or
other rows refer to it. An account made after that is another one, and its rewards are counted
anew. Two requests, two links, two passwords.

**`Verification`**: captchas, the mailed code and the counters of logins, in
Redis or in memory. `LoginsLimited` states by how much the limit can be exceeded in
Redis, where counting and adding are two calls: by one for each other request.
`ComparedOnce`: no captcha or code is compared twice. In a behaviour of the run either the
mailed code is used or captchas and counters are (`OneStore`).

**`Tickets`**: replies, resolutions and closures of administrators and the user.
`HandlerReplied`: who is shown as handler wrote the reply, unless two requests overlapped.

### What is proved

`Portal_proofs` proves of each part alone, and of `MCPortal`, where it runs beside the others
(`PartsAsAlone`: `PortalSpec` implies the specification of each part), for any number of users,
connections, requests, administrators, links, captchas and codes, any limit and any window: `TypesStay`
(the four type invariants), `AnswersComparedOnce` (`ComparedOnce`), `LoginsStayLimited`
(`LoginsLimited`), `HandlerIsReplier` (`HandlerReplied`), `RewardsAreOnce` (`RewardedOnce`),
`ResetsAreOnce` (`ResetOnce`), `OpenStaysRegistered` (`OpenIsRegistered`) and `StatusIsShown`
(`ShowsTheStatus`). Assumed is, besides what `Verification` assumes of its limits, that what a
column holds is not NULL, that users and watchers are finitely many and different, and that the
listener is no request (`PortalAssumption`). There is an inductive invariant for each part:

* `CheckInv`: what is stored has not been compared (`CaptchasFresh`, `CodesFresh`), and a code that
  a request is about to store is its own (`CodesOwned`). For the limit, the counters hold those who
  were let through in the window (`AttemptsTrue`), and `RoomToAdd` counts who was let through *and*
  who is about to be: the requests that have counted and not yet added are the excess that
  `LoginsLimited` allows, and what is stored when the window moves on can only become less. Both are
  sums, for which `SumTheorems` is used again.
* `DeskInv`: what a request is going to write (`DeskIntents`), and that a reply and requests have
  their ticket (`Attached`).
* `AccountInv`: `Prepared` says what a request has in hand of the row that it read; unless one has
  written on an `outdated` reading, `RewardDue` says that the reward is paid, given up, or in the
  hands of exactly one request when the account deserves it, and `LinksUnused` that the link in the
  row, those on their way into it and those used are all different. `RewardedOnce` alone is not
  inductive: while the reward is underway it says nothing.
* `PushInv`: `Connected` says who may be in a registry, in `visited` and in `dead`; `Telling` that a
  broadcast of the last change that nothing crossed is alone, and that those it has come to show
  that change; `Uncertain` that otherwise everything is quiet, one change is on its way (`Settling`:
  it is about to be published, in the channel, or told), or all open connections are astray, that is
  `behind` or `misled` (`Astray`). `ShowsTheStatus` speaks of quiet states only, which is why it
  needs all three.

## 9. What is proved, and what is only model-checked

Proved for every value of the constants: every invariant that a passing run checks, and every
action property; the refinement of `FileSpace` by `UserStorage`, step by step; the type invariants of
every module but the abstract `FileSpace`.

The assumptions are in the `ConstantsAssumption` of `RechargeLedger`, `GpuInstance`, `UserStorage`
and `Verification`, in `LifeAssumption` and `SettingsAssumption` of `OpenClawConstants`,
in `ClientsAssumption` of `MCOpenClaw`, and in `PortalAssumption` and `ServicesAssumption`: NULL is not one of the values that it stands beside,
sets of different things do not meet, sizes and times are numbers. None limits how many users, rows,
requests or minutes there are.

Only model-checked is liveness, which is out of the prover's reach: `RequestsEnd`,
`TransitionsEnd`, `ReleasingEnds`, `MeterIsStarted`, `BothSidesEnd`, `LogIsShown`,
`StatusSettles`.

The bounds of all runs are small because what can go wrong here takes two actors: a
reader and a writer of one row, a request and its background task, a request and a job of
the worker. One row is enough wherever rows are written independently; a second one is there
where rows share something (the balance, the quota, a copy, a name, the thread pool).

Many properties begin with a condition, `~disturbed`, `~outdated`, `\notin overlapped`,
`\notin contended`, `\notin skewed`. It is always the same: the code reads without a lock and
writes absolute values, and promises nothing once two writers overlap. The condition is
as narrow as the model can say it, and every run reaches both of its sides. Other conditions name
something that went wrong for one row or connection and that the code does not mend: `leaked`
(Kubernetes failed, and the error was ignored), `dropped` (a task was lost), `disowned` (an upload
took back the object of a row it had committed), `misled`, `behind` (a page was not told), `excused`
and `cleared` (the lock or a mark was gone while it was needed). What happens inside a condition is
either a finding of section 10 or stands as a note at the hazard in `PROJECT.json`.

## 10. Findings

Each is the counterexample of a run that states what the code's own comments say.

* `ledger_repeated_callback` — two deliveries of one notification both find the
  recharge PENDING and both credit it (`billing.py:356` says idempotent).
* `gpu_stopped_time` — GET /instances writes STOPPED and leaves the meter, the
  next settlement bills the stopped time (`tasks.py:83` says that the time that it ran is billed).
* `storage_counter` — the deletion of a directory deletes the objects of its files and
  subtracts their sizes; their rows move to the root (`storage.py:439` says that the
  database deletes them).
* `storage_objects` — an upload whose refresh fails after its commit, or whose commit is not
  answered, deletes the object of the file that it has written (`storage.py:288` takes every
  exception for a write that failed).
* `status_not_pushed` — a status is committed and no page is told (`websocket.py:778` promises
  every change).
* `openclaw_stopped` — the synchronisation makes a stopped instance "creating"
  (`tasks.py:799` says that it *stays* so).

## 11. What is not modelled

* The circuit breaker of the Kubernetes client (`k8s_client.py:24-76`): the last attempt
  raises before the failure is counted, so that it never opens.
* `POST /openclaw/.../start`: it raises before it does anything (`openclaw.py:565`).
* Whether a balance suffices for an instance is a choice: the balance is that of
  `RechargeLedger`, and the two are not composed.
* Tokens: the server keeps no state of them. Columns of profiles, names and
  specifications, which nothing here depends on.
* Pages that only read, catalogues, notifications, audit records, settings: rows of one
  writer. Cluster administration: single calls of Kubernetes. The scheduler, which picks a
  name; metrics; reports.
* Manifests, e-mail, formatting, deployment and migration scripts: input and output.
* The effect of a clock that moves backwards, and floating-point rounding of amounts, are
  abstracted away by integers.
