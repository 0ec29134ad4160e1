-------------------------- MODULE OpenClaw_proofs ---------------------------
(***************************************************************************)
(* What OpenClaw guarantees for every number of requests and worker jobs,  *)
(* every period, timeout and clock: types, the bill of a metered instance, *)
(* the periods of a prepaid one, and what becomes of a deleted one.        *)
(***************************************************************************)
EXTENDS OpenClaw, TLAPS

Deleted == {"releasing", "released"}

\* Until the row is committed, one request may be creating it and nothing else
\* happens; afterwards none is.
OneCreation ==
    /\ row.status = NULL =>
          /\ row = NoRow /\ now = 0 /\ paid = 0
          /\ \A j \in Jobs : job[j].op \in {NULL, "create"}
          /\ \A j \in Jobs : job[j].op = "create" => j \in Requests
          /\ \A i, j \in Jobs : job[i].op = "create" /\ job[j].op = "create" => i = j
    /\ row.status # NULL => \A j \in Jobs : job[j].op # "create"

\* The steps at which a job will settle the instance on what it has read.
Settling(w) ==
    \/ w.op = "stop"
    \/ w.op \in {"delete", "force", "scale"} /\ w.at = "commit"
    \/ w.op = "adminDelete"

\* What a billing job that has found something to charge has read.
Charging(j) ==
    LET w == job[j] IN
    /\ w.when # NULL
    /\ w.seen.status \notin Deleted \cup {NULL}
    /\ ~w.seen.prepaid => w.seen.status = "running" /\ (disturbed \/ w.seen.lastBilled <= w.when)
    /\ w.seen.prepaid => w.at = "commitBill"
    /\ w.seen.prepaid /\ w.to # "expired" => NextExpiry(w.seen, w.when) <= MaxExpiry

\* What a job knows of the row that it read and of the time, and what it has
\* concluded.
Informed(j) ==
    LET w == job[j] IN
    /\ (w.op = NULL) <=> (w.at = "idle")
    /\ w.when # NULL => w.when <= now
    /\ w.op = "create" =>
          /\ w.at \in {"build", "commitCreate", "buildError"}
          /\ w.seen.status = "creating" /\ ~w.seen.named /\ w.seen.lastBilled = NULL
          /\ w.seen.prepaid => w.seen.expiredAt = Period
    /\ Settling(w) => w.when # NULL
    /\ w.op = "stop" => w.seen.status \in {"running", "error"}
    /\ w.op = "restart" => w.seen.status = "running"
    /\ w.op = "sync" => /\ w.seen.status \in Watched
                        /\ w.at = "commit" => /\ w.to \in {NULL, "creating", "running", "error"}
                                              /\ w.to = "running" => w.when # NULL
    /\ w.op = "bill" => w.at = "readBill" \/ Charging(j)
    /\ w.at \in {"build", "commitCreate", "buildError"} => w.op = "create"
    /\ w.at = "scaleDown" => w.op \in {"stop", "restart"}
    /\ w.at = "remove" => w.op = "delete"
    /\ w.at = "cleanup" => w.op = "force"

JobsInformed == \A j \in Jobs : Informed(j)

\* The meter of a running instance stands at the first minute that is not
\* charged; a stopped one has none.
MeterIsRight ==
    ~row.prepaid /\ ~disturbed =>
        /\ row.status = "stopped" => row.lastBilled = NULL
        /\ row.status = "running" => /\ row.lastBilled # NULL /\ row.lastBilled <= now
                                    /\ row.lastBilled .. (now - 1) \subseteq due

Clean == kept = {} /\ dep = "none"

\* A job that has deleted the resources left none, or the flag is up; of a
\* released instance there are none, unless a forced deletion is about to
\* delete them.
DeletionIsClean ==
    /\ \A j \in Jobs : At(j, "delete", "finish") \/ At(j, "adminDelete", "commit") => leaked \/ Clean
    /\ row.status = "released" => leaked \/ Clean \/ \E j \in Jobs : job[j].at = "cleanup"

\* The inductive invariant.
IInv ==
    /\ TypeOK
    /\ OneCreation
    /\ JobsInformed
    /\ MeterIsRight
    /\ BilledAsItRan
    /\ PeriodsPaidFor
    /\ DeletionIsClean

-----------------------------------------------------------------------------
LEMMA Typed ==
    ASSUME TypeOK, NEW j \in Jobs
    PROVE  /\ row \in Row /\ now \in Time /\ NULL \in Time /\ now # NULL /\ now \in Nat
           /\ job[j] \in Job /\ job[j].seen \in Row /\ job[j].when \in Time /\ NULL \notin Statuses
  <1>1. now \in Nat /\ now \in Time /\ NULL \in Time /\ now # NULL
    BY LifeAssumption DEF TypeOK, Time, Minute
  <1>2. NULL \notin Statuses
    BY LifeAssumption
  <1> QED BY <1>1, <1>2 DEF TypeOK, Job

\* A job begins: it remembers the row, and the time if it will need it.
LEMMA BeginTypes ==
    ASSUME TypeOK, NEW j, NEW op \in Ops, NEW step \in Steps, NEW t \in Time, Begin(j, op, step, t)
    PROVE  job' \in [Jobs -> Job]
  BY DEF TypeOK, Begin, Job, Jobs

LEMMA ArriveTypes == ASSUME TypeOK, NEW j \in Jobs, Arrive(j) PROVE TypeOK'
  <1> USE LifeAssumption DEF TypeOK
  <1>1. now \in Time /\ NULL \in Time
    BY Typed
  <1>2. CASE Create(j)
    <2>1. PICK prepaid \in BOOLEAN, expiredAt \in 0 .. MaxExpiry \cup {NULL} :
             job' = [job EXCEPT ![j] =
                [Idle EXCEPT !.op = "create", !.at = "build",
                             !.seen = [NoRow EXCEPT !.status = "creating", !.prepaid = prepaid,
                                                    !.expiredAt = expiredAt]]]
      <3>1. PICK prepaid \in BOOLEAN :
               /\ prepaid => now + Period <= MaxExpiry
               /\ job' = [job EXCEPT ![j] =
                    [Idle EXCEPT !.op = "create", !.at = "build",
                                 !.seen = [NoRow EXCEPT !.status = "creating", !.prepaid = prepaid,
                                           !.expiredAt = IF prepaid THEN now + Period ELSE NULL]]]
        BY <1>2 DEF Create
      <3>2. (IF prepaid THEN now + Period ELSE NULL) \in 0 .. MaxExpiry \cup {NULL}
        BY <3>1 DEF Minute
      <3> QED BY <3>1, <3>2
    <2>2. [NoRow EXCEPT !.status = "creating", !.prepaid = prepaid, !.expiredAt = expiredAt] \in Row
      BY DEF NoRow, Row, Statuses, Time
    <2>3. job' \in [Jobs -> Job]
      BY <1>1, <2>1, <2>2 DEF Idle, Job, Ops, Steps
    <2> QED BY <1>2, <2>3 DEF Create, ledger
  <1>3. ASSUME UNCHANGED <<row, kept, dep, now, ledger, leaked, disturbed>>,
               \E op \in Ops, step \in Steps, t \in Time : Begin(j, op, step, t)
        PROVE  TypeOK'
    BY <1>3, BeginTypes DEF ledger
  <1>4. CASE Stop(j) \/ Restart(j) \/ Delete(j) \/ AdminRelease(j)
    <2>1. \E op \in Ops, step \in Steps, t \in Time : Begin(j, op, step, t)
      BY <1>1, <1>4 DEF Stop, Restart, Delete, AdminRelease, Ops, Steps
    <2> QED BY <1>3, <2>1 DEF Begin
  <1>5. CASE AdminDelete(j) \/ Sync(j) \/ Bill(j)
    <2>1. \E op \in Ops, step \in Steps, t \in Time : Begin(j, op, step, t)
      BY <1>1, <1>5 DEF AdminDelete, Sync, Bill, Ops, Steps
    <2> QED BY <1>3, <2>1 DEF Begin
  <1>6. CASE AdminScale(j)
    <2>1. Up \in Deployments /\ Down \in Deployments
      BY DEF Up, Down, Deployments
    <2>2. [Idle EXCEPT !.op = "scale", !.at = "look"] \in Job
      BY DEF Idle, Job, NoRow, Row, Time, Ops, Steps
    <2> QED BY <1>6, <2>1, <2>2 DEF AdminScale, ledger
  <1> QED BY <1>2, <1>4, <1>5, <1>6 DEF Arrive

\* A job goes on, decides, or ends.
LEMMA MoveTypes ==
    ASSUME TypeOK, NEW j \in Jobs, NEW step \in Steps, NEW to \in Statuses \cup {NULL},
           Goto(j, step) \/ Decide(j, step, to) \/ Finish(j)
    PROVE  job' \in [Jobs -> Job]
  <1>1. Idle \in Job
    BY LifeAssumption DEF Idle, Job, NoRow, Row, Time, Steps
  <1>2. CASE Finish(j)
    BY <1>1, <1>2 DEF TypeOK, Finish
  <1>3. CASE Goto(j, step) \/ Decide(j, step, to)
    BY <1>3 DEF TypeOK, Goto, Decide, Job
  <1> QED BY <1>2, <1>3

\* What an account keeps of its types.
LEMMA AccountTypes ==
    ASSUME TypeOK, NEW j, NEW found \in SUBSET Minute, NEW charged, NEW periods \in Nat,
           Account(j, found, charged, periods)
    PROVE  due' \subseteq Minute /\ overcharged' \in BOOLEAN /\ paid' \in Nat /\ disturbed' \in BOOLEAN
  <1>1. disturbed' \in BOOLEAN /\ overcharged' \in BOOLEAN
    BY Zenon DEF TypeOK, Account
  <1>2. due' \subseteq Minute /\ paid' \in Nat
    BY DEF TypeOK, Account
  <1> QED BY <1>1, <1>2

LEMMA SaveTypes ==
    ASSUME TypeOK, NEW j, NEW r \in Row, NEW charged, Save(j, r, charged), job' \in [Jobs -> Job]
    PROVE  TypeOK'
  <1>1. due' \subseteq Minute /\ overcharged' \in BOOLEAN /\ paid' \in Nat /\ disturbed' \in BOOLEAN
    <2>1. Account(j, {}, charged, 0) /\ {} \in SUBSET Minute /\ 0 \in Nat
      BY DEF Save
    <2> QED BY <2>1, AccountTypes
  <1> QED BY <1>1 DEF TypeOK, Save

LEMMA SettledTypes ==
    ASSUME TypeOK, NEW j \in Jobs, NEW status \in Statuses
    PROVE  Settled(j, status) \in Row
  BY Typed DEF Settled, Row

LEMMA LeaveTypes ==
    ASSUME TypeOK, NEW k \in SUBSET Parts, NEW wrong \in BOOLEAN, Leave(k, wrong)
    PROVE  kept' \subseteq Parts /\ leaked' \in BOOLEAN
  BY DEF TypeOK, Leave

LEMMA ProceedTypes == ASSUME TypeOK, JobsInformed, NEW j \in Jobs, Proceed(j) PROVE TypeOK'
  <1> USE LifeAssumption
  <1> DEFINE Stays == UNCHANGED <<row, now, ledger, disturbed>>
  <1>1. /\ row \in Row /\ now \in Time /\ NULL \in Time /\ now # NULL /\ now \in Nat
        /\ job[j] \in Job /\ job[j].seen \in Row /\ job[j].when \in Time /\ Informed(j)
    BY Typed DEF JobsInformed
  <1>2. \A step \in Steps : Goto(j, step) \/ Finish(j) => job' \in [Jobs -> Job]
    BY MoveTypes
  <1>3. \A step \in Steps, to \in Statuses \cup {NULL} : Decide(j, step, to) => job' \in [Jobs -> Job]
    BY MoveTypes
  <1>4. ASSUME Stays, dep' \in Deployments, kept' \subseteq Parts, leaked' \in BOOLEAN, job' \in [Jobs -> Job]
        PROVE  TypeOK'
    BY <1>4 DEF TypeOK, ledger
  <1>5. /\ Up \in Deployments /\ Down \in Deployments /\ dep \in Deployments
        /\ kept \subseteq Parts /\ leaked \in BOOLEAN
    BY DEF TypeOK, Up, Down, Deployments
  <1>6. CASE Build(j)
    <2>1. job' \in [Jobs -> Job]
      BY <1>2, <1>6 DEF Build, Steps
    <2>2. Stays /\ dep' \in Deployments
      BY <1>6 DEF Build, Deployments
    <2>3. kept' \subseteq Parts /\ leaked' \in BOOLEAN
      BY <1>5, <1>6, LeaveTypes DEF Build
    <2> QED BY <1>4, <2>1, <2>2, <2>3
  <1>7. CASE CommitCreate(j)
    <2>1. job' \in [Jobs -> Job]
      BY <1>2, <1>7 DEF CommitCreate, Steps
    <2>2. row' \in Row /\ paid' \in Nat
      <3>1. /\ [job[j].seen EXCEPT !.named = TRUE] \in Row
            /\ [job[j].seen EXCEPT !.status = "error"] \in Row
        BY <1>1 DEF Row, Statuses
      <3> QED BY <1>7, <3>1 DEF CommitCreate, Insert, TypeOK
    <2> QED BY <1>7, <2>1, <2>2 DEF CommitCreate, TypeOK
  <1>8. CASE ScaleDown(j) \/ ScaleUp(j)
    <2>1. job' \in [Jobs -> Job]
      <3>1. CASE ScaleDown(j)
        BY <1>2, <3>1 DEF ScaleDown, Scale, Steps
      <3>2. CASE ScaleUp(j)
        BY <1>3, <3>2 DEF ScaleUp, Scale, Steps, Statuses
      <3> QED BY <1>8, <3>1, <3>2
    <2>2. Stays /\ dep' \in Deployments /\ kept' = kept /\ leaked' = leaked
      BY <1>5, <1>8 DEF ScaleDown, ScaleUp, Scale
    <2> QED BY <1>4, <1>5, <2>1, <2>2
  <1>9. CASE CommitStop(j) \/ CommitScale(j) \/ CommitAdminDelete(j) \/ CommitDelete(j)
    <2>1. job' \in [Jobs -> Job]
      <3>1. CASE CommitDelete(j)
        <4>1. \A op \in Ops, step \in Steps : [Idle EXCEPT !.op = op, !.at = step] \in Job
          BY DEF Idle, Job, NoRow, Row, Time, Steps
        <4> QED BY <3>1, <4>1 DEF CommitDelete, TypeOK, Ops, Steps
      <3>2. CASE Finish(j)
        BY <1>2, <3>2 DEF Steps
      <3> QED BY <1>9, <3>1, <3>2 DEF CommitStop, CommitScale, CommitAdminDelete
    <2>2. PICK status \in Statuses : SettleAndSave(j, status)
      BY <1>9 DEF CommitStop, CommitScale, CommitAdminDelete, CommitDelete, Statuses
    <2> QED BY <2>1, <2>2, SaveTypes, SettledTypes DEF SettleAndSave
  <1>10. CASE CommitRestart(j)
    <2>1. /\ [row EXCEPT !.status = "creating", !.startedAt = now] \in Row
          /\ [row EXCEPT !.status = "error"] \in Row
      BY <1>1 DEF Row, Statuses
    <2>2. job' \in [Jobs -> Job]
      BY <1>2, <1>10 DEF CommitRestart, Steps
    <2> QED BY <1>10, <2>1, <2>2, SaveTypes DEF CommitRestart
  <1>11. CASE Remove(j)
    <2>1. job' \in [Jobs -> Job]
      BY <1>2, <1>11 DEF Remove, Steps
    <2>2. PICK k \in SUBSET kept : Leave(k, k # {} \/ dep' # "none")
      BY <1>11 DEF Remove, Removal
    <2>3. kept' \subseteq Parts /\ leaked' \in BOOLEAN
      BY <1>5, <2>2, LeaveTypes
    <2>4. Stays /\ dep' \in Deployments
      BY <1>5, <1>11 DEF Remove, Removal, Deployments
    <2> QED BY <1>4, <2>1, <2>3, <2>4
  <1>12. CASE FinishDelete(j)
    <2>1. row' \in Row
      BY <1>1, <1>12 DEF FinishDelete, Row, Statuses
    <2>2. job' \in [Jobs -> Job]
      BY <1>2, <1>12 DEF FinishDelete, Steps
    <2> QED BY <1>12, <2>1, <2>2 DEF FinishDelete, TypeOK, ledger
  <1>13. CASE FindLinked(j)
    <2>1. job' \in [Jobs -> Job]
      BY <1>1, <1>13 DEF FindLinked, TypeOK, Job, Steps
    <2> QED BY <1>4, <1>5, <1>13, <2>1 DEF FindLinked
  <1>14. CASE DeleteDep(j)
    <2>1. job' \in [Jobs -> Job]
      BY <1>2, <1>14 DEF DeleteDep, Steps
    <2>2. Stays /\ dep' \in Deployments /\ kept' \subseteq Parts /\ leaked' \in BOOLEAN
      BY <1>5, <1>14 DEF DeleteDep, Deployments
    <2> QED BY <1>4, <2>1, <2>2
  <1>15. CASE Look(j)
    <2>1. /\ Missing(job[j].seen.status) \in Statuses \cup {NULL}
          /\ dep # "none" => Derived(dep) \in Statuses
      BY <1>5 DEF Missing, Derived, Statuses, Deployments
    <2>2. job' \in [Jobs -> Job]
      BY <1>1, <1>15, <2>1 DEF Look, TypeOK, Job, Steps
    <2> QED BY <1>4, <1>5, <1>15, <2>2 DEF Look
  <1>16. CASE Skip(j)
    <2>1. job' \in [Jobs -> Job]
      BY <1>2, <1>16 DEF Skip, Steps
    <2> QED BY <1>4, <1>5, <1>16, <2>1 DEF Skip
  <1>17. CASE CommitSync(j)
    <2>1. job' \in [Jobs -> Job]
      BY <1>2, <1>17 DEF CommitSync, Steps
    <2>2. CASE job[j].to = NULL
      BY <1>17, <2>1, <2>2 DEF CommitSync, TypeOK, ledger
    <2>3. CASE job[j].to # NULL
      <3>1. /\ job[j].to \in Statuses
            /\ \A r \in Row, to \in Statuses, t \in Time : Metered(r, to, t) \in Time
        BY <1>1, <2>3 DEF Job, Metered, Row
      <3>2. Aligned(j) \in Row
        BY <1>1, <3>1 DEF Aligned, Row
      <3>3. Found(j) \in SUBSET Minute /\ 0 \in Nat
        BY <1>1, <1>17 DEF Found, Informed, CommitSync, At, Time, Minute, TypeOK
      <3>4. due' \subseteq Minute /\ overcharged' \in BOOLEAN /\ paid' \in Nat /\ disturbed' \in BOOLEAN
        BY <1>17, <2>3, <3>3, AccountTypes DEF CommitSync
      <3> QED BY <1>17, <2>1, <2>3, <3>2, <3>4 DEF CommitSync, TypeOK
    <2> QED BY <2>2, <2>3
  <1>18. CASE ReadBill(j)
    <2>1. job' \in [Jobs -> Job]
      BY <1>1, <1>2, <1>18 DEF ReadBill, TypeOK, Job, Steps, Statuses
    <2> QED BY <1>4, <1>5, <1>18, <2>1 DEF ReadBill
  <1>19. CASE ForceStop(j)
    <2>1. job' \in [Jobs -> Job]
      BY <1>2, <1>3, <1>19 DEF ForceStop, Steps, Statuses
    <2> QED BY <1>4, <1>5, <1>19, <2>1 DEF ForceStop
  <1>20. CASE CommitHourly(j)
    <2>1. /\ [row EXCEPT !.status = "stopped", !.lastBilled = NULL] \in Row
          /\ [row EXCEPT !.lastBilled = job[j].when] \in Row
      BY <1>1 DEF Row, Statuses
    <2>2. job' \in [Jobs -> Job]
      BY <1>2, <1>20 DEF CommitHourly, Steps
    <2> QED BY <1>20, <2>1, <2>2, SaveTypes DEF CommitHourly
  <1>21. CASE CommitPrepaid(j)
    <2>1. job' \in [Jobs -> Job]
      BY <1>2, <1>21 DEF CommitPrepaid, Steps
    <2>2. \E periods \in Nat : Account(j, {}, {}, periods)
      BY <1>21 DEF CommitPrepaid
    <2>3. due' \subseteq Minute /\ overcharged' \in BOOLEAN /\ paid' \in Nat /\ disturbed' \in BOOLEAN
      BY <2>2, AccountTypes
    <2>4. job[j].to # "expired" => NextExpiry(job[j].seen, job[j].when) \in 0 .. MaxExpiry
      BY <1>1, <1>21 DEF CommitPrepaid, At, Informed, Charging, NextExpiry, Row, Time, Minute
    <2>5. row' \in Row
      BY <1>1, <1>21, <2>4 DEF CommitPrepaid, Row, Statuses
    <2> QED BY <1>21, <2>1, <2>3, <2>5 DEF CommitPrepaid, TypeOK
  <1> QED BY <1>6, <1>7, <1>8, <1>9, <1>10, <1>11, <1>12, <1>13, <1>14, <1>15, <1>16, <1>17, <1>18, <1>19,
             <1>20, <1>21 DEF Proceed

LEMMA TypeStep == ASSUME TypeOK, JobsInformed, [Next]_vars PROVE TypeOK'
  <1>1. ASSUME NEW j \in Jobs, Lose(j) PROVE TypeOK'
    <2>1. job' \in [Jobs -> Job]
      BY <1>1, MoveTypes DEF Lose, Steps
    <2>2. kept' \subseteq Parts /\ leaked' \in BOOLEAN
      <3> DEFINE wrong == job[j].at \in {"commitCreate", "buildError", "cleanup"}
      <3>1. kept \in SUBSET Parts /\ wrong \in BOOLEAN /\ Leave(kept, wrong)
        BY <1>1 DEF Lose, TypeOK
      <3> HIDE DEF wrong
      <3> QED BY <3>1, LeaveTypes
    <2> QED BY <1>1, <2>1, <2>2 DEF Lose, TypeOK, ledger
  <1>2. CASE Roll \/ Replaced
    BY <1>2 DEF Roll, Replaced, Kubernetes, TypeOK, Deployments, ledger
  <1>3. CASE Tick
    BY <1>3, LifeAssumption DEF Tick, TypeOK, Minute
  <1>4. CASE UNCHANGED vars
    BY <1>4 DEF vars, ledger, TypeOK
  <1> QED BY <1>1, <1>2, <1>3, <1>4, ArriveTypes, ProceedTypes DEF Next

-----------------------------------------------------------------------------
\* No action touches another's job, turns the clock back, forgets a race or
\* what was left behind.
Alone(j) == /\ \A k \in Jobs \ {j} : job'[k] = job[k]
            /\ now' = now
            /\ disturbed => disturbed'
            /\ leaked => leaked'

LEMMA OthersStay ==
    ASSUME TypeOK, NEW j \in Jobs, Arrive(j) \/ Proceed(j) \/ Lose(j)
    PROVE  Alone(j)
  <1> DEFINE Keeps == now' = now /\ (disturbed => disturbed') /\ (leaked => leaked')
  <1>1. ASSUME Keeps, NEW w, job' = [job EXCEPT ![j] = w]
        PROVE  Alone(j)
    BY <1>1 DEF Alone, TypeOK
  <1>2. ASSUME Keeps, UNCHANGED job \/ Finish(j) \/ (\E step : Goto(j, step)) \/ (\E step, to : Decide(j, step, to))
        PROVE  Alone(j)
    BY <1>2 DEF Alone, TypeOK, Finish, Goto, Decide
  <1>3. CASE Arrive(j)
    <2>1. CASE Stop(j) \/ Restart(j) \/ Delete(j) \/ AdminRelease(j) \/ AdminDelete(j) \/ Sync(j) \/ Bill(j)
      <3>1. \E op, step, t : Begin(j, op, step, t)
        BY <2>1 DEF Stop, Restart, Delete, AdminRelease, AdminDelete, Sync, Bill
      <3>2. now' = now /\ disturbed' = disturbed /\ leaked' = leaked
        BY <3>1 DEF Begin
      <3>3. Keeps
        BY <3>2, Zenon
      <3>4. \E w : job' = [job EXCEPT ![j] = w]
        BY <3>1 DEF Begin
      <3> QED BY <1>1, <3>3, <3>4
    <2>2. CASE Create(j)
      BY <1>1, <2>2 DEF Create
    <2>3. CASE AdminScale(j)
      BY <1>1, <1>2, <2>3 DEF AdminScale
    <2> QED BY <1>3, <2>1, <2>2, <2>3 DEF Arrive
  <1>4. CASE Lose(j)
    BY <1>2, <1>4 DEF Lose, Leave
  <1>5. CASE Build(j) \/ CommitCreate(j) \/ ScaleDown(j) \/ ScaleUp(j)
    BY <1>2, <1>5 DEF Build, CommitCreate, ScaleDown, ScaleUp, Scale, Leave
  <1>6. CASE Remove(j) \/ FinishDelete(j) \/ DeleteDep(j) \/ Skip(j) \/ ForceStop(j)
    BY <1>2, <1>6 DEF Remove, Removal, FinishDelete, DeleteDep, Skip, ForceStop, Leave
  <1>7. CASE CommitStop(j) \/ CommitRestart(j) \/ CommitScale(j) \/ CommitAdminDelete(j) \/ CommitHourly(j)
               \/ CommitDelete(j)
    <2>1. \E r, charged : Save(j, r, charged)
      BY <1>7 DEF CommitStop, CommitRestart, CommitScale, CommitAdminDelete, CommitHourly, CommitDelete, SettleAndSave
    <2>2. Keeps
      <3>1. now' = now /\ leaked' = leaked /\ disturbed' = (disturbed \/ Outdated(j))
        BY <2>1 DEF Save, Account
      <3> QED BY <3>1, Zenon
    <2>3. CASE CommitDelete(j)
      BY <1>1, <2>2, <2>3 DEF CommitDelete
    <2> QED BY <1>2, <1>7, <2>2, <2>3 DEF CommitStop, CommitRestart, CommitScale, CommitAdminDelete, CommitHourly
  <1>8. CASE CommitSync(j) \/ CommitPrepaid(j)
    BY <1>2, <1>8 DEF CommitSync, CommitPrepaid, Account
  <1>9. CASE FindLinked(j)
    BY <1>9 DEF FindLinked, Alone, TypeOK
  <1>10. CASE Look(j)
    BY <1>10 DEF Look, Alone, TypeOK
  <1>11. CASE ReadBill(j)
    BY <1>11 DEF ReadBill, Finish, Alone, TypeOK
  <1> QED BY <1>3, <1>4, <1>5, <1>6, <1>7, <1>8, <1>9, <1>10, <1>11 DEF Proceed

LEMMA StillInformed ==
    ASSUME TypeOK, NEW k \in Jobs, Informed(k), job'[k] = job[k], now' \in {now, now + 1},
           disturbed => disturbed'
    PROVE  Informed(k)'
  <1>1. job[k].when # NULL => job[k].when \in Int
    BY DEF TypeOK, Job, Time, Minute
  <1>2. now \in Int
    BY DEF TypeOK, Minute
  <1> QED BY <1>1, <1>2 DEF Informed, Charging, Settling

\* A step that moves on or ends.
LEMMA MoveAt ==
    ASSUME TypeOK, NEW j \in Jobs
    PROVE  /\ \A step : Goto(j, step)
                => /\ job'[j].op = job[j].op /\ job'[j].at = step /\ job'[j].seen = job[j].seen
                   /\ job'[j].when = job[j].when /\ job'[j].to = job[j].to
           /\ \A step, to : Decide(j, step, to)
                => /\ job'[j].op = job[j].op /\ job'[j].at = step /\ job'[j].seen = job[j].seen
                   /\ job'[j].when = job[j].when /\ job'[j].to = to
           /\ Finish(j) => job'[j].op = NULL /\ job'[j].at = "idle" /\ job'[j].when = NULL
  <1>1. ASSUME NEW step, Goto(j, step)
        PROVE  /\ job'[j].op = job[j].op /\ job'[j].at = step /\ job'[j].seen = job[j].seen
               /\ job'[j].when = job[j].when /\ job'[j].to = job[j].to
    BY <1>1 DEF Goto, TypeOK, Job
  <1>2. ASSUME NEW step, NEW to, Decide(j, step, to)
        PROVE  /\ job'[j].op = job[j].op /\ job'[j].at = step /\ job'[j].seen = job[j].seen
               /\ job'[j].when = job[j].when /\ job'[j].to = to
    BY <1>2 DEF Decide, TypeOK, Job
  <1>3. Finish(j) => job'[j].op = NULL /\ job'[j].at = "idle" /\ job'[j].when = NULL
    BY DEF Finish, TypeOK, Idle
  <1> QED BY <1>1, <1>2, <1>3

\* An idle job knows nothing; a deletion in Kubernetes needs nothing, nor does
\* a scaling that has not read the row.
LEMMA NothingToKnow ==
    ASSUME NEW j \in Jobs, job'[j].when = NULL,
           \/ job'[j].op = NULL     /\ job'[j].at = "idle"
           \/ job'[j].op = "delete" /\ job'[j].at = "remove"
           \/ job'[j].op = "force"  /\ job'[j].at = "cleanup"
           \/ job'[j].op = "scale"  /\ job'[j].at = "look"
    PROVE  Informed(j)'
  BY LifeAssumption DEF Informed, Settling, Ops

LEMMA ArriveInformed ==
    ASSUME TypeOK, OneCreation, NEW j \in Jobs, Informed(j), Arrive(j)
    PROVE  Informed(j)'
  <1> USE LifeAssumption
  <1>1. now # NULL /\ now <= now /\ now' = now /\ now \in Nat
    BY OthersStay, Typed DEF Alone
  <1>2. ASSUME NEW op, NEW step, NEW t, Begin(j, op, step, t)
        PROVE  job'[j].op = op /\ job'[j].at = step /\ job'[j].seen = row /\ job'[j].when = t
    BY <1>2 DEF Begin, TypeOK
  <1>3. CASE Create(j)
    <2>1. now = 0
      BY <1>3 DEF Create, OneCreation
    <2>2. PICK prepaid \in BOOLEAN :
             job' = [job EXCEPT ![j] =
                [Idle EXCEPT !.op = "create", !.at = "build",
                             !.seen = [NoRow EXCEPT !.status = "creating", !.prepaid = prepaid,
                                                    !.expiredAt = IF prepaid THEN now + Period ELSE NULL]]]
      BY <1>3 DEF Create
    <2>3. job'[j] = [op |-> "create", at |-> "build", when |-> NULL, to |-> NULL,
                     seen |-> [status |-> "creating", named |-> FALSE, prepaid |-> prepaid, lastBilled |-> NULL,
                               startedAt |-> NULL, expiredAt |-> IF prepaid THEN now + Period ELSE NULL]]
      BY <2>2 DEF TypeOK, Idle, NoRow
    <2>4. /\ job'[j].op = "create" /\ job'[j].at = "build" /\ job'[j].when = NULL
          /\ job'[j].seen.status = "creating" /\ job'[j].seen.lastBilled = NULL
          /\ job'[j].seen.prepaid => job'[j].seen.expiredAt = Period
      BY <1>1, <2>1, <2>3
    <2>5. ~job'[j].seen.named
      <3>1. job'[j].seen.named = FALSE
        BY <2>3
      <3> QED BY <3>1, Zenon
    <2> QED BY <2>4, <2>5 DEF Informed, Settling, Ops
  <1>4. CASE AdminScale(j)
    <2>1. CASE UNCHANGED job
      <3>1. disturbed' = disturbed
        BY <1>4 DEF AdminScale
      <3> QED BY <1>1, <2>1, <3>1, StillInformed
    <2>2. CASE job' = [job EXCEPT ![j] = [Idle EXCEPT !.op = "scale", !.at = "look"]]
      BY <2>2, NothingToKnow DEF TypeOK, Idle
    <2> QED BY <1>4, <2>1, <2>2 DEF AdminScale
  <1>5. CASE Stop(j) \/ Restart(j)
    <2>1. \/ /\ job'[j].op = "stop" /\ job'[j].at = "scaleDown" /\ job'[j].when = now
             /\ job'[j].seen.status \in {"running", "error"}
          \/ /\ job'[j].op = "restart" /\ job'[j].at = "scaleDown" /\ job'[j].when = NULL
             /\ job'[j].seen.status = "running"
      BY <1>2, <1>5 DEF Stop, Restart
    <2> QED BY <1>1, <2>1 DEF Informed, Settling, Ops
  <1>6. CASE Delete(j) \/ AdminRelease(j) \/ AdminDelete(j)
    <2>1. /\ job'[j].op \in {"delete", "force", "adminDelete"} /\ job'[j].at \in {"commit", "deleteDep"}
          /\ job'[j].when = now
      BY <1>2, <1>6 DEF Delete, AdminRelease, AdminDelete
    <2> QED BY <1>1, <2>1 DEF Informed, Settling, Ops
  <1>7. CASE Sync(j) \/ Bill(j)
    <2>1. \/ /\ job'[j].op = "sync" /\ job'[j].at = "look" /\ job'[j].when = NULL
             /\ job'[j].seen.status \in Watched
          \/ /\ job'[j].op = "bill" /\ job'[j].at = "readBill" /\ job'[j].when = NULL
      BY <1>2, <1>7 DEF Sync, Bill
    <2> QED BY <1>1, <2>1 DEF Informed, Settling, Ops
  <1> QED BY <1>3, <1>4, <1>5, <1>6, <1>7 DEF Arrive

LEMMA ProceedInformed ==
    ASSUME TypeOK, OneCreation, JobsInformed, MeterIsRight, NEW j \in Jobs, Proceed(j)
    PROVE  Informed(j)'
  <1> USE LifeAssumption
  <1>1. /\ now # NULL /\ now <= now /\ now' = now /\ now \in Nat /\ (disturbed => disturbed')
        /\ Informed(j) /\ job[j] \in Job /\ job[j].seen \in Row /\ row \in Row
    BY OthersStay, Typed DEF Alone, JobsInformed
  <1>2. CASE Finish(j)
    BY <1>2, MoveAt, NothingToKnow
  <1>3. ASSUME NEW step \in {"commitCreate", "buildError", "scaleUp", "commit", "finish"},
               job[j].op \in {"create", "stop", "restart", "delete", "adminDelete"},
               job[j].op = "create" <=> step \in {"commitCreate", "buildError"},
               job[j].op = "delete" => step = "finish",
               Goto(j, step) \/ \E to : Decide(j, step, to)
        PROVE  Informed(j)'
    <2>1. /\ job'[j].op = job[j].op /\ job'[j].at = step /\ job'[j].when = job[j].when
          /\ job'[j].seen = job[j].seen
      BY <1>3, MoveAt
    <2> QED BY <1>1, <1>3, <2>1 DEF Informed, Settling, Ops
  <1>4. CASE Build(j)
    <2>1. PICK step \in {"commitCreate", "buildError"} : Goto(j, step)
      BY <1>4 DEF Build
    <2> QED BY <1>3, <1>4, <2>1 DEF Build, At
  <1>5. CASE CommitCreate(j) \/ CommitStop(j) \/ CommitRestart(j) \/ FinishDelete(j) \/ CommitScale(j)
               \/ CommitAdminDelete(j) \/ Skip(j) \/ CommitSync(j) \/ CommitHourly(j) \/ CommitPrepaid(j)
    BY <1>2, <1>5 DEF CommitCreate, CommitStop, CommitRestart, FinishDelete, CommitScale, CommitAdminDelete, Skip,
                      CommitSync, CommitHourly, CommitPrepaid
  <1>6. CASE ScaleDown(j)
    <2>1. job[j].op \in {"stop", "restart"}
      BY <1>1, <1>6 DEF ScaleDown, Informed
    <2>2. Finish(j) \/ Goto(j, "commit") \/ Goto(j, "scaleUp")
      BY <1>6 DEF ScaleDown, Scale
    <2> QED BY <1>2, <1>3, <2>1, <2>2
  <1>7. CASE ScaleUp(j)
    <2>1. PICK to : Decide(j, "commit", to)
      BY <1>7 DEF ScaleUp, Scale
    <2> QED BY <1>3, <1>7, <2>1 DEF ScaleUp, At
  <1>8. CASE CommitDelete(j)
    <2>1. /\ job'[j].when = NULL
          /\ \/ job'[j].op = "delete" /\ job'[j].at = "remove"
             \/ job'[j].op = "force"  /\ job'[j].at = "cleanup"
      BY <1>8 DEF CommitDelete, TypeOK, Idle
    <2> QED BY <2>1, NothingToKnow
  <1>9. CASE Remove(j)
    <2>1. CASE job[j].at = "cleanup"
      BY <1>2, <1>9, <2>1 DEF Remove
    <2>2. CASE job[j].at = "remove"
      <3>1. job[j].op = "delete" /\ Goto(j, "finish")
        BY <1>1, <1>9, <2>2 DEF Remove, Informed
      <3> QED BY <1>3, <3>1
    <2> QED BY <1>9, <2>1, <2>2 DEF Remove
  <1>10. CASE DeleteDep(j)
    <2>1. job[j].op = "adminDelete" /\ (Finish(j) \/ Goto(j, "commit"))
      BY <1>10 DEF DeleteDep, At
    <2> QED BY <1>2, <1>3, <2>1
  <1>11. CASE FindLinked(j)
    <2>1. job'[j].op = "scale" /\ job'[j].at = "commit" /\ job'[j].when = now
      BY <1>1, <1>11 DEF FindLinked, TypeOK, Job, At
    <2> QED BY <1>1, <2>1 DEF Informed, Settling, Ops
  <1>12. CASE Look(j)
    <2>1. /\ job'[j].op = "sync" /\ job'[j].at = "commit" /\ job'[j].seen = job[j].seen
          /\ job'[j].to \in {NULL, "creating", "running", "error"}
          /\ job'[j].to = "running" => job'[j].when = now
          /\ job'[j].when \in {NULL, now}
      <3>1. dep # "none" => Derived(dep) \in {"creating", "running", "error"}
        BY DEF TypeOK, Deployments, Derived
      <3>2. Missing(job[j].seen.status) \in {NULL, "error"}
        BY DEF Missing
      <3> QED BY <1>1, <1>12, <3>1, <3>2 DEF Look, TypeOK, Job, At, Statuses
    <2>2. job[j].seen.status \in Watched
      BY <1>1, <1>12 DEF Look, At, Informed
    <2> QED BY <1>1, <2>1, <2>2 DEF Informed, Settling, Ops
  <1>13. CASE ReadBill(j) /\ ~Finish(j)
    <2>1. PICK step \in {"commitBill", "forceStop"}, to \in {NULL, "expired"} :
             /\ step = "forceStop" => ~row.prepaid
             /\ row.prepaid /\ to = NULL => NextExpiry(row, now) <= MaxExpiry
             /\ job' = [job EXCEPT ![j].at = step, ![j].seen = row, ![j].when = now, ![j].to = to]
      BY <1>13 DEF ReadBill
    <2>2. /\ job'[j].op = "bill" /\ job'[j].at = step /\ job'[j].seen = row /\ job'[j].when = now
          /\ job'[j].to = to
      BY <1>1, <1>13, <2>1 DEF TypeOK, Job, ReadBill, At
    <2>3. row.status \notin Deleted \cup {NULL} /\ (~row.prepaid => row.status = "running")
      BY <1>13 DEF ReadBill, NothingToBill, OneCreation, At, Deleted, Ops
    <2>4. ~row.prepaid => disturbed' \/ row.lastBilled <= now
      BY <1>1, <2>3 DEF MeterIsRight
    <2>5. Charging(j)'
      BY <1>1, <2>1, <2>2, <2>3, <2>4 DEF Charging
    <2> QED BY <1>1, <2>2, <2>5 DEF Informed, Settling, Ops
  <1>14. CASE ForceStop(j)
    <2>1. job[j].at # "readBill" /\ job[j].op = "bill" /\ Charging(j) /\ ~job[j].seen.prepaid
      BY <1>1, <1>14 DEF ForceStop, At, Informed, Charging
    <2>2. /\ job'[j].op = "bill" /\ job'[j].at = "commitBill" /\ job'[j].seen = job[j].seen
          /\ job'[j].when = job[j].when
      BY <1>14, MoveAt DEF ForceStop, At
    <2>3. Charging(j)'
      BY <1>1, <2>1, <2>2 DEF Charging
    <2> QED BY <1>1, <2>2, <2>3 DEF Informed, Settling, Ops
  <1> QED BY <1>2, <1>4, <1>5, <1>6, <1>7, <1>8, <1>9, <1>10, <1>11, <1>12, <1>13, <1>14 DEF Proceed, ReadBill

LEMMA InformedStep == ASSUME TypeOK, OneCreation, JobsInformed, MeterIsRight, [Next]_vars PROVE JobsInformed'
  <1> SUFFICES ASSUME NEW k \in Jobs PROVE Informed(k)'
    BY DEF JobsInformed
  <1>1. Informed(k)
    BY DEF JobsInformed
  <1>2. ASSUME NEW j \in Jobs, Arrive(j) \/ Proceed(j) \/ Lose(j) PROVE Informed(k)'
    <2>1. CASE k # j
      BY <1>1, <1>2, <2>1, OthersStay, StillInformed DEF Alone
    <2>2. CASE k = j /\ Lose(j)
      BY <2>2, MoveAt, NothingToKnow DEF Lose
    <2> QED BY <1>1, <1>2, <2>1, <2>2, ArriveInformed, ProceedInformed
  <1>3. CASE Roll \/ Replaced \/ Tick \/ UNCHANGED vars
    <2>1. job' = job /\ now' \in {now, now + 1} /\ disturbed' = disturbed
      BY <1>3 DEF Roll, Replaced, Kubernetes, Tick, vars
    <2> QED BY <1>1, <2>1, StillInformed
  <1> QED BY <1>2, <1>3 DEF Next

-----------------------------------------------------------------------------
\* Only POST /instances creates; a job goes on with what it does, or ends.
LEMMA OpStays ==
    ASSUME TypeOK, NEW j \in Jobs
    PROVE  /\ Arrive(j) => Create(j) \/ job'[j].op = job[j].op \/ job'[j].op \in Ops \ {"create"}
           /\ Proceed(j) \/ Lose(j) => job'[j].op \in {job[j].op, NULL}
  <1>1. ASSUME Arrive(j), ~Create(j)
        PROVE  job'[j].op = job[j].op \/ job'[j].op \in Ops \ {"create"}
    <2>1. CASE Stop(j) \/ Restart(j) \/ Delete(j) \/ AdminRelease(j) \/ AdminDelete(j) \/ Sync(j) \/ Bill(j)
      <3>1. PICK op \in Ops \ {"create"} : \E step, t : Begin(j, op, step, t)
        BY <2>1 DEF Stop, Restart, Delete, AdminRelease, AdminDelete, Sync, Bill, Ops
      <3> QED BY <3>1 DEF Begin, TypeOK
    <2>2. CASE AdminScale(j)
      BY <2>2 DEF AdminScale, TypeOK, Idle, Ops
    <2> QED BY <1>1, <2>1, <2>2 DEF Arrive
  <1>2. ASSUME Finish(j) \/ (\E step : Goto(j, step)) \/ (\E step, to : Decide(j, step, to))
        PROVE  job'[j].op \in {job[j].op, NULL}
    BY <1>2, MoveAt
  <1>3. ASSUME Proceed(j) PROVE job'[j].op \in {job[j].op, NULL}
    <2>1. CASE Build(j) \/ CommitCreate(j) \/ ScaleDown(j) \/ ScaleUp(j) \/ Remove(j) \/ FinishDelete(j)
                 \/ DeleteDep(j) \/ Skip(j) \/ ForceStop(j)
      BY <1>2, <2>1 DEF Build, CommitCreate, ScaleDown, ScaleUp, Scale, Remove, FinishDelete, DeleteDep, Skip,
                        ForceStop
    <2>2. CASE CommitStop(j) \/ CommitRestart(j) \/ CommitScale(j) \/ CommitAdminDelete(j) \/ CommitSync(j)
                 \/ CommitHourly(j) \/ CommitPrepaid(j)
      BY <1>2, <2>2 DEF CommitStop, CommitRestart, CommitScale, CommitAdminDelete, CommitSync, CommitHourly,
                        CommitPrepaid
    <2>3. CASE CommitDelete(j)
      BY <2>3 DEF CommitDelete, TypeOK, Idle
    <2>4. CASE FindLinked(j) \/ Look(j)
      BY <2>4 DEF FindLinked, Look, TypeOK, Job
    <2>5. CASE ReadBill(j)
      BY <1>2, <2>5 DEF ReadBill, TypeOK, Job
    <2> QED BY <1>3, <2>1, <2>2, <2>3, <2>4, <2>5 DEF Proceed
  <1>4. Lose(j) => job'[j].op \in {job[j].op, NULL}
    BY <1>2 DEF Lose
  <1> QED BY <1>1, <1>3, <1>4

\* What a settlement writes: the status, and no meter.
LEMMA SettlesTo ==
    ASSUME TypeOK, NEW j \in Jobs, NEW status \in Statuses, SettleAndSave(j, status)
    PROVE  /\ row'.status = status \/ (job[j].seen.status = status /\ row'.status = row.status)
           /\ row'.prepaid = row.prepaid /\ row'.named = row.named /\ row'.expiredAt = row.expiredAt
           /\ row'.lastBilled = NULL \/ row'.lastBilled = row.lastBilled
           /\ kept' = kept /\ dep' = dep /\ leaked' = leaked
  <1>1. row \in Row /\ row' = Settled(j, status)
    BY Typed DEF SettleAndSave, Save
  <1>2. row' = [row EXCEPT !.status = IF status # job[j].seen.status THEN status ELSE row.status,
                           !.lastBilled = IF Settles(job[j].seen) THEN NULL ELSE row.lastBilled]
    BY <1>1 DEF Settled
  <1>3. /\ row'.status = status \/ (job[j].seen.status = status /\ row'.status = row.status)
        /\ row'.prepaid = row.prepaid /\ row'.named = row.named /\ row'.expiredAt = row.expiredAt
        /\ row'.lastBilled = NULL \/ row'.lastBilled = row.lastBilled
    BY <1>1, <1>2 DEF Row
  <1> QED BY <1>3 DEF SettleAndSave, Save

\* A row that is committed stays: no job writes the status NULL.
LEMMA RowStays == ASSUME TypeOK, JobsInformed, [Next]_vars, row.status # NULL PROVE row'.status # NULL
  <1> USE LifeAssumption
  <1>1. row \in Row /\ NULL \notin Statuses
    BY DEF TypeOK
  <1>2. ASSUME NEW j \in Jobs, Proceed(j) PROVE row'.status # NULL
    <2>1. CASE CommitStop(j) \/ CommitScale(j) \/ CommitAdminDelete(j) \/ CommitDelete(j)
      <3>1. PICK status \in Statuses : SettleAndSave(j, status)
        BY <2>1 DEF CommitStop, CommitScale, CommitAdminDelete, CommitDelete, Statuses
      <3> QED BY <1>1, <3>1, SettlesTo
    <2>2. CASE CommitCreate(j)
      <3>1. job[j] \in Job /\ job[j].seen \in Row /\ job[j].seen.status = "creating"
        BY <2>2, Typed DEF CommitCreate, JobsInformed, Informed
      <3> QED BY <1>1, <2>2, <3>1 DEF CommitCreate, Insert, Row, Statuses
    <2>3. CASE CommitRestart(j) \/ CommitHourly(j)
      BY <1>1, <2>3 DEF CommitRestart, CommitHourly, Save, Row, Statuses
    <2>4. CASE FinishDelete(j) \/ CommitPrepaid(j)
      BY <1>1, <2>4 DEF FinishDelete, CommitPrepaid, Row, Statuses
    <2>5. CASE CommitSync(j)
      BY <1>1, <2>5 DEF CommitSync, Aligned, Row
    <2>6. CASE UNCHANGED row
      BY <2>6
    <2> QED BY <1>2, <2>1, <2>2, <2>3, <2>4, <2>5, <2>6
        DEF Proceed, Build, ScaleDown, ScaleUp, Remove, FindLinked, DeleteDep, Look, Skip, ReadBill, ForceStop
  <1>3. ASSUME NEW j \in Jobs, Arrive(j) \/ Lose(j) PROVE row'.status # NULL
    <2>1. UNCHANGED row
      BY <1>3 DEF Arrive, Create, Stop, Restart, Delete, AdminRelease, AdminScale, AdminDelete, Sync, Bill, Begin, Lose
    <2> QED BY <2>1
  <1>4. CASE Roll \/ Replaced \/ Tick \/ UNCHANGED vars
    BY <1>4 DEF Roll, Replaced, Kubernetes, Tick, vars
  <1> QED BY <1>2, <1>3, <1>4 DEF Next

LEMMA CreationStep ==
    ASSUME TypeOK, OneCreation, JobsInformed, [Next]_vars
    PROVE  OneCreation'
  <1> USE LifeAssumption
  <1>1. CASE row.status # NULL
    <2>1. row'.status # NULL /\ \A k \in Jobs : job[k].op # "create"
      BY <1>1, RowStays DEF OneCreation
    <2>2. ASSUME NEW k \in Jobs PROVE job'[k].op # "create"
      <3>1. CASE UNCHANGED job
        BY <2>1, <3>1
      <3>2. ASSUME NEW j \in Jobs, Arrive(j) \/ Proceed(j) \/ Lose(j) PROVE job'[k].op # "create"
        <4>1. CASE k # j
          BY <2>1, <3>2, <4>1, OthersStay DEF Alone
        <4>2. ~Create(j)
          BY <1>1 DEF Create
        <4> QED BY <2>1, <3>2, <4>1, <4>2, OpStays DEF Ops
      <3> QED BY <3>1, <3>2 DEF Next, Roll, Replaced, Kubernetes, Tick, vars
    <2> QED BY <2>1, <2>2 DEF OneCreation
  <1>2. CASE row.status = NULL
    <2>1. /\ row = NoRow /\ now = 0 /\ paid = 0
          /\ \A k \in Jobs : job[k].op \in {NULL, "create"}
          /\ \A k \in Jobs : job[k].op = "create" => k \in Requests
          /\ \A i, k \in Jobs : job[i].op = "create" /\ job[k].op = "create" => i = k
      BY <1>2 DEF OneCreation
    <2>2. CASE UNCHANGED <<row, job, now, paid>>
      BY <1>2, <2>1, <2>2 DEF OneCreation
    <2>3. ASSUME NEW j \in Jobs, Alone(j), UNCHANGED <<row, now, paid>>, job'[j].op \in {job[j].op, NULL}
          PROVE  OneCreation'
      <3>1. \A k \in Jobs : job'[k].op \in {job[k].op, NULL}
        BY <2>3 DEF Alone
      <3> QED BY <1>2, <2>1, <2>3, <3>1 DEF OneCreation, Ops
    <2>4. ASSUME NEW j \in Jobs, Arrive(j) PROVE OneCreation'
      <3>1. Create(j)
        BY <1>2, <2>4 DEF Arrive, Stop, Restart, Delete, AdminRelease, AdminScale, AdminDelete, Sync, Bill, Begin
      <3>2. /\ j \in Requests /\ UNCHANGED <<row, now, paid>> /\ job'[j].op = "create"
            /\ \A k \in Requests : job[k].at = "idle"
        BY <3>1 DEF Create, TypeOK, Idle, ledger
      <3>3. \A k \in Jobs : k # j => job'[k] = job[k] /\ job'[k].op # "create"
        <4>1. \A k \in Jobs : job[k].op # "create"
          BY <2>1, <3>2 DEF JobsInformed, Informed, Jobs, Ops
        <4> QED BY <2>4, <4>1, OthersStay DEF Alone
      <3> QED BY <1>2, <2>1, <3>2, <3>3 DEF OneCreation
    <2>5. ASSUME NEW j \in Jobs, Proceed(j) \/ Lose(j) PROVE OneCreation'
      <3>1. Alone(j) /\ job'[j].op \in {job[j].op, NULL}
        BY <2>5, OthersStay, OpStays
      <3>2. job[j].op = "create"
        <4>1. job[j].at # "idle"
          BY <2>5 DEF Lose, Proceed, Build, CommitCreate, ScaleDown, ScaleUp, CommitStop, CommitRestart, CommitDelete,
                      Remove, FinishDelete, FindLinked, CommitScale, DeleteDep, CommitAdminDelete, Look, Skip,
                      CommitSync, ReadBill, ForceStop, CommitHourly, CommitPrepaid, At
        <4> QED BY <2>1, <4>1 DEF JobsInformed, Informed
      <3>3. CASE CommitCreate(j)
        <4>1. row'.status # NULL
          <5>1. job[j] \in Job /\ job[j].seen \in Row /\ job[j].seen.status = "creating"
            BY <3>2, Typed DEF JobsInformed, Informed
          <5> QED BY <3>3, <5>1, Typed DEF CommitCreate, Insert, Row, Statuses
        <4>2. job'[j].op = NULL
          BY <3>3, MoveAt DEF CommitCreate
        <4>3. \A k \in Jobs : job'[k].op # "create"
          BY <2>1, <3>1, <3>2, <4>2 DEF Alone, Ops
        <4> QED BY <4>1, <4>3 DEF OneCreation
      <3>4. CASE UNCHANGED <<row, now, paid>>
        BY <2>3, <3>1, <3>4
      <3>5. job[j].at \in {"build", "commitCreate", "buildError"}
        BY <3>2 DEF JobsInformed, Informed
      <3>6. Build(j) \/ CommitCreate(j) \/ Lose(j)
        BY <2>5, <3>2, <3>5 DEF Proceed, Build, CommitCreate, ScaleDown, ScaleUp, CommitStop, CommitRestart,
                      CommitDelete, Remove, FinishDelete, FindLinked, CommitScale, DeleteDep, CommitAdminDelete, Look,
                      Skip, CommitSync, ReadBill, ForceStop, CommitHourly, CommitPrepaid, At
      <3> QED BY <3>3, <3>4, <3>6 DEF Build, Lose, ledger
    <2>6. CASE Roll \/ Replaced \/ Tick \/ UNCHANGED vars
      BY <1>2, <2>2, <2>6 DEF Roll, Replaced, Kubernetes, Tick, vars, ledger
    <2> QED BY <2>4, <2>5, <2>6 DEF Next
  <1> QED BY <1>1, <1>2

-----------------------------------------------------------------------------
\* A settlement on the row as it is charges only minutes that are due.
LEMMA SettlementIsDue ==
    ASSUME TypeOK, MeterIsRight, NEW j \in Jobs, Informed(j), Settling(job[j]), ~disturbed, ~Outdated(j)
    PROVE  Settlement(job[j].seen, job[j].when) \subseteq due
  <1>1. /\ job[j].seen = row /\ job[j].when \in Int /\ job[j].when <= now /\ now \in Int
    <2>1. job[j].when # NULL /\ job[j].when <= now
      BY DEF Informed
    <2> QED BY <2>1 DEF Outdated, TypeOK, Job, Time, Minute
  <1>2. row.lastBilled # NULL => row.lastBilled \in Int
    BY DEF TypeOK, Row, Time, Minute
  <1>3. CASE Settles(row) /\ row.status = "running"
    BY <1>1, <1>2, <1>3 DEF Settlement, Settles, MeterIsRight
  <1>4. CASE ~(Settles(row) /\ row.status = "running")
    BY <1>1, <1>4 DEF Settlement, Settles, MeterIsRight
  <1> QED BY <1>3, <1>4

\* What an undisturbed account shows afterwards.
LEMMA AccountSteps ==
    ASSUME NEW j, NEW found, NEW charged, NEW periods, Account(j, found, charged, periods), ~disturbed'
    PROVE  /\ ~disturbed /\ ~Outdated(j)
           /\ due' = (due \cup found) \ charged
           /\ ~overcharged /\ charged \subseteq due => ~overcharged'
           /\ paid' = paid + periods
  <1>1. ~disturbed /\ ~Outdated(j) /\ (~overcharged /\ charged \subseteq due => ~overcharged')
    BY Zenon DEF Account
  <1> QED BY <1>1 DEF Account

\* The meter and the bill of a metered instance.
BillIsRight == MeterIsRight /\ BilledAsItRan

LEMMA SettleStep ==
    ASSUME TypeOK, BillIsRight, NEW j \in Jobs, Informed(j), Settling(job[j]),
           NEW status \in {"stopped", "releasing", "released"}, SettleAndSave(j, status)
    PROVE  BillIsRight'
  <1> SUFFICES ASSUME ~disturbed' PROVE BillIsRight'
    BY DEF BillIsRight, MeterIsRight, BilledAsItRan
  <1> DEFINE charged == Settlement(job[j].seen, job[j].when)
  <1>1. Account(j, {}, charged, 0)
    BY DEF SettleAndSave, Save
  <1> HIDE DEF charged
  <1>2. ~disturbed /\ ~Outdated(j) /\ (~overcharged /\ charged \subseteq due => ~overcharged')
    BY <1>1, AccountSteps
  <1>3. charged \subseteq due
    BY <1>2, SettlementIsDue DEF BillIsRight, charged
  <1>4. ~overcharged'
    BY <1>2, <1>3 DEF BillIsRight, BilledAsItRan
  <1>5. row \in Row /\ row = job[j].seen /\ row' = Settled(j, status)
    BY <1>2 DEF TypeOK, Outdated, SettleAndSave, Save
  <1>6. row'.status = status /\ (~row'.prepaid => row'.lastBilled = NULL)
    BY <1>5 DEF Settled, Settles, Row
  <1> QED BY <1>4, <1>6 DEF BillIsRight, MeterIsRight, BilledAsItRan

LEMMA ProceedBill ==
    ASSUME TypeOK, OneCreation, JobsInformed, BillIsRight, NEW j \in Jobs, Proceed(j)
    PROVE  BillIsRight'
  <1> SUFFICES ASSUME ~disturbed' PROVE BillIsRight'
    BY DEF BillIsRight, MeterIsRight, BilledAsItRan
  <1> USE LifeAssumption
  <1>1. ~disturbed /\ ~overcharged /\ now' = now
    BY OthersStay DEF Alone, BillIsRight, BilledAsItRan
  <1>2. /\ now \in Int /\ now # NULL /\ row \in Row /\ Informed(j) /\ job[j] \in Job /\ job[j].seen \in Row
        /\ ~row.prepaid => /\ row.status = "stopped" => row.lastBilled = NULL
                           /\ row.status = "running" => /\ row.lastBilled # NULL /\ row.lastBilled <= now
                                                       /\ row.lastBilled .. (now - 1) \subseteq due
    BY <1>1, Typed DEF JobsInformed, BillIsRight, MeterIsRight
  <1>3. ASSUME ~overcharged', row'.prepaid = row.prepaid,
               \/ row.prepaid
               \/ row'.status = row.status /\ row'.lastBilled = row.lastBilled /\ due' = due
               \/ row'.status \notin {"running", "stopped"}
               \/ row'.status = "stopped" /\ row'.lastBilled = NULL
        PROVE  BillIsRight'
    BY <1>1, <1>2, <1>3 DEF BillIsRight, MeterIsRight, BilledAsItRan
  <1>4. CASE CommitStop(j) \/ CommitScale(j) \/ CommitAdminDelete(j) \/ CommitDelete(j)
    <2>1. Settling(job[j]) /\ \E status \in {"stopped", "releasing", "released"} : SettleAndSave(j, status)
      BY <1>4 DEF CommitStop, CommitScale, CommitAdminDelete, CommitDelete, Settling, At
    <2> QED BY <1>2, <2>1, SettleStep
  <1>5. CASE CommitCreate(j)
    <2>1. job[j].seen.status = "creating" /\ overcharged' = overcharged
      BY <1>2, <1>5 DEF CommitCreate, Informed
    <2>2. row'.status \in {"creating", "error"}
      BY <1>2, <1>5, <2>1 DEF CommitCreate, Insert, Row
    <2>3. ~overcharged'
      BY <1>1, <2>1
    <2> QED BY <2>2, <2>3 DEF BillIsRight, MeterIsRight, BilledAsItRan
  <1>6. CASE CommitRestart(j)
    <2>1. ~overcharged'
      <3>1. Account(j, {}, {}, 0) /\ {} \subseteq due
        BY <1>6 DEF CommitRestart, Save
      <3> QED BY <1>1, <3>1, AccountSteps
    <2>2. row'.status \in {"creating", "error"} /\ row'.prepaid = row.prepaid
      BY <1>2, <1>6 DEF CommitRestart, Save, Row
    <2> QED BY <1>3, <2>1, <2>2
  <1>7. CASE FinishDelete(j)
    <2>1. row'.status = "released" /\ row'.prepaid = row.prepaid /\ overcharged' = overcharged
      BY <1>2, <1>7 DEF FinishDelete, Row, ledger
    <2>2. ~overcharged'
      BY <1>1, <2>1
    <2> QED BY <1>3, <2>1, <2>2
  <1>8. CASE CommitSync(j) /\ job[j].to # NULL
    <2> DEFINE to == job[j].to
               t  == job[j].when
               found == Found(j)
    <2>1. row' = Aligned(j) /\ Account(j, found, {}, 0)
      BY <1>8 DEF CommitSync
    <2> HIDE DEF found
    <2>2. row = job[j].seen /\ ~overcharged' /\ due' = due \cup found
      <3>1. /\ ~disturbed /\ ~Outdated(j) /\ due' = (due \cup found) \ {}
            /\ ~overcharged /\ {} \subseteq due => ~overcharged'
        BY <2>1, AccountSteps
      <3> QED BY <1>1, <3>1 DEF Outdated
    <2>3. /\ to \in {"creating", "running", "error"}
          /\ to = "running" => t # NULL /\ t <= now
      BY <1>2, <1>8 DEF CommitSync, At, Informed
    <2>4. row'.status = to /\ row'.prepaid = row.prepaid
      BY <1>2, <2>1, <2>2 DEF Aligned, Row
    <2>5. CASE to # "running" \/ row.prepaid
      BY <1>3, <2>2, <2>3, <2>4, <2>5
    <2>6. CASE to = "running" /\ ~row.prepaid /\ row.status = "running"
      <3>1. row'.lastBilled = row.lastBilled /\ found = {}
        BY <1>2, <2>1, <2>2, <2>6 DEF Aligned, Metered, Row, found, Found
      <3> QED BY <1>3, <2>2, <2>4, <2>6, <3>1
    <2>7. CASE to = "running" /\ ~row.prepaid /\ row.status # "running"
      <3>1. found = t .. (now - 1) /\ t # NULL /\ t <= now
        BY <2>2, <2>3, <2>7 DEF found, Found
      <3>2. row'.lastBilled = t
        <4>1. Metered(row, to, t) = t
          BY <2>7 DEF Metered
        <4> QED BY <1>2, <2>1, <2>2, <2>7, <3>1, <4>1 DEF Aligned, Row
      <3>3. t .. (now - 1) \subseteq due'
        BY <2>2, <3>1
      <3> QED BY <1>1, <2>2, <2>4, <2>7, <3>1, <3>2, <3>3 DEF BillIsRight, MeterIsRight, BilledAsItRan
    <2> QED BY <2>5, <2>6, <2>7
  <1>9. CASE CommitHourly(j)
    <2> DEFINE when == job[j].when
               minutes == row.lastBilled .. (when - 1)
    <2>1. PICK r : /\ r = (IF job[j].to = "stopped" THEN [row EXCEPT !.status = "stopped", !.lastBilled = NULL]
                           ELSE [row EXCEPT !.lastBilled = when])
                   /\ row' = r /\ Account(j, {}, MeterStart(job[j].seen, when) .. (when - 1), 0)
      BY <1>9 DEF CommitHourly, Save
    <2>2. /\ row = job[j].seen /\ due' = due \ (MeterStart(row, when) .. (when - 1))
          /\ ~overcharged /\ MeterStart(row, when) .. (when - 1) \subseteq due => ~overcharged'
      <3> DEFINE charged == MeterStart(job[j].seen, when) .. (when - 1)
      <3>1. Account(j, {}, charged, 0)
        BY <2>1
      <3> HIDE DEF charged
      <3>2. /\ ~Outdated(j) /\ due' = (due \cup {}) \ charged
            /\ ~overcharged /\ charged \subseteq due => ~overcharged'
        BY <3>1, AccountSteps
      <3>3. row = job[j].seen
        BY <3>2 DEF Outdated
      <3>4. due' = due \ charged
        BY <3>2
      <3> QED BY <3>2, <3>3, <3>4 DEF charged
    <2>3. /\ ~row.prepaid /\ row.status = "running" /\ when # NULL /\ when <= now /\ row.lastBilled <= when
          /\ row.lastBilled # NULL /\ row.lastBilled .. (now - 1) \subseteq due
      BY <1>1, <1>2, <1>9, <2>2 DEF CommitHourly, At, Informed, Charging
    <2>4. row.lastBilled \in Int /\ when \in Int
      BY <1>2, <2>3 DEF Row, Time, Minute, Job
    <2>5. MeterStart(row, when) = row.lastBilled
      BY <2>3 DEF MeterStart
    <2>6. minutes \subseteq due
      BY <1>2, <2>3, <2>4
    <2>7. ~overcharged' /\ due' = due \ minutes
      BY <1>1, <2>2, <2>5, <2>6
    <2>8. CASE job[j].to = "stopped"
      <3>1. row'.status = "stopped" /\ row'.lastBilled = NULL /\ row'.prepaid = row.prepaid
        BY <1>2, <2>1, <2>8 DEF Row
      <3> QED BY <1>3, <2>7, <3>1
    <2>9. CASE job[j].to # "stopped"
      <3>1. row'.status = "running" /\ row'.lastBilled = when /\ row'.prepaid = row.prepaid
        BY <1>2, <2>1, <2>3, <2>9 DEF Row
      <3>2. when .. (now - 1) \subseteq due'
        BY <1>2, <2>3, <2>4, <2>7
      <3> QED BY <1>1, <2>3, <2>7, <3>1, <3>2 DEF BillIsRight, MeterIsRight, BilledAsItRan
    <2> QED BY <2>8, <2>9
  <1>10. CASE CommitPrepaid(j)
    <2>1. PICK periods \in Nat : Account(j, {}, {}, periods)
      BY <1>10 DEF CommitPrepaid
    <2>2. ~Outdated(j) /\ ~overcharged'
      BY <1>1, <2>1, AccountSteps
    <2>3. row = job[j].seen
      BY <2>2 DEF Outdated
    <2>4. row.prepaid /\ row'.prepaid = row.prepaid
      BY <1>2, <1>10, <2>3 DEF CommitPrepaid, Row
    <2> QED BY <1>3, <2>2, <2>4
  <1>11. CASE UNCHANGED <<row, ledger>>
    <2>1. row' = row /\ due' = due /\ overcharged' = overcharged
      BY <1>11 DEF ledger
    <2>2. ~overcharged'
      BY <1>1, <2>1
    <2> QED BY <1>3, <2>1, <2>2
  <1> QED BY <1>4, <1>5, <1>6, <1>7, <1>8, <1>9, <1>10, <1>11
      DEF Proceed, Build, ScaleDown, ScaleUp, Remove, FindLinked, DeleteDep, Look, Skip, CommitSync, ReadBill,
          ForceStop, ledger

LEMMA BillStep ==
    ASSUME TypeOK, OneCreation, JobsInformed, BillIsRight, [Next]_vars
    PROVE  BillIsRight'
  <1> USE LifeAssumption
  <1>1. ASSUME UNCHANGED <<row, now, due, overcharged, disturbed>> PROVE BillIsRight'
    BY <1>1 DEF BillIsRight, MeterIsRight, BilledAsItRan
  <1>2. ASSUME NEW j \in Jobs, Arrive(j) \/ Lose(j) PROVE BillIsRight'
    BY <1>1, <1>2 DEF Arrive, Create, Stop, Restart, Delete, AdminRelease, AdminScale, AdminDelete, Sync, Bill, Begin,
                      Lose, ledger
  <1>3. CASE Tick
    <2>1. /\ row' = row /\ overcharged' = overcharged /\ disturbed' = disturbed
          /\ now' = now + 1 /\ now \in Int
      BY <1>3 DEF Tick, TypeOK, Minute
    <2>2. ASSUME ~row.prepaid, ~disturbed, row.status = "running"
          PROVE  /\ row.lastBilled # NULL /\ row.lastBilled <= now + 1
                 /\ row.lastBilled .. ((now + 1) - 1) \subseteq due'
      <3>1. due' = due \cup {now}
        BY <1>3, <2>2 DEF Tick
      <3>2. /\ row.lastBilled # NULL /\ row.lastBilled \in Int /\ row.lastBilled <= now
            /\ row.lastBilled .. (now - 1) \subseteq due
        BY <2>2 DEF BillIsRight, MeterIsRight, TypeOK, Row, Time, Minute
      <3> QED BY <2>1, <3>1, <3>2
    <2> QED BY <2>1, <2>2 DEF BillIsRight, MeterIsRight, BilledAsItRan
  <1>4. CASE Roll \/ Replaced \/ UNCHANGED vars
    BY <1>1, <1>4 DEF Roll, Replaced, Kubernetes, vars, ledger
  <1> QED BY <1>2, <1>3, <1>4, ProceedBill DEF Next

-----------------------------------------------------------------------------
LEMMA PaidStep ==
    ASSUME TypeOK, OneCreation, JobsInformed, PeriodsPaidFor, [Next]_vars
    PROVE  PeriodsPaidFor'
  <1> SUFFICES ASSUME ~disturbed' PROVE PeriodsPaidFor'
    BY DEF PeriodsPaidFor
  <1> USE LifeAssumption
  <1>1. row \in Row /\ now \in Nat /\ paid \in Nat /\ NULL \notin Int
    BY DEF TypeOK, Minute
  <1>2. ASSUME UNCHANGED <<row, paid>>, disturbed => disturbed' PROVE PeriodsPaidFor'
    BY <1>2 DEF PeriodsPaidFor
  <1>3. ASSUME NEW j \in Jobs, Arrive(j) \/ Lose(j) PROVE PeriodsPaidFor'
    <2>1. UNCHANGED <<row, paid>>
      BY <1>3 DEF Arrive, Create, Stop, Restart, Delete, AdminRelease, AdminScale, AdminDelete, Sync, Bill, Begin,
                  Lose, ledger
    <2> QED BY <1>2, <1>3, <2>1, OthersStay DEF Alone
  <1>4. ASSUME NEW j \in Jobs, Proceed(j) PROVE PeriodsPaidFor'
    <2>1. ~disturbed /\ Informed(j) /\ job[j] \in Job /\ job[j].seen \in Row /\ job[j].when \in Time
      BY <1>4, OthersStay, Typed DEF Alone, JobsInformed
    <2>2. ASSUME row'.prepaid = row.prepaid, row'.named = row.named, row'.expiredAt = row.expiredAt, paid' = paid
          PROVE  PeriodsPaidFor'
      BY <2>1, <2>2 DEF PeriodsPaidFor
    <2>3. CASE CommitCreate(j)
      <3>1. /\ ~job[j].seen.named /\ (job[j].seen.prepaid => job[j].seen.expiredAt = Period)
            /\ job[j].op = "create" /\ paid = 0
        BY <2>1, <2>3 DEF CommitCreate, Informed, OneCreation
      <3>2. row'.prepaid /\ row'.named => paid' = 1 /\ row'.expiredAt = Period
        BY <2>1, <2>3, <3>1 DEF CommitCreate, Insert, Row
      <3> QED BY <3>2 DEF PeriodsPaidFor
    <2>4. CASE CommitPrepaid(j)
      <3>1. PICK periods \in Nat : Account(j, {}, {}, periods) /\ (periods = IF job[j].to = "expired" THEN 0 ELSE 1)
        BY <2>4 DEF CommitPrepaid
      <3>2. ~Outdated(j) /\ paid' = paid + periods
        BY <3>1, AccountSteps
      <3>3. row = job[j].seen
        BY <3>2 DEF Outdated
      <3>4. CASE job[j].to = "expired"
        <4>1. /\ row'.prepaid = row.prepaid /\ row'.named = row.named /\ row'.expiredAt = row.expiredAt
              /\ paid' = paid
          BY <1>1, <2>4, <3>1, <3>2, <3>4 DEF CommitPrepaid, Row
        <4> QED BY <2>2, <4>1
      <3>5. CASE job[j].to # "expired"
        <4>1. /\ row'.prepaid = row.prepaid /\ row'.named = row.named
              /\ row'.expiredAt = NextExpiry(row, job[j].when) /\ paid' = paid + 1
          BY <1>1, <2>4, <3>1, <3>2, <3>3, <3>5 DEF CommitPrepaid, Row
        <4>2. SUFFICES ASSUME row.prepaid, row.named PROVE row'.expiredAt = paid' * Period
          BY <4>1 DEF PeriodsPaidFor
        <4>3. row.expiredAt = paid * Period /\ paid * Period \in Int
          BY <1>1, <2>1, <4>2 DEF PeriodsPaidFor
        <4>4. row'.expiredAt = paid * Period + Period
          BY <1>1, <4>1, <4>3 DEF NextExpiry
        <4> QED BY <1>1, <4>1, <4>4
      <3> QED BY <3>4, <3>5
    <2>5. CASE CommitStop(j) \/ CommitScale(j) \/ CommitAdminDelete(j) \/ CommitDelete(j)
      <3>1. PICK status \in Statuses : SettleAndSave(j, status)
        BY <2>5 DEF CommitStop, CommitScale, CommitAdminDelete, CommitDelete, Statuses
      <3>2. paid' = paid + 0
        BY <3>1, AccountSteps DEF SettleAndSave, Save
      <3> QED BY <1>1, <2>2, <3>1, <3>2, SettlesTo
    <2>6. CASE CommitRestart(j) \/ CommitHourly(j)
      <3>1. paid' = paid + 0
        BY <2>6, AccountSteps DEF CommitRestart, CommitHourly, Save
      <3>2. row'.prepaid = row.prepaid /\ row'.named = row.named /\ row'.expiredAt = row.expiredAt
        BY <1>1, <2>6 DEF CommitRestart, CommitHourly, Save, Row
      <3> QED BY <1>1, <2>2, <3>1, <3>2
    <2>7. CASE CommitSync(j) /\ job[j].to # NULL
      <3>1. row' = Aligned(j) /\ Account(j, Found(j), {}, 0)
        BY <2>7 DEF CommitSync
      <3>2. paid' = paid + 0
        BY <3>1, AccountSteps
      <3>3. row'.prepaid = row.prepaid /\ row'.named = row.named /\ row'.expiredAt = row.expiredAt
        BY <1>1, <3>1 DEF Aligned, Row
      <3> QED BY <1>1, <2>2, <3>2, <3>3
    <2>8. CASE FinishDelete(j)
      <3>1. /\ row'.prepaid = row.prepaid /\ row'.named = row.named /\ row'.expiredAt = row.expiredAt
            /\ paid' = paid
        BY <1>1, <2>8 DEF FinishDelete, ledger, Row
      <3> QED BY <2>2, <3>1
    <2>9. CASE UNCHANGED <<row, ledger>>
      BY <1>2, <2>1, <2>9 DEF ledger
    <2> QED BY <1>4, <2>3, <2>4, <2>5, <2>6, <2>7, <2>8, <2>9
        DEF Proceed, Build, ScaleDown, ScaleUp, Remove, FindLinked, DeleteDep, Look, Skip, CommitSync, ReadBill,
            ForceStop, ledger
  <1>5. CASE Roll \/ Replaced \/ Tick \/ UNCHANGED vars
    BY <1>2, <1>5 DEF Roll, Replaced, Kubernetes, Tick, vars, ledger
  <1> QED BY <1>3, <1>4, <1>5 DEF Next

-----------------------------------------------------------------------------
\* A deletion in Kubernetes leaves nothing, or the flag is up.
LEMMA RemovalCleans ==
    ASSUME TypeOK, NEW j \in Jobs, Remove(j) \/ (DeleteDep(j) /\ Goto(j, "commit"))
    PROVE  leaked' \/ Clean'
  <1>1. CASE Remove(j)
    <2>1. PICK k \in SUBSET kept : Leave(k, k # {} \/ dep' # "none")
      BY <1>1 DEF Remove, Removal
    <2>2. CASE k # {} \/ dep' # "none"
      BY <2>1, <2>2, Zenon DEF Leave
    <2>3. CASE k = {} /\ dep' = "none"
      BY <2>1, <2>3 DEF Leave, Clean
    <2> QED BY <2>2, <2>3
  <1>2. CASE DeleteDep(j) /\ Goto(j, "commit")
    <2>1. ~Finish(j)
      BY <1>2, MoveAt
    <2>2. dep' = "none" /\ leaked' = (leaked \/ kept' # {})
      BY <1>2, <2>1 DEF DeleteDep
    <2>3. leaked' \/ kept' = {}
      BY <2>2, Zenon
    <2> QED BY <2>2, <2>3 DEF Clean
  <1> QED BY <1>1, <1>2

\* Once the row is committed, no step makes a Kubernetes resource.
LEMMA NothingComesBack ==
    ASSUME TypeOK, OneCreation, JobsInformed, [Next]_vars, row.status # NULL
    PROVE  (leaked => leaked') /\ (leaked \/ Clean => leaked' \/ Clean')
  <1>1. ASSUME NEW k \in SUBSET kept, NEW wrong, Leave(k, wrong), dep' = dep
        PROVE  (leaked => leaked') /\ (leaked \/ Clean => leaked' \/ Clean')
    <2>1. leaked => leaked'
      BY <1>1, Zenon DEF Leave
    <2>2. Clean => leaked' \/ Clean'
      BY <1>1 DEF Leave, Clean
    <2> QED BY <2>1, <2>2
  <1>2. ASSUME leaked' = leaked, kept' = kept, dep = "none" => dep' = "none"
        PROVE  (leaked => leaked') /\ (leaked \/ Clean => leaked' \/ Clean')
    <2>1. leaked => leaked'
      BY <1>2, Zenon
    <2>2. Clean => Clean'
      BY <1>2 DEF Clean
    <2> QED BY <2>1, <2>2
  <1>3. ASSUME NEW j \in Jobs, Arrive(j) PROVE leaked' = leaked /\ kept' = kept /\ (dep = "none" => dep' = "none")
    BY <1>3 DEF Arrive, Create, Stop, Restart, Delete, AdminRelease, AdminScale, AdminDelete, Sync, Bill, Begin
  <1>4. ASSUME NEW j \in Jobs, Proceed(j)
        PROVE  (leaked => leaked') /\ (leaked \/ Clean => leaked' \/ Clean')
    <2>1. ~Build(j)
      BY DEF OneCreation, Build, At
    <2>2. CASE ScaleDown(j) \/ ScaleUp(j) \/ ForceStop(j)
      <3>1. dep = "none" => dep' = "none"
        BY <2>2 DEF ScaleDown, ScaleUp, ForceStop, Scale, Down, Up
      <3> QED BY <1>2, <2>2, <3>1 DEF ScaleDown, ScaleUp, ForceStop
    <2>3. CASE Remove(j)
      BY <1>4, <2>3, RemovalCleans, OthersStay DEF Alone
    <2>4. CASE DeleteDep(j)
      <3>1. CASE Goto(j, "commit")
        BY <1>4, <2>4, <3>1, RemovalCleans, OthersStay DEF Alone
      <3>2. CASE dep' \in {dep, "none"} /\ UNCHANGED <<kept, leaked>>
        BY <1>2, <3>2
      <3> QED BY <2>4, <3>1, <3>2 DEF DeleteDep
    <2>5. CASE UNCHANGED <<kept, dep, leaked>>
      BY <1>2, <2>5
    <2> QED BY <1>4, <2>1, <2>2, <2>3, <2>4, <2>5
        DEF Proceed, CommitCreate, CommitStop, CommitRestart, CommitDelete, FinishDelete, FindLinked, CommitScale,
            CommitAdminDelete, Look, Skip, CommitSync, ReadBill, CommitHourly, CommitPrepaid, SettleAndSave, Save
  <1>5. ASSUME NEW j \in Jobs, Lose(j) PROVE (leaked => leaked') /\ (leaked \/ Clean => leaked' \/ Clean')
    <2>1. dep' = dep /\ Leave(kept, job[j].at \in {"commitCreate", "buildError", "cleanup"}) /\ kept \in SUBSET kept
      BY <1>5 DEF Lose
    <2> QED BY <1>1, <2>1
  <1>6. CASE Roll \/ Replaced \/ Tick \/ UNCHANGED vars
    BY <1>2, <1>6 DEF Roll, Replaced, Kubernetes, Tick, vars
  <1> QED BY <1>2, <1>3, <1>4, <1>5, <1>6 DEF Next

\* The jobs that have deleted what there was.
Removed(j) == At(j, "delete", "finish") \/ At(j, "adminDelete", "commit")

LEMMA RemovedClean ==
    ASSUME TypeOK, JobsInformed, NEW j \in Jobs, Arrive(j) \/ Proceed(j) \/ Lose(j), Removed(j)',
           ~Removed(j)
    PROVE  leaked' \/ Clean'
  <1> USE LifeAssumption
  <1>1. /\ \/ job'[j].op = "delete" /\ job'[j].at = "finish"
           \/ job'[j].op = "adminDelete" /\ job'[j].at = "commit"
        /\ Informed(j)
    BY DEF Removed, At, JobsInformed
  <1>2. ~Finish(j)
    BY <1>1, MoveAt DEF Ops
  <1>3. ~Arrive(j)
    <2>1. ASSUME NEW op, NEW step, NEW t, Begin(j, op, step, t) PROVE job'[j].op = op /\ job'[j].at = step
      BY <2>1 DEF Begin, TypeOK
    <2>2. ~Stop(j) /\ ~Restart(j) /\ ~Delete(j) /\ ~AdminRelease(j) /\ ~AdminDelete(j) /\ ~Sync(j) /\ ~Bill(j)
      BY <1>1, <2>1 DEF Stop, Restart, Delete, AdminRelease, AdminDelete, Sync, Bill
    <2>3. ~Create(j) /\ ~AdminScale(j)
      <3>1. ~Create(j)
        BY <1>1 DEF Create, TypeOK, Idle
      <3>2. CASE UNCHANGED job
        BY <1>1, <3>2 DEF Removed, At
      <3>3. ~AdminScale(j)
        BY <1>1, <3>2 DEF AdminScale, TypeOK, Idle
      <3> QED BY <3>1, <3>3
    <2> QED BY <2>2, <2>3 DEF Arrive
  <1>4. job[j].op = job'[j].op /\ Proceed(j)
    BY <1>1, <1>2, <1>3, OpStays DEF Lose, Ops
  <1>5. ~Build(j) /\ ~ScaleDown(j) /\ ~ScaleUp(j) /\ ~FindLinked(j) /\ ~Look(j) /\ ~ReadBill(j) /\ ~ForceStop(j)
    BY <1>1, <1>4 DEF Build, ScaleDown, ScaleUp, FindLinked, Look, ReadBill, ForceStop, At, Informed
  <1>6. ~CommitDelete(j)
    BY <1>1 DEF CommitDelete, TypeOK, Idle
  <1>7. Remove(j) \/ DeleteDep(j)
    BY <1>2, <1>4, <1>5, <1>6 DEF Proceed, CommitCreate, CommitStop, CommitRestart, FinishDelete, CommitScale,
                                  CommitAdminDelete, Skip, CommitSync, CommitHourly, CommitPrepaid
  <1>8. DeleteDep(j) => Goto(j, "commit")
    BY <1>2 DEF DeleteDep
  <1> QED BY <1>7, <1>8, RemovalCleans

\* The step that releases the row.
LEMMA ReleaseStep ==
    ASSUME TypeOK, OneCreation, JobsInformed, NEW j \in Jobs, Proceed(j),
           row'.status = "released", row.status # "released"
    PROVE  Removed(j) \/ job'[j].at = "cleanup"
  <1> USE LifeAssumption
  <1>1. row \in Row /\ Informed(j) /\ job[j].seen \in Row /\ row # row'
    BY Typed DEF JobsInformed
  <1>2. CASE CommitStop(j) \/ CommitScale(j)
    <2>1. SettleAndSave(j, "stopped") /\ "stopped" \in Statuses
      BY <1>2 DEF CommitStop, CommitScale, Statuses
    <2> QED BY <2>1, SettlesTo
  <1>3. CASE CommitDelete(j)
    <2>1. CASE job[j].op = "delete"
      <3>1. SettleAndSave(j, "releasing") /\ "releasing" \in Statuses
        BY <1>3, <2>1 DEF CommitDelete, Statuses
      <3> QED BY <3>1, SettlesTo
    <2>2. CASE job[j].op # "delete"
      BY <1>3, <2>2 DEF CommitDelete, TypeOK, Idle
    <2> QED BY <2>1, <2>2
  <1>4. CASE CommitAdminDelete(j) \/ FinishDelete(j)
    BY <1>4 DEF CommitAdminDelete, FinishDelete, Removed
  <1>5. ~CommitRestart(j) /\ ~CommitHourly(j) /\ ~CommitPrepaid(j)
    BY <1>1 DEF CommitRestart, CommitHourly, CommitPrepaid, Save, Row
  <1>6. ~CommitCreate(j)
    <2>1. CommitCreate(j) => job[j].op = "create" /\ job[j].seen.status = "creating"
      BY <1>1 DEF CommitCreate, Informed
    <2> QED BY <1>1, <2>1 DEF CommitCreate, Insert, Row
  <1>7. ~CommitSync(j)
    BY <1>1 DEF CommitSync, At, Informed, Aligned, Row
  <1> QED BY <1>1, <1>2, <1>3, <1>4, <1>5, <1>6, <1>7
      DEF Proceed, Build, ScaleDown, ScaleUp, Remove, FindLinked, DeleteDep, Look, Skip, ReadBill, ForceStop

LEMMA DeletionStep ==
    ASSUME TypeOK, OneCreation, JobsInformed, MeterIsRight, DeletionIsClean, [Next]_vars
    PROVE  DeletionIsClean'
  <1> USE LifeAssumption
  <1>1. CASE row.status = NULL
    <2>1. ASSUME NEW k \in Jobs PROVE job'[k].op \in {NULL, "create"}
      <3>1. \A j \in Jobs : job[j].op \in {NULL, "create"}
        BY <1>1 DEF OneCreation
      <3>2. ASSUME NEW j \in Jobs, Arrive(j) \/ Proceed(j) \/ Lose(j) PROVE job'[k].op \in {NULL, "create"}
        <4>1. CASE k # j
          BY <3>1, <3>2, <4>1, OthersStay DEF Alone
        <4>2. CASE Arrive(j) /\ k = j
          <5>1. Create(j)
            BY <1>1, <4>2 DEF Arrive, Stop, Restart, Delete, AdminRelease, AdminScale, AdminDelete, Sync, Bill, Begin
          <5> QED BY <4>2, <5>1 DEF Create, TypeOK, Idle
        <4>3. CASE (Proceed(j) \/ Lose(j)) /\ k = j
          BY <3>1, <4>3, OpStays
        <4> QED BY <3>2, <4>1, <4>2, <4>3
      <3>3. CASE UNCHANGED job
        BY <3>1, <3>3
      <3> QED BY <3>2, <3>3 DEF Next, Roll, Replaced, Kubernetes, Tick, vars
    <2>2. row'.status # "released"
      <3>1. CASE row' = row
        BY <1>1, <3>1 DEF Statuses
      <3>2. ASSUME NEW j \in Jobs, Proceed(j), row'.status = "released" PROVE FALSE
        <4>1. job[j].op \in {NULL, "create"} /\ "released" # NULL
          BY <1>1 DEF OneCreation, Statuses
        <4>2. Removed(j) \/ job'[j].at = "cleanup"
          BY <1>1, <3>2, <4>1, ReleaseStep
        <4>3. Informed(j)'
          BY <3>2, ProceedInformed
        <4> QED BY <2>1, <4>1, <4>2, <4>3 DEF Removed, At, Informed, Ops
      <3> QED BY <3>1, <3>2 DEF Next, Arrive, Create, Stop, Restart, Delete, AdminRelease, AdminScale, AdminDelete,
                    Sync, Bill, Begin, Lose, Roll, Replaced, Kubernetes, Tick, vars
    <2> QED BY <2>1, <2>2 DEF DeletionIsClean, At, Ops
  <1>2. CASE row.status # NULL
    <2>1. leaked \/ Clean => leaked' \/ Clean'
      BY <1>2, NothingComesBack
    <2>2. ASSUME UNCHANGED <<row, job>> PROVE DeletionIsClean'
      BY <2>1, <2>2 DEF DeletionIsClean, At
    <2>3. ASSUME NEW j \in Jobs, Arrive(j) \/ Proceed(j) \/ Lose(j), ~(leaked' \/ Clean') PROVE DeletionIsClean'
      <3>1. \A k \in Jobs \ {j} : job'[k] = job[k]
        BY <2>3, OthersStay DEF Alone
      <3>2. ASSUME NEW k \in Jobs PROVE ~Removed(k)'
        <4>1. ~Removed(k)
          BY <2>1, <2>3 DEF DeletionIsClean, Removed
        <4>2. CASE k = j
          BY <2>3, <4>1, <4>2, RemovedClean
        <4>3. CASE k # j
          BY <3>1, <4>1, <4>3 DEF Removed, At
        <4> QED BY <4>2, <4>3
      <3>3. ASSUME row'.status = "released" PROVE \E k \in Jobs : job'[k].at = "cleanup"
        <4>1. CASE row.status = "released"
          <5>1. PICK k \in Jobs : job[k].at = "cleanup"
            BY <2>1, <2>3, <4>1 DEF DeletionIsClean
          <5>2. CASE k # j
            BY <3>1, <5>1, <5>2
          <5>3. CASE k = j
            <6>1. ~Lose(j)
              BY <2>3, <5>1, <5>3, Zenon DEF Lose, Leave
            <6>2. ~Remove(j)
              BY <2>3, RemovalCleans
            <6>3. ~Proceed(j)
              BY <5>1, <5>3, <6>2 DEF Proceed, Build, CommitCreate, ScaleDown, ScaleUp, CommitStop, CommitRestart,
                    CommitDelete, FinishDelete, FindLinked, CommitScale, DeleteDep, CommitAdminDelete, Look, Skip,
                    CommitSync, ReadBill, ForceStop, CommitHourly, CommitPrepaid, At
            <6>4. ~Arrive(j)
              BY <5>1, <5>3 DEF Arrive, Create, Stop, Restart, Delete, AdminRelease, AdminScale, AdminDelete, Sync,
                    Bill, Begin
            <6> QED BY <2>3, <6>1, <6>3, <6>4
          <5> QED BY <5>2, <5>3
        <4>2. CASE row.status # "released"
          <5>1. Proceed(j)
            BY <2>3, <3>3, <4>2 DEF Arrive, Create, Stop, Restart, Delete, AdminRelease, AdminScale, AdminDelete, Sync,
                    Bill, Begin, Lose
          <5>2. ~Removed(j)
            BY <2>1, <2>3 DEF DeletionIsClean, Removed
          <5> QED BY <3>3, <4>2, <5>1, <5>2, ReleaseStep
        <4> QED BY <4>1, <4>2
      <3> QED BY <3>2, <3>3 DEF DeletionIsClean, Removed
    <2>4. CASE leaked' \/ Clean'
      BY <2>4 DEF DeletionIsClean
    <2> QED BY <2>2, <2>3, <2>4 DEF Next, Roll, Replaced, Kubernetes, Tick, vars
  <1> QED BY <1>1, <1>2

-----------------------------------------------------------------------------
LEMMA InitIInv == Init => IInv
  <1> SUFFICES ASSUME Init PROVE IInv
    OBVIOUS
  <1> USE LifeAssumption
  <1>1. \A j \in Jobs : job[j] = Idle
    BY DEF Init
  <1>2. TypeOK
    <2>1. NoRow \in Row
      BY DEF NoRow, Row, Time
    <2>2. Idle \in Job
      BY <2>1 DEF Idle, Job, Time, Steps
    <2>3. /\ job \in [Jobs -> Job] /\ row \in Row /\ kept \subseteq Parts /\ dep \in Deployments
          /\ now \in Minute /\ due \subseteq Minute /\ paid \in Nat
      BY <2>1, <2>2 DEF Init, Deployments, Minute
    <2>4. overcharged \in BOOLEAN /\ leaked \in BOOLEAN /\ disturbed \in BOOLEAN
      BY Zenon DEF Init
    <2> QED BY <2>3, <2>4 DEF TypeOK
  <1>3. OneCreation
    BY <1>1 DEF Init, OneCreation, NoRow, Idle, Ops
  <1>4. JobsInformed
    BY <1>1 DEF JobsInformed, Informed, Settling, Idle, Ops
  <1>5. MeterIsRight
    BY DEF Init, MeterIsRight, NoRow, Statuses
  <1>6. BilledAsItRan /\ PeriodsPaidFor
    <2>1. overcharged = FALSE /\ row.named = FALSE
      BY DEF Init, NoRow
    <2> QED BY <2>1, Zenon DEF BilledAsItRan, PeriodsPaidFor
  <1>7. DeletionIsClean
    BY DEF Init, DeletionIsClean, Clean
  <1> QED BY <1>2, <1>3, <1>4, <1>5, <1>6, <1>7 DEF IInv

LEMMA StepIInv == ASSUME IInv, [Next]_vars PROVE IInv'
  <1>1. /\ TypeOK /\ OneCreation /\ JobsInformed /\ MeterIsRight /\ BillIsRight /\ PeriodsPaidFor
        /\ DeletionIsClean
    BY DEF IInv, BillIsRight
  <1>2. TypeOK' /\ OneCreation' /\ JobsInformed'
    BY <1>1, TypeStep, CreationStep, InformedStep
  <1>3. BillIsRight' /\ PeriodsPaidFor' /\ DeletionIsClean'
    BY <1>1, BillStep, PaidStep, DeletionStep
  <1> QED BY <1>2, <1>3 DEF IInv, BillIsRight

\* The inductive invariant: with the types, what is promised below, that one
\* request creates the row before anything else happens, what each job knows of
\* the row it read, that the meter stands at the first minute not charged, and
\* what the deletions have left.
THEOREM Invariant == Spec => []IInv
  BY InitIInv, StepIInv, PTL DEF Spec

\* Every variable keeps its type: among others, a status that the worker, a
\* request or a settlement writes is one of OpenClawStatus.
THEOREM TypeCorrect == Spec => []TypeOK
  <1>1. IInv => TypeOK
    BY DEF IInv
  <1> QED BY <1>1, Invariant, PTL

\* An hourly instance is charged no minute twice and none in which its row did
\* not say that it runs, by the settlements and the billing together, as long
\* as no job wrote over a change it had not seen.
THEOREM BillsAreTrue == Spec => []BilledAsItRan
  <1>1. IInv => BilledAsItRan
    BY DEF IInv
  <1> QED BY <1>1, Invariant, PTL

\* A prepaid instance that came into being has been charged for exactly the
\* periods that its expired_at grants.
THEOREM PeriodsArePaid == Spec => []PeriodsPaidFor
  <1>1. IInv => PeriodsPaidFor
    BY DEF IInv
  <1> QED BY <1>1, Invariant, PTL

\* Nothing of a released instance is left in Kubernetes once its deletions are
\* done, unless one of them, or its creation, went wrong.
THEOREM ReleasedLeavesNothing == Spec => []ReleasedIsClean
  <1>1. IInv => ReleasedIsClean
    <2> SUFFICES ASSUME IInv, row.status = "released", ~leaked,
                        \A j \in Jobs : job[j].op \notin {"force", "delete", "adminDelete"}
                 PROVE  kept = {} /\ dep = "none"
      BY DEF ReleasedIsClean
    <2>1. ~\E j \in Jobs : job[j].at = "cleanup"
      BY DEF IInv, JobsInformed, Informed
    <2> QED BY <2>1 DEF IInv, DeletionIsClean, Clean
  <1> QED BY <1>1, Invariant, PTL

\* A step that takes an instance out of its release is a write on a row read
\* before, or the administrator's scaling of its Deployment.
LEMMA ComebackStep ==
    ASSUME IInv, Next, row.status = "released", row'.status \notin Deleted
    PROVE  \E j \in Jobs : \/ job[j].seen.status \notin {NULL, "released", "releasing"}
                           \/ At(j, "scale", "commit")
  <1> USE LifeAssumption
  <1>1. row \in Row /\ row' # row /\ row.status # NULL
    BY DEF IInv, TypeOK, Deleted, Statuses
  <1>2. PICK j \in Jobs : Proceed(j)
    BY <1>1 DEF Next, Arrive, Create, Stop, Restart, Delete, AdminRelease, AdminScale, AdminDelete, Sync, Bill,
                Begin, Lose, Roll, Replaced, Kubernetes, Tick
  <1>3. Informed(j) /\ NULL \notin Statuses
    BY DEF IInv, JobsInformed
  <1>4. CASE CommitStop(j) \/ CommitRestart(j) \/ CommitSync(j) \/ CommitHourly(j) \/ CommitPrepaid(j)
    <2>1. \/ job[j].seen.status \in {"running", "error"} \cup Watched
          \/ Charging(j)
      BY <1>3, <1>4 DEF CommitStop, CommitRestart, CommitSync, CommitHourly, CommitPrepaid, At, Informed
    <2> QED BY <1>3, <2>1 DEF Watched, Charging, Deleted, Statuses
  <1>5. CASE CommitScale(j)
    BY <1>5 DEF CommitScale
  <1>6. ~CommitDelete(j) /\ ~CommitAdminDelete(j)
    <2>1. ASSUME NEW status \in {"releasing", "released"}, SettleAndSave(j, status) PROVE FALSE
      <3>1. row'.status = status \/ row'.status = row.status
        BY <2>1, SettlesTo DEF IInv, Statuses
      <3> QED BY <3>1 DEF Deleted
    <2> QED BY <2>1 DEF CommitDelete, CommitAdminDelete
  <1>7. ~FinishDelete(j)
    BY <1>1 DEF FinishDelete, Row, Deleted
  <1>8. ~CommitCreate(j)
    BY <1>1, <1>3 DEF CommitCreate, Informed, IInv, OneCreation
  <1> QED BY <1>1, <1>2, <1>4, <1>5, <1>6, <1>7, <1>8
      DEF Proceed, Build, ScaleDown, ScaleUp, Remove, FindLinked, DeleteDep, Look, Skip, ReadBill, ForceStop

\* No request and no job that begins after a release brings the instance back,
\* but the administrator's scaling to 0.
THEOREM ReleasedStaysReleased == Spec => ReleasedStays
  <1>1. IInv /\ [Next]_vars => [KeepsReleased]_vars
    BY ComebackStep DEF KeepsReleased, ComesBackFor, Deleted
  <1> QED BY <1>1, Invariant, PTL DEF Spec, ReleasedStays

=============================================================================
