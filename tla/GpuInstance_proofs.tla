------------------------- MODULE GpuInstance_proofs -------------------------
(***************************************************************************)
(* What GpuInstance guarantees for every number of requests and worker     *)
(* jobs, every period, timeout and clock: types, the bill of a metered     *)
(* instance, the periods of a prepaid one and its expiry.                  *)
(***************************************************************************)
EXTENDS GpuInstance, TLAPS

\* A job begins: it remembers the row, and the time if it will need it.
LEMMA BeginTypes ==
    ASSUME TypeOK, NEW j, NEW op \in AllOps, NEW step \in Steps, NEW t \in Time, Begin(j, op, step, t)
    PROVE  job' \in [Jobs -> Job]
  BY DEF TypeOK, Begin, Job, Jobs

LEMMA ArriveTypes == ASSUME TypeOK, NEW j \in Jobs, Arrive(j) PROVE TypeOK'
  <1> USE ConstantsAssumption DEF TypeOK
  <1>1. now \in Time /\ NULL \in Time
    BY DEF Time
  <1>2. CASE Create(j)
    <2>1. row' \in Row
      BY <1>2 DEF Create, NoRow, Row, Statuses, Time
    <2>2. job' \in [Jobs -> Job]
      BY <1>2, <1>1 DEF Create, Idle, Job, AllOps, RequestOps, Steps, NoRow, Row
    <2> QED BY <1>2, <2>1, <2>2 DEF Create, ledger
  <1>3. ASSUME UNCHANGED <<row, dep, now, ledger, disturbed>>,
               \E op \in AllOps, step \in Steps, t \in Time : Begin(j, op, step, t)
        PROVE  TypeOK'
    BY <1>3, BeginTypes DEF ledger
  <1>4. CASE Start(j) \/ Stop(j) \/ ForceDelete(j) \/ Release(j) \/ Renew(j)
    BY <1>1, <1>3, <1>4 DEF Start, Stop, ForceDelete, Release, Renew, AllOps, RequestOps, Steps
  <1>5. CASE ListInstances(j) \/ SyncStatus(j) \/ SelectBill(j)
    BY <1>1, <1>3, <1>5 DEF ListInstances, SyncStatus, SelectBill, AllOps, RequestOps, WorkerOps, Steps
  <1>6. CASE AdminDelete(j)
    BY <1>1, <1>3, <1>6 DEF AdminDelete, AllOps, RequestOps, Steps
  <1>7. CASE AdminScale(j)
    BY <1>7 DEF AdminScale, Scaled, Deployments, Job, AllOps, RequestOps, Steps, ledger
  <1> QED BY <1>2, <1>4, <1>5, <1>6, <1>7 DEF Arrive

\* A job goes on, ends, or leaves its background task behind.
LEMMA MoveTypes ==
    ASSUME TypeOK, NEW j \in Jobs, NEW step \in Steps,
           Goto(j, step) \/ Finish(j) \/ Background(j, step)
    PROVE  job' \in [Jobs -> Job]
  <1>1. Idle \in Job
    BY ConstantsAssumption DEF Idle, Job, NoRow, Row, Time, Steps
  <1>2. CASE Goto(j, step)
    BY <1>2 DEF TypeOK, Goto, Job
  <1>3. CASE Finish(j)
    BY <1>1, <1>3 DEF TypeOK, Finish
  <1>4. CASE Background(j, step)
    <2>1. [Idle EXCEPT !.op = job[j].op, !.at = step] \in Job
      BY <1>1 DEF TypeOK, Job
    <2> QED BY <1>4, <2>1 DEF TypeOK, Background
  <1> QED BY <1>2, <1>3, <1>4

\* Writing a row of the right type keeps the types.
LEMMA SaveTypes == ASSUME TypeOK, NEW j, NEW r \in Row, NEW minutes, Save(j, r, minutes), job' \in [Jobs -> Job]
                   PROVE  TypeOK'
  BY DEF TypeOK, Save

LEMMA OverwriteTypes ==
    ASSUME TypeOK, NEW r \in Row, Overwrite(r), job' \in [Jobs -> Job], disturbed' \in BOOLEAN
    PROVE  TypeOK'
  BY DEF TypeOK, Overwrite, ledger

LEMMA SettledTypes ==
    ASSUME TypeOK, NEW j \in Jobs, NEW status \in Statuses
    PROVE  Settled(j, status) \in Row
  BY ConstantsAssumption DEF TypeOK, Settled, Row, Time

LEMMA ProceedTypes == ASSUME TypeOK, JobsInformed, NEW j \in Jobs, Proceed(j) PROVE TypeOK'
  <1> USE ConstantsAssumption
  <1> DEFINE Stays == UNCHANGED <<row, now, ledger, disturbed>>
  <1>1. /\ now \in Time /\ NULL \in Time /\ job[j] \in Job /\ job[j].seen \in Row
        /\ job[j].when \in Time /\ disturbed \in BOOLEAN
    BY DEF TypeOK, Time, Job
  <1>2. ASSUME Stays, dep' \in Deployments, job' \in [Jobs -> Job] PROVE TypeOK'
    BY <1>2 DEF TypeOK, ledger
  <1>3. ASSUME NEW up \in BOOLEAN PROVE Scaled(up) \in Deployments /\ dep \in Deployments
    BY DEF TypeOK, Scaled, Deployments
  <1>4. \A step \in Steps : Goto(j, step) \/ Finish(j) \/ Background(j, step) => job' \in [Jobs -> Job]
    BY MoveTypes
  <1>5. CASE FirstCharge(j)
    <2>1. job' \in [Jobs -> Job]
      BY <1>4, <1>5 DEF FirstCharge, Steps
    <2>2. row' \in Row /\ paid' \in Nat /\ disturbed' \in BOOLEAN
      BY <1>5 DEF FirstCharge, TypeOK, Row, Minute
    <2> QED BY <1>5, <2>1, <2>2 DEF FirstCharge, TypeOK
  <1>6. CASE Build(j) \/ PodReady(j) \/ PodNotReady(j)
    BY <1>2, <1>3, <1>4, <1>6 DEF Build, PodReady, PodNotReady, Steps, Deployments
  <1>7. CASE ScaleUp(j) \/ ScaleDown(j) \/ Remove(j) \/ DeleteDep(j)
    BY <1>2, <1>3, <1>4, <1>7 DEF ScaleUp, ScaleDown, Remove, DeleteDep, Steps, Deployments
  <1>8. CASE BuildError(j) \/ MarkUp(j) \/ FinishRelease(j)
    <2> DEFINE Up == [row EXCEPT !.status = Marked(j, "running"),
                                 !.startedAt = IF job[j].op = "create" THEN now ELSE @,
                                 !.lastBilled = IF Prepaid THEN @ ELSE now]
    <2>1. \A status \in Statuses : Marked(j, status) \in Statuses \cup {NULL}
      BY DEF Marked, TypeOK, Row
    <2>2. /\ [row EXCEPT !.status = Marked(j, "error")] \in Row
          /\ [row EXCEPT !.status = Marked(j, "released")] \in Row
          /\ Up \in Row
      BY <1>1, <2>1 DEF TypeOK, Row, Statuses
    <2>3. /\ disturbed' \in BOOLEAN /\ job' \in [Jobs -> Job]
          /\ \/ Overwrite([row EXCEPT !.status = Marked(j, "error")])
             \/ Overwrite([row EXCEPT !.status = Marked(j, "released")])
             \/ Overwrite(Up)
      BY <1>1, <1>4, <1>8 DEF BuildError, MarkUp, FinishRelease, Steps
    <2> HIDE DEF Up
    <2> QED BY <2>2, <2>3, OverwriteTypes
  <1>9. CASE MarkStarting(j)
    <2>1. [row EXCEPT !.status = "starting", !.startedAt = now] \in Row
      BY <1>1 DEF TypeOK, Row, Statuses
    <2> QED BY <1>4, <1>9, <2>1, SaveTypes DEF MarkStarting, Steps
  <1>10. CASE CommitStop(j) \/ CommitForce(j) \/ CommitRelease(j) \/ CommitScale(j) \/ CommitDelete(j)
    <2>1. job' \in [Jobs -> Job]
      BY <1>4, <1>10 DEF CommitStop, CommitForce, CommitRelease, CommitScale, CommitDelete, Steps
    <2>2. PICK status \in Statuses : SettleAndSave(j, status)
      BY <1>10 DEF CommitStop, CommitForce, CommitRelease, CommitScale, CommitDelete, Statuses
    <2> QED BY <2>1, <2>2, SaveTypes, SettledTypes DEF SettleAndSave
  <1>11. CASE CommitRenew(j)
    <2>1. Extended(job[j].seen.expiredAt, job[j].when) \in 0 .. MaxExpiry
      BY <1>1, <1>11 DEF CommitRenew, At, JobsInformed, Informed, TimedSteps, Extended, Row, Time, Minute
    <2>2. row' \in Row
      BY <1>11, <2>1 DEF CommitRenew, TypeOK, Row, Statuses
    <2>3. job' \in [Jobs -> Job] /\ disturbed' \in BOOLEAN /\ paid' \in Nat
      BY <1>1, <1>4, <1>11 DEF CommitRenew, TypeOK, Steps
    <2> QED BY <1>11, <2>2, <2>3 DEF CommitRenew, TypeOK
  <1>12. CASE FindLinked(j)
    <2>1. job' \in [Jobs -> Job]
      BY <1>1, <1>12 DEF FindLinked, TypeOK, Job, Steps
    <2> QED BY <1>2, <1>3, <1>12, <2>1 DEF FindLinked
  <1>13. CASE LookRight(j) \/ LookWrong(j)
    <2>1. job' \in [Jobs -> Job]
      <3>1. CASE \E d \in Deployments : Look(j, d)
        <4>1. /\ \A t : Vanished(job[j].seen.status, t) \in Statuses \cup {NULL}
              /\ \A d \in Deployments : Derived(d, job[j].seen.status) \in Statuses \cup {NULL}
          BY <1>1 DEF Vanished, Derived, Statuses, Row
        <4> QED BY <1>1, <1>4, <3>1, <4>1 DEF Look, TypeOK, Job, Steps
      <3>2. CASE Finish(j)
        BY <1>4, <3>2 DEF Steps
      <3> QED BY <1>3, <1>13, <3>1, <3>2 DEF LookRight, LookWrong, Deployments
    <2>2. Stays /\ dep' = dep
      BY <1>13 DEF LookRight, LookWrong, Look
    <2> QED BY <1>2, <1>3, <2>1, <2>2
  <1>14. CASE CommitList(j) \/ CommitSync(j)
    <2>1. Aligned(j) \in Row /\ Aligned(j).lastBilled = row.lastBilled
      BY <1>1 DEF Aligned, TypeOK, Row, Job
    <2>2. CASE CommitList(j)
      BY <1>1, <1>4, <2>1, <2>2, OverwriteTypes DEF CommitList, Steps
    <2>3. CASE CommitSync(j)
      <3>1. job' \in [Jobs -> Job]
        BY <1>1, <2>3 DEF CommitSync, TypeOK, Job, Row, Steps
      <3>2. \A t \in Time : [Aligned(j) EXCEPT !.lastBilled = t] \in Row
        BY <2>1 DEF Row
      <3>3. PICK t \in Time : Save(j, [Aligned(j) EXCEPT !.lastBilled = t], {})
        BY <1>1, <2>1, <2>3 DEF CommitSync, Row
      <3> QED BY <3>1, <3>2, <3>3, SaveTypes
    <2> QED BY <1>14, <2>2, <2>3
  <1>15. CASE Remedy(j)
    <2>1. job' \in [Jobs -> Job]
      BY <1>1, <1>4, <1>15 DEF Remedy, TypeOK, Job, Row, Steps
    <2> QED BY <1>2, <1>3, <1>15, <2>1 DEF Remedy
  <1>16. CASE CommitRemedy(j)
    <2>1. [row EXCEPT !.lastBilled = job[j].when] \in Row
      BY <1>1 DEF TypeOK, Row
    <2> QED BY <1>4, <1>16, <2>1, SaveTypes DEF CommitRemedy, Steps
  <1>17. CASE ReadHourly(j)
    <2>1. job' \in [Jobs -> Job]
      BY <1>1, <1>4, <1>17 DEF ReadHourly, TypeOK, Job, Steps
    <2> QED BY <1>2, <1>3, <1>17, <2>1 DEF ReadHourly
  <1>18. CASE ForceStop(j)
    <2>1. job' \in [Jobs -> Job]
      BY <1>1, <1>4, <1>18 DEF ForceStop, TypeOK, Job, Steps, Statuses
    <2> QED BY <1>2, <1>3, <1>18, <2>1 DEF ForceStop
  <1>19. CASE CommitHourly(j)
    <2>1. /\ [row EXCEPT !.status = "stopped", !.lastBilled = NULL] \in Row
          /\ [row EXCEPT !.lastBilled = job[j].when] \in Row
      BY <1>1 DEF TypeOK, Row, Statuses
    <2> QED BY <1>4, <1>19, <2>1, SaveTypes DEF CommitHourly, Steps
  <1>20. CASE ReadPrepaid(j)
    <2>1. job' \in [Jobs -> Job]
      BY <1>1, <1>4, <1>20 DEF ReadPrepaid, TypeOK, Job, Steps, Statuses
    <2> QED BY <1>2, <1>3, <1>20, <2>1 DEF ReadPrepaid
  <1>21. CASE CommitPrepaid(j)
    <2>1. job[j].to # "expired" => NextExpiry(job[j].seen, job[j].when) \in 0 .. MaxExpiry
      BY <1>1, <1>21 DEF CommitPrepaid, At, JobsInformed, Informed, TimedSteps, NextExpiry, Row, Time, Minute
    <2>2. row' \in Row
      BY <1>21, <2>1 DEF CommitPrepaid, TypeOK, Row, Statuses
    <2>3. job' \in [Jobs -> Job] /\ disturbed' \in BOOLEAN /\ paid' \in Nat
      BY <1>1, <1>4, <1>21 DEF CommitPrepaid, TypeOK, Steps
    <2> QED BY <1>21, <2>2, <2>3 DEF CommitPrepaid, TypeOK
  <1>22. CASE Reread(j)
    <2>1. job' \in [Jobs -> Job]
      BY <1>1, <1>22 DEF Reread, TypeOK, Job, Steps
    <2> QED BY <1>2, <1>3, <1>22, <2>1 DEF Reread
  <1> QED BY <1>5, <1>6, <1>7, <1>8, <1>9, <1>10, <1>11, <1>12, <1>13, <1>14, <1>15, <1>16, <1>17,
             <1>18, <1>19, <1>20, <1>21, <1>22 DEF Proceed

LEMMA TypeStep == ASSUME TypeOK, JobsInformed, [Next]_vars PROVE TypeOK'
  <1>1. ASSUME NEW j \in Jobs, Lose(j) PROVE TypeOK'
    <2>1. job' \in [Jobs -> Job]
      BY <1>1, MoveTypes DEF Lose, Steps
    <2> QED BY <1>1, <2>1 DEF Lose, TypeOK, ledger
  <1>2. CASE Roll \/ Unready
    BY <1>2 DEF Roll, Unready, TypeOK, Deployments, ledger
  <1>3. CASE Tick
    BY <1>3, ConstantsAssumption DEF Tick, TypeOK, Minute
  <1>4. CASE UNCHANGED vars
    BY <1>4 DEF vars, ledger, TypeOK
  <1> QED BY <1>1, <1>2, <1>3, <1>4, ArriveTypes, ProceedTypes DEF Next

-----------------------------------------------------------------------------
\* No action touches another's job, turns the clock back or forgets a race.
Alone(j) == /\ \A k \in Jobs \ {j} : job'[k] = job[k]
            /\ now' = now
            /\ disturbed => disturbed'

LEMMA OthersStay ==
    ASSUME TypeOK, NEW j \in Jobs, Arrive(j) \/ Proceed(j) \/ Lose(j)
    PROVE  Alone(j)
  <1>1. ASSUME now' = now, disturbed => disturbed', NEW w, job' = [job EXCEPT ![j] = w]
        PROVE  Alone(j)
    BY <1>1 DEF Alone, TypeOK
  <1>2. ASSUME now' = now, disturbed => disturbed',
               UNCHANGED job \/ Finish(j) \/ \E step : Goto(j, step) \/ Background(j, step)
        PROVE  Alone(j)
    BY <1>2 DEF Alone, TypeOK, Finish, Goto, Background
  <1>3. CASE Arrive(j)
    <2>1. CASE Start(j) \/ Stop(j) \/ ForceDelete(j) \/ Release(j) \/ Renew(j) \/ AdminDelete(j)
                 \/ ListInstances(j) \/ SyncStatus(j) \/ SelectBill(j)
      <3>1. now' = now /\ disturbed' = disturbed
        BY <2>1 DEF Start, Stop, ForceDelete, Release, Renew, AdminDelete, ListInstances, SyncStatus, SelectBill
      <3>2. \E op, step, t : Begin(j, op, step, t)
        BY <2>1 DEF Start, Stop, ForceDelete, Release, Renew, AdminDelete, ListInstances, SyncStatus, SelectBill
      <3> QED BY <1>1, <3>1, <3>2 DEF Begin
    <2>2. CASE Create(j) \/ AdminScale(j)
      BY <2>2 DEF Create, AdminScale, Alone, TypeOK
    <2> QED BY <1>3, <2>1, <2>2 DEF Arrive
  <1>4. CASE Lose(j)
    BY <1>2, <1>4 DEF Lose
  <1>5. CASE FirstCharge(j) \/ Build(j) \/ PodReady(j) \/ PodNotReady(j) \/ ScaleUp(j) \/ ScaleDown(j)
               \/ Remove(j) \/ DeleteDep(j) \/ CommitRenew(j) \/ CommitPrepaid(j)
    BY <1>2, <1>5 DEF FirstCharge, Build, PodReady, PodNotReady, ScaleUp, ScaleDown, Remove, DeleteDep,
                      CommitRenew, CommitPrepaid
  <1>6. CASE BuildError(j) \/ MarkUp(j) \/ FinishRelease(j) \/ CommitList(j)
    BY <1>2, <1>6 DEF BuildError, MarkUp, FinishRelease, CommitList, Overwrite
  <1>7. CASE MarkStarting(j) \/ CommitStop(j) \/ CommitForce(j) \/ CommitRelease(j) \/ CommitScale(j)
               \/ CommitDelete(j) \/ CommitRemedy(j) \/ CommitHourly(j)
    <2>1. \E r, minutes : Save(j, r, minutes)
      BY <1>7 DEF MarkStarting, CommitStop, CommitForce, CommitRelease, CommitScale, CommitDelete, CommitRemedy,
                  CommitHourly, SettleAndSave
    <2>2. Finish(j) \/ \E step : Background(j, step)
      BY <1>7 DEF MarkStarting, CommitStop, CommitForce, CommitRelease, CommitScale, CommitDelete, CommitRemedy,
                  CommitHourly
    <2> QED BY <1>2, <2>1, <2>2 DEF Save
  <1>8. CASE FindLinked(j) \/ Reread(j) \/ LookRight(j) \/ LookWrong(j)
    BY <1>8 DEF FindLinked, Reread, LookRight, LookWrong, Look, Alone, TypeOK, Goto, Finish
  <1>9. CASE CommitSync(j)
    BY <1>9 DEF CommitSync, Save, Alone, TypeOK
  <1>10. CASE Remedy(j)
    BY <1>10 DEF Remedy, Alone, TypeOK, Finish
  <1>11. CASE ReadHourly(j)
    BY <1>11 DEF ReadHourly, Alone, TypeOK, Finish
  <1>12. CASE ForceStop(j)
    BY <1>12 DEF ForceStop, Alone, TypeOK, Goto
  <1>13. CASE ReadPrepaid(j)
    BY <1>13 DEF ReadPrepaid, Alone, TypeOK, Finish
  <1> QED BY <1>3, <1>4, <1>5, <1>6, <1>7, <1>8, <1>9, <1>10, <1>11, <1>12, <1>13 DEF Proceed

LEMMA StillInformed ==
    ASSUME TypeOK, NEW k \in Jobs, Informed(k), job'[k] = job[k], now' \in {now, now + 1},
           disturbed => disturbed'
    PROVE  Informed(k)'
  <1>1. job[k].when # NULL => job[k].when \in Int
    BY DEF TypeOK, Job, Time, Minute
  <1>2. now \in Int
    BY DEF TypeOK, Minute
  <1> QED BY <1>1, <1>2 DEF Informed

\* What a job of another kind must know is nothing.
LEMMA NothingToKnow ==
    ASSUME NEW j \in Jobs,
           job'[j].at \notin TimedSteps \cup {"scaleUp", "markStarting", "look", "commitLook", "commitRemedy"}
    PROVE  Informed(j)'
  BY DEF Informed, TimedSteps

LEMMA ArriveInformed == ASSUME TypeOK, NEW j \in Jobs, Arrive(j) PROVE Informed(j)'
  <1>1. now # NULL /\ now <= now /\ now' = now
    BY OthersStay, ConstantsAssumption DEF TypeOK, Minute, Alone
  <1>2. ASSUME NEW op, NEW step, NEW t, Begin(j, op, step, t)
        PROVE  job'[j].at = step /\ job'[j].seen = row /\ job'[j].when = t
    BY <1>2 DEF Begin, TypeOK
  <1>3. CASE Create(j) \/ AdminScale(j)
    <2>1. Create(j) => job'[j].at = "charge"
      BY DEF Create, TypeOK
    <2>2. AdminScale(j) => job'[j].at = "findLinked" \/ job'[j].at = "idle"
      <3>1. job[j].at = "idle" /\ UNCHANGED job => job'[j].at = "idle"
        OBVIOUS
      <3>2. job' = [job EXCEPT ![j].op = "scale", ![j].at = "findLinked"] => job'[j].at = "findLinked"
        BY DEF TypeOK, Job
      <3> QED BY <3>1, <3>2 DEF AdminScale, MayBegin
    <2> QED BY <1>3, <2>1, <2>2, NothingToKnow DEF TimedSteps
  <1>4. CASE Start(j) \/ SelectBill(j)
    <2>1. \/ job'[j].at = "readBill"
          \/ job'[j].at = "scaleUp" /\ job'[j].seen.status \in {"stopped", "error", "expired"}
      BY <1>2, <1>4 DEF Start, SelectBill
    <2> QED BY <2>1 DEF Informed, TimedSteps
  <1>5. CASE Stop(j) \/ ForceDelete(j) \/ Release(j) \/ AdminDelete(j)
    <2>1. job'[j].at \in {"scaleDown", "commitForce", "commitRelease", "deleteDep"} /\ job'[j].when = now
      BY <1>2, <1>5 DEF Stop, ForceDelete, Release, AdminDelete
    <2> QED BY <1>1, <2>1 DEF Informed
  <1>6. CASE Renew(j)
    <2>1. /\ job'[j].at = "commitRenew" /\ job'[j].when = now /\ job'[j].seen = row
          /\ Prepaid /\ Extended(row.expiredAt, now) <= MaxExpiry
      BY <1>2, <1>6 DEF Renew
    <2> QED BY <1>1, <2>1 DEF Informed, Extended
  <1>7. CASE ListInstances(j) \/ SyncStatus(j)
    <2>1. /\ job'[j].at \in {"look", "remedy"}
          /\ job'[j].at = "look" => job'[j].seen.status \in Watched
      BY <1>2, <1>7 DEF ListInstances, SyncStatus, Watched
    <2> QED BY <2>1 DEF Informed, TimedSteps
  <1> QED BY <1>3, <1>4, <1>5, <1>6, <1>7 DEF Arrive

\* A step that moves on, ends, or is followed by the background task.
LEMMA MoveAt ==
    ASSUME TypeOK, NEW j \in Jobs
    PROVE  /\ \A step : Goto(j, step) => job'[j] = [job[j] EXCEPT !.at = step] /\ job'[j].at = step
           /\ Finish(j) => job'[j].at = "idle"
           /\ \A step : Background(j, step) => job'[j].at = step
  <1>1. ASSUME NEW step PROVE Goto(j, step) => job'[j] = [job[j] EXCEPT !.at = step] /\ job'[j].at = step
    BY DEF Goto, TypeOK, Job
  <1>2. Finish(j) => job'[j].at = "idle"
    BY DEF Finish, TypeOK, Idle
  <1>3. ASSUME NEW step PROVE Background(j, step) => job'[j].at = step
    BY DEF Background, TypeOK, Idle
  <1> QED BY <1>1, <1>2, <1>3

LEMMA ProceedInformed ==
    ASSUME TypeOK, JobsInformed, MeterIsRight, NEW j \in Jobs, Proceed(j)
    PROVE  Informed(j)'
  <1>1. /\ now # NULL /\ now <= now /\ now' = now /\ (disturbed => disturbed') /\ Informed(j)
        /\ job[j] \in Job
    BY OthersStay, ConstantsAssumption DEF TypeOK, Minute, Alone, JobsInformed
  <1>2. CASE \/ Finish(j)
             \/ \E step \in {"build", "buildError", "poll", "up", "cleanup", "remove",
                              "finishRelease", "remedy"} : Goto(j, step) \/ Background(j, step)
    BY <1>2, MoveAt, NothingToKnow DEF TimedSteps
  <1>3. CASE FirstCharge(j) \/ Build(j) \/ BuildError(j) \/ PodReady(j) \/ PodNotReady(j) \/ MarkUp(j)
               \/ MarkStarting(j) \/ Remove(j) \/ FinishRelease(j)
    BY <1>2, <1>3 DEF FirstCharge, Build, BuildError, PodReady, PodNotReady, MarkUp, MarkStarting, Remove,
                      FinishRelease
  <1>4. CASE CommitStop(j) \/ CommitForce(j) \/ CommitRelease(j) \/ CommitRenew(j) \/ CommitScale(j)
               \/ CommitDelete(j) \/ CommitList(j) \/ CommitRemedy(j) \/ CommitHourly(j) \/ CommitPrepaid(j)
    BY <1>2, <1>4 DEF CommitStop, CommitForce, CommitRelease, CommitRenew, CommitScale, CommitDelete, CommitList,
                      CommitRemedy, CommitHourly, CommitPrepaid
  <1>5. CASE ScaleDown(j) \/ DeleteDep(j)
    <2>1. CASE Finish(j)
      BY <1>2, <2>1
    <2>2. ASSUME NEW step \in {"commitStop", "commitDelete"}, Goto(j, step),
                 job[j].at \in {"scaleDown", "deleteDep"}
          PROVE  Informed(j)'
      <3>1. job'[j].at = step /\ job'[j].when = job[j].when
        BY <2>2, MoveAt, <1>1 DEF Job
      <3> QED BY <1>1, <2>2, <3>1 DEF Informed, TimedSteps
    <2> QED BY <1>5, <2>1, <2>2 DEF ScaleDown, DeleteDep, At
  <1>6. CASE FindLinked(j)
    <2>1. job'[j].at = "commitScale" /\ job'[j].when = now
      BY <1>6 DEF FindLinked, TypeOK, Job
    <2> QED BY <1>1, <2>1 DEF Informed
  <1>7. CASE LookRight(j) \/ LookWrong(j)
    <2>1. ASSUME NEW d, Look(j, d) PROVE Informed(j)'
      <3> DEFINE status == IF d = "none"
                           THEN Vanished(job[j].seen.status, IF job[j].op = "list" THEN ListTimeout ELSE SyncTimeout)
                           ELSE Derived(d, job[j].seen.status)
      <3>1. CASE status # job[j].seen.status
        <4>1. status \in {"creating", "starting", "running", "stopped", "error"}
          BY <3>1 DEF Vanished, Derived
        <4>2. job'[j].at = "commitLook" /\ job'[j].to = status /\ job'[j].seen = job[j].seen
          BY <2>1, <3>1 DEF Look, TypeOK, Job
        <4>3. job[j].seen.status \in Watched
          BY <1>1, <2>1 DEF Look, Informed
        <4> QED BY <4>1, <4>2, <4>3 DEF Informed, TimedSteps
      <3>2. CASE status = job[j].seen.status
        BY <1>2, <2>1, <3>2 DEF Look
      <3> QED BY <3>1, <3>2
    <2> QED BY <1>2, <1>7, <2>1 DEF LookRight, LookWrong
  <1>8. CASE CommitSync(j)
    <2>1. job'[j].at = "remedy"
      BY <1>8 DEF CommitSync, TypeOK, Job
    <2> QED BY <2>1, NothingToKnow DEF TimedSteps
  <1>9. CASE Remedy(j)
    <2>1. CASE ~Prepaid /\ row.status = "running" /\ row.lastBilled = NULL
      <3>1. disturbed /\ disturbed'
        BY <1>1, <2>1 DEF MeterIsRight
      <3>2. job'[j].at = "commitRemedy"
        BY <1>9, <2>1 DEF Remedy, TypeOK, Job
      <3> QED BY <3>1, <3>2 DEF Informed, TimedSteps
    <2>2. CASE Finish(j)
      BY <1>2, <2>2
    <2> QED BY <1>9, <2>1, <2>2 DEF Remedy
  <1>10. CASE ReadHourly(j)
    <2>1. CASE Finish(j)
      BY <1>2, <2>1
    <2>2. ASSUME row.status = "running", ~Prepaid, NEW step \in {"commitBill", "forceStop"},
                 job' = [job EXCEPT ![j].at = step, ![j].seen = row, ![j].when = now]
          PROVE  Informed(j)'
      <3>1. job'[j].at = step /\ job'[j].seen = row /\ job'[j].when = now
        BY <2>2 DEF TypeOK, Job
      <3>2. disturbed \/ row.lastBilled <= now
        BY <2>2 DEF MeterIsRight
      <3> QED BY <1>1, <2>2, <3>1, <3>2 DEF Informed, TimedSteps
    <2> QED BY <1>10, <2>1, <2>2 DEF ReadHourly
  <1>11. CASE ForceStop(j)
    <2>1. job'[j].at = "commitBill" /\ job'[j].seen = job[j].seen /\ job'[j].when = job[j].when
      BY <1>11 DEF ForceStop, Goto, TypeOK, Job
    <2>2. ~Prepaid /\ job[j].at = "forceStop"
      BY <1>1, <1>11 DEF ForceStop, At, Informed
    <2> QED BY <1>1, <2>1, <2>2 DEF Informed, TimedSteps
  <1>12. CASE ReadPrepaid(j)
    <2>1. CASE Finish(j)
      BY <1>2, <2>1
    <2>2. ASSUME NEW status \in {NULL, "expired"}, Prepaid, ~Subscribed(row, now),
                 status = NULL => NextExpiry(row, now) <= MaxExpiry,
                 job' = [job EXCEPT ![j].at = "commitBill", ![j].seen = row, ![j].when = now, ![j].to = status]
          PROVE  Informed(j)'
      <3>1. job'[j].at = "commitBill" /\ job'[j].seen = row /\ job'[j].when = now /\ job'[j].to = status
        BY <2>2 DEF TypeOK, Job
      <3> QED BY <1>1, <2>2, <3>1 DEF Informed, TimedSteps, Subscribed, NextExpiry
    <2> QED BY <1>12, <2>1, <2>2 DEF ReadPrepaid
  <1>13. CASE ScaleUp(j)
    <2>1. CASE Finish(j)
      BY <1>2, <2>1
    <2>2. CASE Goto(j, "markStarting")
      <3>1. job'[j].at = "markStarting" /\ job'[j].seen = job[j].seen /\ job[j].at = "scaleUp"
        BY <1>13, <2>2, MoveAt, <1>1 DEF Job, ScaleUp, At
      <3> QED BY <1>1, <3>1 DEF Informed, TimedSteps
    <2> QED BY <1>13, <2>1, <2>2 DEF ScaleUp
  <1>14. CASE Reread(j)
    <2>1. job'[j].at \in {"commitError", "commitUp", "commitReleased"}
      BY <1>1, <1>14 DEF Reread, TypeOK, Job
    <2> QED BY <2>1, NothingToKnow DEF TimedSteps
  <1> QED BY <1>3, <1>4, <1>5, <1>6, <1>7, <1>8, <1>9, <1>10, <1>11, <1>12, <1>13, <1>14 DEF Proceed

LEMMA InformedStep == ASSUME TypeOK, JobsInformed, MeterIsRight, [Next]_vars PROVE JobsInformed'
  <1> SUFFICES ASSUME NEW k \in Jobs PROVE Informed(k)'
    BY DEF JobsInformed
  <1>1. Informed(k) /\ now \in Int
    BY DEF JobsInformed, TypeOK, Minute
  <1>2. ASSUME NEW j \in Jobs, Arrive(j) \/ Proceed(j) \/ Lose(j) PROVE Informed(k)'
    <2>1. CASE k # j
      BY <1>1, <1>2, <2>1, OthersStay, StillInformed DEF Alone
    <2>2. CASE k = j /\ Lose(j)
      BY <2>2, MoveAt, NothingToKnow DEF Lose, TimedSteps
    <2> QED BY <1>2, <2>1, <2>2, ArriveInformed, ProceedInformed
  <1>3. CASE Roll \/ Unready \/ Tick \/ UNCHANGED vars
    <2>1. job' = job /\ now' \in {now, now + 1} /\ disturbed' = disturbed
      BY <1>3 DEF Roll, Unready, Tick, vars
    <2> QED BY <1>1, <2>1, StillInformed
  <1> QED BY <1>2, <1>3 DEF Next

-----------------------------------------------------------------------------
\* A row that is inserted stays: no job writes the status NULL.
LEMMA RowStays == ASSUME TypeOK, JobsInformed, [Next]_vars, row.status # NULL PROVE row'.status # NULL
  <1> USE ConstantsAssumption
  <1>1. row \in Row /\ NULL \notin Statuses
    BY DEF TypeOK
  <1>2. ASSUME NEW j \in Jobs, SettleAndSave(j, "stopped") \/ SettleAndSave(j, "released")
                                \/ SettleAndSave(j, "releasing")
        PROVE  row'.status # NULL
    BY <1>1, <1>2 DEF SettleAndSave, Save, Settled, Row, Statuses
  <1>3. ASSUME NEW j \in Jobs, Proceed(j) PROVE row'.status # NULL
    <2>1. CASE CommitStop(j) \/ CommitForce(j) \/ CommitRelease(j) \/ CommitScale(j) \/ CommitDelete(j)
      BY <1>2, <2>1 DEF CommitStop, CommitForce, CommitRelease, CommitScale, CommitDelete
    <2>2. CASE FirstCharge(j) \/ BuildError(j) \/ MarkUp(j) \/ FinishRelease(j) \/ MarkStarting(j)
                 \/ CommitRemedy(j)
      BY <1>1, <2>2 DEF FirstCharge, BuildError, MarkUp, FinishRelease, Marked, MarkStarting, CommitRemedy,
                       Overwrite, Save, Row, Statuses
    <2>3. CASE CommitHourly(j)
      BY <1>1, <2>3 DEF CommitHourly, Save, Row, Statuses
    <2>4. CASE CommitRenew(j) \/ CommitPrepaid(j)
      BY <1>1, <2>4 DEF CommitRenew, CommitPrepaid, Row, Statuses
    <2>5. CASE CommitList(j) \/ CommitSync(j)
      <3>1. job[j].to # NULL
        BY <2>5 DEF CommitList, CommitSync, At, JobsInformed, Informed, Statuses
      <3> QED BY <1>1, <2>5, <3>1 DEF CommitList, CommitSync, Overwrite, Save, Aligned, Row
    <2>6. CASE UNCHANGED row
      BY <2>6
    <2> QED BY <1>3, <2>1, <2>2, <2>3, <2>4, <2>5, <2>6
        DEF Proceed, Build, Reread, PodReady, PodNotReady, ScaleUp, ScaleDown, Remove, FindLinked, DeleteDep, LookRight,
            LookWrong, Look, Remedy, ReadHourly, ForceStop, ReadPrepaid
  <1>4. ASSUME NEW j \in Jobs, Arrive(j) \/ Lose(j) PROVE row'.status # NULL
    <2>1. UNCHANGED row
      BY <1>4 DEF Arrive, Create, Start, Stop, ForceDelete, Release, Renew, AdminScale, AdminDelete, ListInstances,
                  SyncStatus, SelectBill, Lose
    <2> QED BY <2>1
  <1>5. CASE Roll \/ Unready \/ Tick \/ UNCHANGED vars
    BY <1>5 DEF Roll, Unready, Tick, vars
  <1> QED BY <1>3, <1>4, <1>5 DEF Next

LEMMA NothingBeforeStep ==
    ASSUME TypeOK, JobsInformed, NothingBefore, [Next]_vars
    PROVE  NothingBefore'
  <1> SUFFICES ASSUME row'.status = NULL PROVE NothingBefore'
    BY DEF NothingBefore
  <1>1. row.status = NULL /\ dep = "none" /\ paid = 0 /\ \A j \in Jobs : job[j].at = "idle"
    BY RowStays DEF NothingBefore
  <1>2. ASSUME NEW j \in Jobs PROVE ~Lose(j) /\ ~Proceed(j)
    BY <1>1 DEF Lose, Proceed, At, FirstCharge, Build, Reread, BuildError, PodReady, PodNotReady, MarkUp, ScaleUp, MarkStarting,
                ScaleDown, CommitStop, CommitForce, CommitRelease, Remove, FinishRelease, CommitRenew, FindLinked,
                CommitScale, DeleteDep, CommitDelete, LookRight, LookWrong, Look, CommitList, CommitSync, Remedy,
                CommitRemedy, ReadHourly, ForceStop, CommitHourly, ReadPrepaid, CommitPrepaid
  <1>3. ASSUME NEW j \in Jobs PROVE ~Arrive(j)
    <2>1. ~Create(j)
      BY ConstantsAssumption DEF Create, NoRow, Statuses
    <2> QED BY <1>1, <2>1 DEF Arrive, Begin, Start, Stop, ForceDelete, Release, Renew, AdminScale, AdminDelete,
                             ListInstances, SyncStatus, SelectBill
  <1>4. UNCHANGED vars
    BY <1>1, <1>2, <1>3 DEF Next, Roll, Unready, Tick
  <1> QED BY <1>4 DEF vars, ledger, NothingBefore

-----------------------------------------------------------------------------
\* A settlement on the row as it is charges only minutes that are due.
LEMMA SettlementIsDue ==
    ASSUME TypeOK, MeterIsRight, NEW j \in Jobs, Informed(j), job[j].at \in TimedSteps,
           ~Prepaid, ~disturbed, ~Outdated(j)
    PROVE  Settlement(job[j].seen, job[j].when) \subseteq due
  <1>1. job[j].seen = row /\ job[j].when \in Int /\ job[j].when <= now /\ now \in Int
    BY DEF Outdated, Informed, TypeOK, Job, Time, Minute
  <1>2. row.lastBilled # NULL => row.lastBilled \in Int
    BY DEF TypeOK, Row, Time, Minute
  <1>3. CASE Settles(row) /\ row.status = "running"
    BY <1>1, <1>2, <1>3 DEF Settlement, Settles, MeterIsRight
  <1>4. CASE ~(Settles(row) /\ row.status = "running")
    BY <1>1, <1>4 DEF Settlement, Settles, MeterIsRight
  <1> QED BY <1>3, <1>4

\* The meter and the bill, of a metered instance.
BillIsRight == MeterIsRight /\ BilledAsItRan

LEMMA SettleStep ==
    ASSUME TypeOK, BillIsRight, NEW j \in Jobs, Informed(j), job[j].at \in TimedSteps,
           NEW status \in {"stopped", "releasing", "released"}, SettleAndSave(j, status)
    PROVE  BillIsRight'
  <1> SUFFICES ASSUME ~disturbed' PROVE BillIsRight'
    BY DEF BillIsRight, MeterIsRight, BilledAsItRan
  <1>1. ~disturbed /\ ~Outdated(j) /\ ~overcharged /\ now' = now /\ row \in Row
    BY DEF SettleAndSave, Save, BillIsRight, BilledAsItRan, TypeOK
  <1>2. CASE Prepaid
    BY <1>1, <1>2 DEF SettleAndSave, Save, Settlement, Settles, BillIsRight, MeterIsRight, BilledAsItRan
  <1>3. CASE ~Prepaid
    <2>1. ~overcharged'
      BY <1>1, <1>3, SettlementIsDue DEF SettleAndSave, Save, BillIsRight
    <2>2. row'.status # "running" \/ row.status = status
      BY <1>1 DEF SettleAndSave, Save, Settled, Outdated, Row
    <2>3. row'.lastBilled = NULL /\ row'.status # "running"
      BY <1>1, <1>3, <2>2 DEF SettleAndSave, Save, Settled, Settles, Outdated, Row
    <2> QED BY <2>1, <2>3 DEF BillIsRight, MeterIsRight, BilledAsItRan
  <1> QED BY <1>2, <1>3

LEMMA DueIsNotOvercharged ==
    ASSUME ~overcharged, NEW j, NEW r, NEW minutes, minutes \subseteq due, Save(j, r, minutes)
    PROVE  ~overcharged' /\ due' = due \ minutes
  BY Zenon DEF Save

LEMMA ProceedBill ==
    ASSUME TypeOK, JobsInformed, BillIsRight, NEW j \in Jobs, Proceed(j)
    PROVE  BillIsRight'
  <1> SUFFICES ASSUME ~disturbed' PROVE BillIsRight'
    BY DEF BillIsRight, MeterIsRight, BilledAsItRan
  <1> USE ConstantsAssumption
  <1>1. /\ ~disturbed /\ ~overcharged /\ now' = now /\ now \in Int /\ now # NULL /\ row \in Row /\ Informed(j)
        /\ ~Prepaid => /\ row.lastBilled # NULL => row.status \in {"running", "released"}
                       /\ row.status = "running" => /\ row.lastBilled # NULL /\ row.lastBilled <= now
                                                   /\ row.lastBilled .. (now - 1) \subseteq due
    BY OthersStay DEF Alone, TypeOK, Minute, JobsInformed, BillIsRight, BilledAsItRan, MeterIsRight
  <1>2. ASSUME ~overcharged',
               \/ Prepaid
               \/ row'.status = row.status /\ row'.lastBilled = row.lastBilled /\ due' = due
        PROVE  BillIsRight'
    BY <1>1, <1>2 DEF BillIsRight, MeterIsRight, BilledAsItRan
  <1>3. ASSUME ~overcharged', row'.status # "running",
               row'.status = "released" \/ row'.lastBilled = NULL
        PROVE  BillIsRight'
    BY <1>1, <1>3 DEF BillIsRight, MeterIsRight, BilledAsItRan
  <1>4. ASSUME ~overcharged', row'.status = "running", row'.lastBilled = now PROVE BillIsRight'
    BY <1>1, <1>4 DEF BillIsRight, MeterIsRight, BilledAsItRan
  <1>5. CASE CommitStop(j) \/ CommitForce(j) \/ CommitRelease(j) \/ CommitScale(j) \/ CommitDelete(j)
    BY <1>1, <1>5, SettleStep DEF CommitStop, CommitForce, CommitRelease, CommitScale, CommitDelete, At, TimedSteps
  <1>6. CASE FirstCharge(j)
    BY <1>1, <1>2, <1>6 DEF FirstCharge, Row
  <1>7. CASE CommitRenew(j) \/ CommitPrepaid(j)
    <2>1. Prepaid
      BY <1>1, <1>7 DEF CommitRenew, CommitPrepaid, At, Informed
    <2>2. overcharged' = overcharged
      BY <1>7 DEF CommitRenew, CommitPrepaid
    <2>3. ~overcharged'
      BY <1>1, <2>2
    <2> QED BY <1>2, <2>1, <2>3
  <1>8. CASE UNCHANGED <<row, ledger>>
    BY <1>1, <1>2, <1>8 DEF ledger
  <1>9. CASE BuildError(j)
    <2>1. /\ row.status = "creating" /\ row'.status \in {"creating", "error"}
          /\ row'.lastBilled = row.lastBilled
      BY <1>1, <1>9 DEF BuildError, Overwrite, Marked, Row
    <2> QED BY <1>1, <1>2, <1>3, <1>9, <2>1 DEF BuildError, Overwrite, ledger
  <1>10. CASE MarkUp(j)
    BY <1>1, <1>2, <1>4, <1>10 DEF MarkUp, Overwrite, ledger, Row
  <1>11. CASE FinishRelease(j)
    <2>1. /\ row'.status \in {"released", row.status} /\ row'.lastBilled = row.lastBilled
          /\ due' = due /\ ~overcharged'
      BY <1>1, <1>11 DEF FinishRelease, Overwrite, Marked, ledger, Row
    <2> QED BY <1>2, <1>3, <2>1
  <1>12. CASE MarkStarting(j)
    <2>1. /\ row.status \in {"stopped", "error", "expired"}
          /\ row'.status = "starting" /\ row'.lastBilled = row.lastBilled
      BY <1>1, <1>12 DEF MarkStarting, Save, At, Informed, Outdated, Row
    <2>2. ~overcharged'
      BY <1>1, <1>12, DueIsNotOvercharged DEF MarkStarting
    <2>3. CASE Prepaid
      BY <1>2, <2>2, <2>3
    <2>4. CASE ~Prepaid
      BY <1>1, <1>3, <2>1, <2>2, <2>4
    <2> QED BY <2>3, <2>4
  <1>13. CASE CommitList(j)
    <2>1. /\ row = job[j].seen /\ job[j].to # "running" /\ row.status # "running"
          /\ job[j].seen.status \in Watched /\ due' = due /\ ~overcharged'
      BY <1>1, <1>13 DEF CommitList, At, Informed, Outdated, Overwrite, ledger
    <2>2. row'.status # "running" /\ row'.lastBilled = row.lastBilled
      BY <1>1, <1>13, <2>1 DEF CommitList, Overwrite, Aligned, Row
    <2>3. CASE Prepaid
      BY <1>2, <2>1, <2>3
    <2>4. CASE ~Prepaid
      <3>1. row.lastBilled = NULL
        BY <1>1, <2>1, <2>4 DEF Watched
      <3> QED BY <1>3, <2>1, <2>2, <3>1
    <2> QED BY <2>3, <2>4
  <1>14. CASE CommitSync(j)
    <2>1. row = job[j].seen /\ job[j].seen.status \in Watched
      BY <1>1, <1>14 DEF CommitSync, At, Informed, Outdated, Save
    <2>2. ~overcharged'
      BY <1>1, <1>14, DueIsNotOvercharged DEF CommitSync
    <2>3. CASE Prepaid
      BY <1>2, <2>2, <2>3
    <2>4. CASE ~Prepaid /\ job[j].to = "running"
      <3>1. row'.status = "running" /\ row'.lastBilled = now
        BY <1>1, <1>14, <2>4 DEF CommitSync, Save, Aligned, Row
      <3> QED BY <1>4, <2>2, <3>1
    <2>5. CASE ~Prepaid /\ job[j].to # "running"
      <3>1. row'.status = job[j].to
        BY <1>1, <1>14, <2>5 DEF CommitSync, Save, Aligned, Row
      <3>2. row'.lastBilled = NULL
        <4>1. CASE row.status = "running"
          BY <1>1, <1>14, <2>1, <2>5, <4>1 DEF CommitSync, Save, Aligned, Row
        <4>2. CASE row.status # "running"
          <5>1. row.lastBilled = NULL
            BY <1>1, <2>1, <2>5, <4>2 DEF Watched
          <5> QED BY <1>1, <1>14, <2>1, <2>5, <4>2, <5>1 DEF CommitSync, Save, Aligned, Row
        <4> QED BY <4>1, <4>2
      <3> QED BY <1>3, <2>2, <2>5, <3>1, <3>2
    <2> QED BY <2>3, <2>4, <2>5
  <1>15. CASE CommitRemedy(j)
    BY <1>1, <1>15 DEF CommitRemedy, At, Informed
  <1>16. CASE CommitHourly(j)
    <2> DEFINE when == job[j].when
               minutes == row.lastBilled .. (when - 1)
    <2>1. /\ row = job[j].seen /\ ~Prepaid /\ row.status = "running" /\ when # NULL /\ when <= now
          /\ row.lastBilled # NULL /\ row.lastBilled <= when /\ row.lastBilled .. (now - 1) \subseteq due
      BY <1>1, <1>16 DEF CommitHourly, At, Informed, Outdated, Save, TimedSteps
    <2>2. row.lastBilled \in Int /\ when \in Int
      BY <1>1, <2>1 DEF Row, Time, Minute, TypeOK, Job
    <2>3. minutes \subseteq due
      BY <1>1, <2>1, <2>2
    <2>4. Save(j, IF job[j].to = "stopped" THEN [row EXCEPT !.status = "stopped", !.lastBilled = NULL]
                                          ELSE [row EXCEPT !.lastBilled = when], minutes)
      <3>1. MeterStart(job[j].seen, when) = row.lastBilled
        BY <2>1 DEF MeterStart
      <3> QED BY <1>16, <3>1 DEF CommitHourly
    <2>5. ~overcharged' /\ due' = due \ minutes
      BY <1>1, <2>3, <2>4, DueIsNotOvercharged
    <2>6. CASE job[j].to = "stopped"
      <3>1. row'.status = "stopped" /\ row'.lastBilled = NULL
        BY <1>1, <2>4, <2>6 DEF Save, Row
      <3> QED BY <1>3, <2>5, <3>1
    <2>7. CASE job[j].to # "stopped"
      <3>1. row'.status = "running" /\ row'.lastBilled = when
        BY <1>1, <2>1, <2>4, <2>7 DEF Save, Row
      <3>2. when .. (now - 1) \subseteq due'
        BY <1>1, <2>1, <2>2, <2>5
      <3> QED BY <1>1, <2>1, <2>5, <3>1, <3>2 DEF BillIsRight, MeterIsRight, BilledAsItRan
    <2> QED BY <2>6, <2>7
  <1> QED BY <1>5, <1>6, <1>7, <1>8, <1>9, <1>10, <1>11, <1>12, <1>13, <1>14, <1>15, <1>16
      DEF Proceed, Build, Reread, PodReady, PodNotReady, ScaleUp, ScaleDown, Remove, FindLinked, DeleteDep, LookRight,
          LookWrong, Look, Remedy, ReadHourly, ForceStop, ReadPrepaid

LEMMA BillStep ==
    ASSUME TypeOK, NothingBefore, JobsInformed, BillIsRight, [Next]_vars
    PROVE  BillIsRight'
  <1> USE ConstantsAssumption
  <1>1. ASSUME UNCHANGED <<row, now, due, overcharged, disturbed>> PROVE BillIsRight'
    BY <1>1 DEF BillIsRight, MeterIsRight, BilledAsItRan
  <1>2. ASSUME NEW j \in Jobs, Arrive(j) PROVE BillIsRight'
    <2>1. CASE Create(j)
      <3>1. row'.status = "creating" /\ row'.lastBilled = NULL
        BY <2>1 DEF Create, NoRow
      <3>2. disturbed' = disturbed /\ overcharged' = overcharged
        BY <2>1 DEF Create, ledger
      <3> QED BY <3>1, <3>2 DEF BillIsRight, MeterIsRight, BilledAsItRan
    <2>2. CASE UNCHANGED <<row, now, due, overcharged, disturbed>>
      BY <1>1, <2>2
    <2> QED BY <1>2, <2>1, <2>2
        DEF Arrive, Start, Stop, ForceDelete, Release, Renew, AdminScale, AdminDelete, ListInstances, SyncStatus,
            SelectBill, ledger
  <1>3. CASE Tick
    <2>1. /\ row' = row /\ overcharged' = overcharged /\ disturbed' = disturbed
          /\ now' = now + 1 /\ now \in Int
      BY <1>3 DEF Tick, TypeOK, Minute
    <2>2. ASSUME ~Prepaid, ~disturbed, row.status = "running"
          PROVE  row.lastBilled <= now + 1 /\ row.lastBilled .. ((now + 1) - 1) \subseteq due'
      <3>1. due' = due \cup {now}
        BY <1>3, <2>2 DEF Tick
      <3>2. row.lastBilled \in Int /\ row.lastBilled <= now /\ row.lastBilled .. (now - 1) \subseteq due
        BY <2>2 DEF BillIsRight, MeterIsRight, TypeOK, Row, Time, Minute
      <3> QED BY <2>1, <3>1, <3>2
    <2> QED BY <2>1, <2>2 DEF BillIsRight, MeterIsRight, BilledAsItRan
  <1>4. ASSUME NEW j \in Jobs, Lose(j) PROVE BillIsRight'
    BY <1>1, <1>4 DEF Lose, ledger
  <1>5. CASE Roll \/ Unready \/ UNCHANGED vars
    BY <1>1, <1>5 DEF Roll, Unready, vars, ledger
  <1> QED BY <1>2, <1>3, <1>4, <1>5, ProceedBill DEF Next

-----------------------------------------------------------------------------
\* Adding a period.
LEMMA OneMorePeriod ==
    ASSUME NEW n \in Nat
    PROVE  (n + 1) * Period = n * Period + Period /\ n * Period >= 0 /\ n * Period \in Int
  BY ConstantsAssumption

\* Every order that is paid extends what the row grants.
LEMMA OrderExtends ==
    ASSUME TypeOK, PeriodsPaidFor, ~disturbed, paid' = paid + 1, NEW t \in Nat,
           IF row.expiredAt # NULL THEN row'.expiredAt >= row.expiredAt + Period /\ row'.expiredAt \in Int
                                   ELSE row'.expiredAt = t + Period,
           row'.expiredAt # NULL
    PROVE  PeriodsPaidFor'
  <1>1. paid \in Nat /\ Period \in Nat /\ (row.expiredAt # NULL => row.expiredAt \in Int)
    BY ConstantsAssumption DEF TypeOK, Row
  <1>2. (paid + 1) * Period = paid * Period + Period /\ paid * Period >= 0 /\ paid * Period \in Int
    BY <1>1, OneMorePeriod
  <1>3. CASE row.expiredAt # NULL /\ paid > 0
    BY <1>1, <1>2, <1>3 DEF PeriodsPaidFor
  <1>4. CASE paid = 0
    <2>1. row.expiredAt # NULL => row.expiredAt >= 0
      BY DEF TypeOK, Row
    <2> QED BY <1>1, <1>2, <1>4, <2>1 DEF PeriodsPaidFor
  <1> QED BY <1>1, <1>3, <1>4 DEF PeriodsPaidFor

LEMMA PaidStep ==
    ASSUME TypeOK, NothingBefore, JobsInformed, PeriodsPaidFor, [Next]_vars
    PROVE  PeriodsPaidFor'
  <1> SUFFICES ASSUME ~disturbed' PROVE PeriodsPaidFor'
    BY DEF PeriodsPaidFor
  <1> USE ConstantsAssumption
  <1>1. row \in Row /\ now \in Nat /\ paid \in Nat
    BY DEF TypeOK, Minute
  <1>2. ASSUME row'.expiredAt = row.expiredAt, paid' = paid, disturbed => disturbed' PROVE PeriodsPaidFor'
    BY <1>2 DEF PeriodsPaidFor
  <1>3. ASSUME NEW j \in Jobs, Arrive(j) PROVE PeriodsPaidFor'
    <2>1. CASE Create(j)
      <3>1. paid' = 0
        BY <2>1 DEF Create, ledger, NothingBefore
      <3> QED BY <3>1 DEF PeriodsPaidFor
    <2>2. CASE UNCHANGED <<row, ledger, disturbed>>
      BY <1>2, <2>2 DEF ledger
    <2> QED BY <1>3, <2>1, <2>2
        DEF Arrive, Start, Stop, ForceDelete, Release, Renew, AdminScale, AdminDelete, ListInstances, SyncStatus,
            SelectBill
  <1>4. ASSUME NEW j \in Jobs, Proceed(j) PROVE PeriodsPaidFor'
    <2>1. ~disturbed /\ Informed(j) /\ job[j] \in Job
      BY <1>4, OthersStay DEF Alone, JobsInformed, TypeOK
    <2>2. CASE FirstCharge(j)
      <3>1. CASE row'.expiredAt = now + Period /\ row.expiredAt = NULL /\ paid' = paid + 1
        BY <1>1, <2>1, <3>1, OrderExtends
      <3>2. CASE UNCHANGED <<row, paid>>
        BY <1>2, <2>1, <3>2
      <3> QED BY <1>1, <2>2, <3>1, <3>2 DEF FirstCharge, Row
    <2>3. CASE CommitRenew(j)
      <3> DEFINE t == job[j].when
      <3>1. row = job[j].seen
        BY <2>1, <2>3, Zenon DEF CommitRenew, Outdated
      <3>2. t \in Nat
        BY <2>1, <2>3 DEF CommitRenew, At, Informed, TimedSteps, Job, Time, Minute
      <3>3. paid' = paid + 1 /\ row'.expiredAt = Extended(row.expiredAt, t)
        BY <1>1, <2>3, <3>1 DEF CommitRenew, Row
      <3> QED BY <1>1, <2>1, <3>2, <3>3, OrderExtends DEF Extended, Row
    <2>4. CASE CommitPrepaid(j)
      <3> DEFINE t == job[j].when
      <3>1. row = job[j].seen /\ t \in Nat
        <4>1. row = job[j].seen
          BY <2>1, <2>4, Zenon DEF CommitPrepaid, Outdated
        <4>2. t \in Nat
          BY <2>1, <2>4 DEF CommitPrepaid, At, Informed, TimedSteps, Job, Time, Minute
        <4> QED BY <4>1, <4>2
      <3>2. CASE job[j].to = "expired"
        BY <1>1, <1>2, <2>1, <2>4, <3>2 DEF CommitPrepaid, Row
      <3>3. CASE job[j].to # "expired"
        <4>1. paid' = paid + 1 /\ row'.expiredAt = NextExpiry(row, t)
          BY <1>1, <2>4, <3>1, <3>3 DEF CommitPrepaid, Row
        <4> QED BY <1>1, <2>1, <3>1, <4>1, OrderExtends DEF NextExpiry, Row
      <3> QED BY <3>2, <3>3
    <2>5. CASE UNCHANGED <<row, ledger>>
      BY <1>2, <2>1, <2>5 DEF ledger
    <2>6. CASE CommitStop(j) \/ CommitForce(j) \/ CommitRelease(j) \/ CommitScale(j) \/ CommitDelete(j)
      <3>1. PICK status : SettleAndSave(j, status)
        BY <2>6 DEF CommitStop, CommitForce, CommitRelease, CommitScale, CommitDelete
      <3>2. row' = Settled(j, status) /\ paid' = paid
        BY <3>1 DEF SettleAndSave, Save
      <3> QED BY <1>1, <1>2, <2>1, <3>2 DEF Settled, Row
    <2>7. CASE MarkStarting(j) \/ CommitRemedy(j) \/ CommitHourly(j)
      <3>1. row'.expiredAt = row.expiredAt /\ paid' = paid
        BY <1>1, <2>7 DEF MarkStarting, CommitRemedy, CommitHourly, Save, Row
      <3> QED BY <1>2, <2>1, <3>1
    <2>8. CASE BuildError(j) \/ MarkUp(j) \/ FinishRelease(j)
      <3>1. row'.expiredAt = row.expiredAt /\ paid' = paid
        BY <1>1, <2>8 DEF BuildError, MarkUp, FinishRelease, Overwrite, ledger, Row
      <3> QED BY <1>2, <2>1, <3>1
    <2>9. CASE CommitList(j) \/ CommitSync(j)
      <3>1. row'.expiredAt = row.expiredAt /\ paid' = paid
        BY <1>1, <2>9 DEF CommitList, CommitSync, Aligned, Overwrite, Save, ledger, Row
      <3> QED BY <1>2, <2>1, <3>1
    <2> QED BY <1>4, <2>2, <2>3, <2>4, <2>5, <2>6, <2>7, <2>8, <2>9
        DEF Proceed, Build, Reread, PodReady, PodNotReady, ScaleUp, ScaleDown, Remove, FindLinked, DeleteDep, LookRight,
            LookWrong, Look, Remedy, ReadHourly, ForceStop, ReadPrepaid
  <1>5. CASE Roll \/ Unready \/ Tick \/ UNCHANGED vars
    BY <1>2, <1>5 DEF Roll, Unready, Tick, vars, ledger
  <1>6. ASSUME NEW j \in Jobs, Lose(j) PROVE PeriodsPaidFor'
    BY <1>2, <1>6 DEF Lose, ledger
  <1> QED BY <1>3, <1>4, <1>5, <1>6 DEF Next

-----------------------------------------------------------------------------
LEMMA InitIInv == Init => IInv
  <1> SUFFICES ASSUME Init PROVE IInv
    OBVIOUS
  <1> USE ConstantsAssumption
  <1>1. \A j \in Jobs : job[j] = Idle
    BY DEF Init
  <1>2. TypeOK
    <2>1. NoRow \in Row
      BY DEF NoRow, Row, Time
    <2>2. Idle \in Job
      BY <2>1 DEF Idle, Job, Time, Steps
    <2>3. /\ job \in [Jobs -> Job] /\ row \in Row /\ dep \in Deployments
          /\ now \in Minute /\ due \subseteq Minute /\ paid \in Nat
      BY <2>1, <2>2 DEF Init, Deployments, Minute
    <2>4. overcharged \in BOOLEAN /\ disturbed \in BOOLEAN
      BY Zenon DEF Init
    <2> QED BY <2>3, <2>4 DEF TypeOK
  <1>3. NothingBefore
    BY <1>1 DEF Init, NothingBefore, Idle
  <1>4. JobsInformed
    BY <1>1 DEF JobsInformed, Informed, TimedSteps, Idle
  <1>5. MeterIsRight
    BY DEF Init, MeterIsRight, NoRow, Statuses
  <1>6. BilledAsItRan /\ PeriodsPaidFor
    BY DEF Init, BilledAsItRan, PeriodsPaidFor
  <1> QED BY <1>2, <1>3, <1>4, <1>5, <1>6 DEF IInv

LEMMA StepIInv == ASSUME IInv, [Next]_vars PROVE IInv'
  <1>1. TypeOK /\ NothingBefore /\ JobsInformed /\ BillIsRight /\ PeriodsPaidFor
    BY DEF IInv, BillIsRight
  <1>2. TypeOK' /\ NothingBefore' /\ BillIsRight' /\ PeriodsPaidFor'
    BY <1>1, TypeStep, NothingBeforeStep, BillStep, PaidStep
  <1>3. JobsInformed'
    BY <1>1, InformedStep DEF BillIsRight
  <1> QED BY <1>2, <1>3 DEF IInv, BillIsRight

\* The inductive invariant: with the types, what is promised below, what each
\* job knows of the row it read, and that the meter of an instance stands at
\* the first minute that no record charges.
THEOREM Invariant == Spec => []IInv
  BY InitIInv, StepIInv, PTL DEF Spec

\* Every variable keeps its type: among others, a status that GET /instances,
\* the worker or a settlement writes is one of InstanceStatus.
THEOREM TypeCorrect == Spec => []TypeOK
  <1>1. IInv => TypeOK
    BY DEF IInv
  <1> QED BY <1>1, Invariant, PTL

\* An hourly instance is charged no minute twice and none in which it did not
\* run, by the settlements and the periodic billing together, as long as no job
\* wrote over a change it had not seen.
THEOREM BillsAreTrue == Spec => []BilledAsItRan
  <1>1. IInv => BilledAsItRan
    BY DEF IInv
  <1> QED BY <1>1, Invariant, PTL

\* Every order of a prepaid instance, of its creation, a renewal by its user or
\* by the worker, grants a period of its own.
THEOREM PeriodsAreGranted == Spec => []PeriodsPaidFor
  <1>1. IInv => PeriodsPaidFor
    BY DEF IInv
  <1> QED BY <1>1, Invariant, PTL

-----------------------------------------------------------------------------
\* The step that makes an instance EXPIRED finds its period over.
LEMMA ExpiryStep ==
    ASSUME IInv, Next, row'.status = "expired", row.status # "expired", ~disturbed'
    PROVE  row.expiredAt = NULL \/ row.expiredAt <= now
  <1> USE ConstantsAssumption
  <1>1. row \in Row /\ now \in Int
    BY DEF IInv, TypeOK, Minute
  <1>2. ~UNCHANGED row
    OBVIOUS
  <1>3. ASSUME NEW j \in Jobs PROVE ~Arrive(j) /\ ~Lose(j)
    <2>1. ~Create(j)
      BY DEF Create, NoRow
    <2> QED BY <1>2, <2>1 DEF Arrive, Start, Stop, ForceDelete, Release, Renew, AdminScale, AdminDelete,
                             ListInstances, SyncStatus, SelectBill, Lose
  <1>4. ~Roll /\ ~Unready /\ ~Tick
    BY <1>2 DEF Roll, Unready, Tick
  <1>5. PICK j \in Jobs : Proceed(j)
    BY <1>3, <1>4 DEF Next
  <1>6. Informed(j) /\ job[j] \in Job /\ job[j].seen \in Row
    BY DEF IInv, JobsInformed, TypeOK, Job
  <1>7. ~FirstCharge(j) /\ ~BuildError(j) /\ ~MarkUp(j) /\ ~FinishRelease(j) /\ ~CommitRenew(j)
    BY <1>1 DEF FirstCharge, BuildError, MarkUp, FinishRelease, Marked, CommitRenew, Overwrite, Row
  <1>8. ~MarkStarting(j) /\ ~CommitRemedy(j) /\ ~CommitHourly(j)
    BY <1>1 DEF MarkStarting, CommitRemedy, CommitHourly, Save, Row
  <1>9. ~CommitStop(j) /\ ~CommitForce(j) /\ ~CommitRelease(j) /\ ~CommitScale(j) /\ ~CommitDelete(j)
    BY <1>1 DEF CommitStop, CommitForce, CommitRelease, CommitScale, CommitDelete, SettleAndSave, Settled, Save, Row
  <1>10. ~CommitList(j) /\ ~CommitSync(j)
    BY <1>1, <1>6 DEF CommitList, CommitSync, Aligned, Overwrite, Save, At, Informed, Row
  <1>11. CommitPrepaid(j)
    BY <1>2, <1>5, <1>7, <1>8, <1>9, <1>10
       DEF Proceed, Build, Reread, PodReady, PodNotReady, ScaleUp, ScaleDown, Remove, FindLinked, DeleteDep, LookRight,
           LookWrong, Look, Remedy, ReadHourly, ForceStop, ReadPrepaid
  <1>12. row = job[j].seen /\ job[j].to = "expired"
    BY <1>1, <1>11 DEF CommitPrepaid, Outdated, Row
  <1>13. ~Subscribed(row, job[j].when) /\ job[j].when \in Int /\ job[j].when <= now
    BY <1>6, <1>11, <1>12 DEF CommitPrepaid, At, Informed, TimedSteps, Job, Time, Minute
  <1> QED BY <1>1, <1>13 DEF Subscribed, Row

\* A prepaid instance becomes EXPIRED only when its period is over; what was
\* paid meanwhile is not answered by an expiry.
THEOREM ExpiryIsDue == Spec => ExpiresWhenDue
  <1>1. IInv /\ [Next]_vars
          => [row'.status = "expired" /\ row.status # "expired" /\ ~disturbed'
                => row.expiredAt = NULL \/ row.expiredAt <= now]_vars
    BY ExpiryStep
  <1> QED BY <1>1, Invariant, PTL DEF Spec, ExpiresWhenDue

=============================================================================
