----------------------------- MODULE MCGpuEnds ------------------------------
(***************************************************************************)
(* What must come to an end, for TLC: a prepaid instance under the         *)
(* operations that pass through a transitional status, or, as `metered`    *)
(* says, a metered one that GET /instances can leave without a meter.      *)
(***************************************************************************)
EXTENDS GpuInstance

VARIABLE metered

LifeOps  == {"create", "start", "stop", "release", "sync"}
MeterOps == {"create", "list", "sync"}

\* The background task of a deletion is not lost.
NotRelease == AllOps \ {"release"}

Metered == INSTANCE GpuInstance WITH Prepaid <- FALSE, Ops <- MeterOps, Losable <- AllOps

all == <<row, dep, job, now, due, overcharged, paid, disturbed, metered>>

EndsInit == Init /\ metered \in BOOLEAN

EndsNext ==
    /\ UNCHANGED metered
    /\ IF metered THEN Metered!Next ELSE Next

\* The fairness of GpuInstance, of the steps of either kind.
Either(step, meteredStep) == UNCHANGED metered /\ IF metered THEN meteredStep ELSE step

EndsSpec ==
    /\ EndsInit /\ [][EndsNext]_all
    /\ \A j \in Jobs : WF_all(Either(Proceed(j), Metered!Proceed(j)))
    /\ \A j \in Workers : /\ SF_all(Either(SyncStatus(j), Metered!SyncStatus(j)))
                          /\ SF_all(Either(LookRight(j), Metered!LookRight(j)))
                          /\ SF_all(Either(CommitSync(j), Metered!CommitSync(j)))
                          /\ SF_all(Either(Remedy(j), Metered!Remedy(j)))
                          /\ SF_all(Either(CommitRemedy(j), Metered!CommitRemedy(j)))
    /\ WF_all(UNCHANGED metered /\ Roll)
    /\ WF_all(Either(Tick, Metered!Tick))

\* MeterStarts, of the metered instance.
MeterIsStarted == metered => Metered!MeterStarts

=============================================================================
