----------------------------- MODULE WorkerBoot ------------------------------
(***************************************************************************)
(* Which processes run the ARQ worker.  Every uvicorn process starts it in *)
(* a child when it starts itself, unless another one holds a lock in Redis *)
(* that nobody renews (app/main.py); a worker that starts clears the marks *)
(* of the jobs in progress, so that the jobs of a worker that died run     *)
(* again (startup in app/tasks.py).  ARQ is modelled from how it is used:  *)
(* a job stays in the queue until it ends, and is marked while it runs.    *)
(***************************************************************************)
CONSTANTS
    Processes,  \* slots for processes of uvicorn
    Workers,    \* identities of children; one is not used again
    NULL

VARIABLES
    phase,    \* of each process: not there, about to start a worker, serving, its worker
              \* stopped, about to release the lock for the last time
    child,    \* the worker that each process has started, as it knows
    worker,   \* each worker: not started yet, its module loading, at work, gone
    lock,     \* the holder of lmaicloud:arq_worker_lock
    queued,   \* the job of one kind of cron_jobs is in the queue
    marked,   \* its key arq:in-progress is there
    runners,  \* the workers that run it
    excused,  \* auxiliary: what the lock does not guard against has happened
    cleared   \* auxiliary: the mark of a job that ran was cleared

vars == <<phase, child, worker, lock, queued, marked, runners, excused, cleared>>

Init ==
    /\ phase = [p \in Processes |-> "down"] /\ child = [p \in Processes |-> NULL]
    /\ worker = [w \in Workers |-> "new"]
    /\ lock = NULL
    /\ queued = FALSE /\ marked = FALSE /\ runners = {}
    /\ excused = FALSE /\ cleared = FALSE

Living   == {w \in Workers : worker[w] \in {"loading", "working"}}
Starting == {p \in Processes : phase[p] = "starting"}

\* The lock is gone, though it guards a worker that lives or is about to.
Unguarded == excused' = (excused \/ Living # {} \/ Starting # {})

-----------------------------------------------------------------------------
(***************************************************************************)
(* _start_arq_worker and _stop_arq_worker.                                 *)
(***************************************************************************)
\* Variant of Acquired: the lock is taken from its holder.
AcquiredAnyway(p) == lock' = p

\* SET NX.
Acquired(p) == lock = NULL /\ lock' = p

\* When Redis fails the worker is started all the same.
Boot(p) ==
    /\ phase[p] = "down"
    /\ \/ /\ phase' = [phase EXCEPT ![p] = "starting"]
          /\ Acquired(p) \/ UNCHANGED lock
          /\ excused' = (excused \/ ~Acquired(p))
       \/ /\ lock # NULL /\ phase' = [phase EXCEPT ![p] = "serving"]
          /\ UNCHANGED <<lock, excused>>
    /\ UNCHANGED <<child, worker, queued, marked, runners, cleared>>

\* The next identity that is not used yet.
Fresh ==
    LET new == {w \in Workers : worker[w] = "new"}
    IN  IF new = {} THEN {} ELSE {CHOOSE w \in new : TRUE}

\* Popen, which may fail: then the lock is held for nobody.
Start(p) ==
    /\ phase[p] = "starting" /\ phase' = [phase EXCEPT ![p] = "serving"]
    /\ \/ \E w \in Fresh : /\ worker' = [worker EXCEPT ![w] = "loading"]
                           /\ child' = [child EXCEPT ![p] = w]
       \/ UNCHANGED <<child, worker>>
    /\ UNCHANGED <<lock, queued, marked, runners, excused, cleared>>

\* A worker and what it runs are gone.
Gone(w) ==
    /\ worker' = [x \in Workers |-> IF x = w THEN "gone" ELSE worker[x]]
    /\ runners' = runners \ {w}

\* Variant of Unmarked: a worker that stops clears the marks of all jobs.
UnmarkedAll(w) == {FALSE}

\* A worker that stops in time gives its job back, mark included.
Unmarked(w) == IF w \in runners THEN {marked, FALSE} ELSE {marked}

\* terminate, wait and kill.  Of a process that started a worker the function is
\* also registered with atexit.
Shut(p) ==
    /\ phase[p] = "serving"
    /\ phase' = [phase EXCEPT ![p] = IF child[p] = NULL THEN "leaving" ELSE "stopping"]
    /\ Gone(child[p])
    /\ marked' \in Unmarked(child[p])
    /\ child' = [child EXCEPT ![p] = NULL]
    /\ UNCHANGED <<lock, queued, excused, cleared>>

\* The lock goes, whoever holds it, unless Redis fails; once more at exit.
Release(p) ==
    /\ phase[p] \in {"stopping", "leaving"}
    /\ phase' = [phase EXCEPT ![p] = IF @ = "stopping" THEN "leaving" ELSE "down"]
    /\ \/ lock' = NULL /\ Unguarded
       \/ UNCHANGED <<lock, excused>>
    /\ UNCHANGED <<child, worker, queued, marked, runners, cleared>>

\* The process is killed; its child lives on.
Kill(p) ==
    /\ phase[p] # "down"
    /\ phase' = [phase EXCEPT ![p] = "down"] /\ child' = [child EXCEPT ![p] = NULL]
    /\ UNCHANGED <<worker, lock, queued, marked, runners, excused, cleared>>

\* 60 seconds after it was taken.
LockExpires ==
    /\ lock # NULL /\ lock' = NULL
    /\ Unguarded
    /\ UNCHANGED <<phase, child, worker, queued, marked, runners, cleared>>

-----------------------------------------------------------------------------
\* startup: every mark is taken for a stale one; Redis may fail.
Load(w) ==
    /\ worker[w] = "loading"
    /\ worker' = [worker EXCEPT ![w] = "working"]
    /\ \/ marked' = FALSE /\ cleared' = (cleared \/ (marked /\ runners # {}))
       \/ UNCHANGED <<marked, cleared>>
    /\ UNCHANGED <<phase, child, lock, queued, runners, excused>>

\* Of the jobs of all workers for the same time one is queued.
Enqueue ==
    /\ ~queued /\ \E w \in Workers : worker[w] = "working"
    /\ queued' = TRUE
    /\ UNCHANGED <<phase, child, worker, lock, marked, runners, excused, cleared>>

Take(w) ==
    /\ worker[w] = "working" /\ queued /\ ~marked
    /\ marked' = TRUE /\ runners' = runners \cup {w}
    /\ UNCHANGED <<phase, child, worker, lock, queued, excused, cleared>>

End(w) ==
    /\ w \in runners
    /\ runners' = runners \ {w} /\ queued' = FALSE /\ marked' = FALSE
    /\ UNCHANGED <<phase, child, worker, lock, excused, cleared>>

Die(w) ==
    /\ w \in Living
    /\ Gone(w)
    /\ UNCHANGED <<phase, child, lock, queued, marked, excused, cleared>>

\* The mark lives longer than a job may run.
MarkExpires ==
    /\ marked /\ runners = {}
    /\ marked' = FALSE
    /\ UNCHANGED <<phase, child, worker, lock, queued, runners, excused, cleared>>

Next ==
    \/ \E p \in Processes : Boot(p) \/ Start(p) \/ Shut(p) \/ Release(p) \/ Kill(p)
    \/ \E w \in Workers : Load(w) \/ Take(w) \/ End(w) \/ Die(w)
    \/ LockExpires \/ Enqueue \/ MarkExpires

Spec == Init /\ [][Next]_vars

-----------------------------------------------------------------------------
TypeOK ==
    /\ phase \in [Processes -> {"down", "starting", "serving", "stopping", "leaving"}]
    /\ child \in [Processes -> Workers \cup {NULL}]
    /\ worker \in [Workers -> {"new", "loading", "working", "gone"}]
    /\ lock \in Processes \cup {NULL}
    /\ queued \in BOOLEAN /\ marked \in BOOLEAN
    /\ runners \subseteq Workers /\ excused \in BOOLEAN /\ cleared \in BOOLEAN

\* However the processes start and stop, one worker lives, unless the lock expired
\* or another process released it while a worker lived or was about to, or Redis
\* could not be asked.
OneWorker == ~excused => \A v, w \in Living : v = w

\* However many workers live, a job has one runner, whichever process or worker
\* stops or dies, unless another worker started meanwhile and cleared its mark.
OneRunner == ~cleared => \A v, w \in runners : v = w

=============================================================================
