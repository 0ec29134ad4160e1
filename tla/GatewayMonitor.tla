---------------------------- MODULE GatewayMonitor ----------------------------
(***************************************************************************)
(* What the settings of one OpenClaw instance say about its gateway: the   *)
(* worker's openclaw_channel_monitor and openclaw_model_key_monitor        *)
(* (app/tasks.py) read the rows, ask the gateway, and write what they      *)
(* conclude, while requests change the same rows (app/api/v1/openclaw.py). *)
(* A monitor goes through all running instances; what happens at another   *)
(* one can end it.                                                         *)
(***************************************************************************)
EXTENDS Naturals, FiniteSets

CONSTANTS
    Keys, Channels   \* identities of rows of ModelKey and Channel; one is not used again

VARIABLES
    row,      \* the committed row: not there yet, active, active with an empty
              \* api_key, inactive, deleted
    shown,    \* its check_status or online_status
    running,  \* the instance's status is running
    reach,    \* the gateway answers
    monitor   \* what the monitor of each table is doing

vars == <<row, shown, running, reach, monitor>>

Items  == Keys \cup Channels
Tables == {Keys, Channels}

Activity == {"new", "on", "blank", "off", "gone"}
Statuses == {"unknown", "online", "offline", "disabled", "ok", "error"}

Monitor == [at   : {"idle", "listed", "ask", "commit"},
            seen : UNION {[s -> Activity] : s \in SUBSET Items},  \* the rows it has read
            up   : BOOLEAN]                                       \* what the gateway answered

Idle == [at |-> "idle", seen |-> <<>>, up |-> FALSE]

\* The rows of which some will be there, and the others have been deleted.
InitWith(some) ==
    /\ row = [i \in Items |-> IF i \in some THEN "new" ELSE "gone"]
    /\ shown = [i \in Items |-> "unknown"]
    /\ running = FALSE /\ reach = FALSE
    /\ monitor = [t \in Tables |-> Idle]

Init == InitWith(Items)

There(i) == row[i] \notin {"new", "gone"}

-----------------------------------------------------------------------------
\* A commit of a request: another row, another activity, none.
Change ==
    /\ \E i \in Items :
          /\ row[i] # "gone"
          /\ \E to \in {"on", "blank", "off", "gone"} :
                /\ to = "blank" => i \in Keys
                /\ row[i] = "new" => to \in {"on", "blank"}
                /\ row' = [row EXCEPT ![i] = to]
    /\ UNCHANGED <<shown, running, reach, monitor>>

Switch == running' = ~running /\ UNCHANGED <<row, shown, reach, monitor>>
Flip   == reach' = ~reach /\ UNCHANGED <<row, shown, running, monitor>>

-----------------------------------------------------------------------------
\* Variant of Attended: inactive channels are passed over like inactive keys.
AttendedActive(t) == {i \in t : There(i) /\ row[i] # "off"}

\* The rows that the monitor of table t attends to: keys that are active.
Attended(t) == {i \in t : There(i) /\ (i \in Keys => row[i] # "off")}

\* The monitor begins with the list of the running instances.
List(t) ==
    /\ monitor[t].at = "idle" /\ running
    /\ monitor' = [monitor EXCEPT ![t].at = "listed"]
    /\ UNCHANGED <<row, shown, running, reach>>

\* It comes to this instance.
Read(t) ==
    /\ monitor[t].at = "listed"
    /\ monitor' = [monitor EXCEPT ![t] =
          IF Attended(t) = {} THEN Idle
          ELSE [at |-> "ask", seen |-> [i \in Attended(t) |-> row[i]], up |-> FALSE]]
    /\ UNCHANGED <<row, shown, running, reach>>

\* get_status, which is None for any error.
Ask(t) ==
    /\ monitor[t].at = "ask"
    /\ monitor' = [monitor EXCEPT ![t].at = "commit", ![t].up = reach]
    /\ UNCHANGED <<row, shown, running, reach>>

\* The status of i that follows from its row and the gateway's answer.
Concluded(i, activity, up) ==
    CASE i \in Channels /\ activity = "off" -> "disabled"
      [] i \in Channels /\ activity # "off" -> IF up THEN "online" ELSE "offline"
      [] i \in Keys /\ ~up                  -> "unknown"
      [] i \in Keys /\ up                   -> IF activity = "blank" THEN "error" ELSE "ok"

\* All rows in one transaction; the UPDATE of a row that has been deleted may
\* make it fail.
Commit(t) ==
    LET m == monitor[t] IN
    /\ m.at = "commit"
    /\ \/ shown' = [i \in Items |-> IF i \in DOMAIN m.seen
                                   THEN Concluded(i, m.seen[i], m.up) ELSE shown[i]]
       \/ (\E i \in DOMAIN m.seen : ~There(i)) /\ UNCHANGED shown
    /\ monitor' = [monitor EXCEPT ![t] = Idle]
    /\ UNCHANGED <<row, running, reach>>

\* The monitor ends before this instance's commit: it timed out, or another
\* instance's rows were deleted.  An earlier end leaves as little.
Abort(t) ==
    /\ monitor[t].at = "commit"
    /\ monitor' = [monitor EXCEPT ![t] = Idle]
    /\ UNCHANGED <<row, shown, running, reach>>

Next ==
    \/ Change \/ Switch \/ Flip
    \/ \E t \in Tables : List(t) \/ Read(t) \/ Ask(t) \/ Commit(t) \/ Abort(t)

Spec == Init /\ [][Next]_vars

\* cron_jobs come again and again, and do not end every time before they are
\* through with this instance.
Fairness ==
    \A t \in Tables : WF_vars(List(t) \/ Read(t) \/ Ask(t)) /\ SF_vars(Commit(t))

-----------------------------------------------------------------------------
TypeOK ==
    /\ row \in [Items -> Activity] /\ shown \in [Items -> Statuses]
    /\ running \in BOOLEAN /\ reach \in BOOLEAN
    /\ monitor \in [Tables -> Monitor]

\* When the instance keeps running, and a row and the answers of the gateway no
\* longer change, the row's status comes to tell both, and stays: what a monitor
\* concluded from what it had read before the change does not survive.
StatusSettles ==
    \A i \in Items, up \in BOOLEAN : \A activity \in {"on", IF i \in Keys THEN "blank" ELSE "off"} :
        <>[](running /\ row[i] = activity /\ reach = up)
            => <>[](shown[i] = Concluded(i, activity, up))

=============================================================================
