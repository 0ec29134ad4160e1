------------------------------ MODULE LogStream -------------------------------
(***************************************************************************)
(* The page that follows the log of an instance's Pod: websocket_logs in   *)
(* app/api/v1/websocket.py finds the Pod by its label, sends the tail of   *)
(* its log, and sends it again whenever it has changed.  Kubernetes may    *)
(* answer with an error at any time, which counts as no Pod, or no log.    *)
(***************************************************************************)
EXTENDS Naturals

CONSTANTS
    Pods,      \* names of the Pods that the Deployment makes one after the other
    MaxLog,    \* bound on the number of times that a log grows
    NULL

VARIABLES
    pod,       \* the instance's Pod
    log,       \* what it has written: how often it has grown
    page,      \* what the handler is doing
    pod_name,  \* the Pod that it has found
    last,      \* the Pod's log as it was last sent
    client     \* the client is there

vars == <<pod, log, page, pod_name, last, client>>

Texts == [pod : Pods, length : 1 .. MaxLog]

Init ==
    /\ pod \in Pods \cup {NULL} /\ log = 0
    /\ page = "new" /\ pod_name = NULL /\ last = NULL
    /\ client = TRUE

-----------------------------------------------------------------------------
\* list_pods, or an exception.
Found == {pod, NULL}

\* The log of the Pod, if it has written anything; None for a Pod that is gone,
\* and for an error.
Read(name) ==
    {NULL} \cup (IF name # NULL /\ name = pod /\ log > 0 THEN {[pod |-> pod, length |-> log]} ELSE {})

\* Accept, find the Pod, send its log.
Connect ==
    /\ page = "new"
    /\ \/ /\ pod_name' \in Found
          /\ last' \in Read(pod_name')
          /\ page' \in {"following", "ended"} \* without follow
       \/ ~client /\ page' = "ended" /\ UNCHANGED <<pod_name, last>>
    /\ UNCHANGED <<pod, log, client>>

\* Variant of Refreshed: the Pod is found at the beginning or never.
RefreshedNever == pod_name' = pod_name

\* Once it has been found, its name is not looked up again.
Refreshed == IF pod_name = NULL THEN pod_name' \in Found ELSE pod_name' = pod_name

\* One turn of the loop.  A log that differs is sent; a message of the client is
\* answered, and one that is not JSON answered with an error instead.
Turn ==
    /\ page = "following" /\ client
    /\ \/ /\ Refreshed
          /\ \E text \in Read(pod_name') : last' = IF text # NULL THEN text ELSE last
       \/ UNCHANGED <<pod_name, last>>
    /\ UNCHANGED <<pod, log, page, client>>

\* The client is gone: WebSocketDisconnect, or an answer that cannot be sent.
End ==
    /\ page = "following" /\ ~client
    /\ page' = "ended"
    /\ UNCHANGED <<pod, log, pod_name, last, client>>

-----------------------------------------------------------------------------
Write ==
    /\ pod # NULL /\ log < MaxLog
    /\ log' = log + 1
    /\ UNCHANGED <<pod, page, pod_name, last, client>>

\* The Pod goes, or the Deployment makes one, with a new name.
Replace ==
    /\ pod' \in (IF pod = NULL THEN Pods \ {pod_name} ELSE {NULL}) /\ log' = 0
    /\ UNCHANGED <<page, pod_name, last, client>>

Leave ==
    /\ client' = FALSE
    /\ UNCHANGED <<pod, log, page, pod_name, last>>

Next == Connect \/ Turn \/ End \/ Write \/ Replace \/ Leave

Spec == Init /\ [][Next]_vars

\* The handler turns, and Kubernetes does not fail for ever.
Fairness == WF_vars(End) /\ WF_vars(Turn /\ last' # last)

-----------------------------------------------------------------------------
TypeOK ==
    /\ pod \in Pods \cup {NULL} /\ log \in 0 .. MaxLog
    /\ page \in {"new", "following", "ended"}
    /\ pod_name \in Pods \cup {NULL} /\ last \in Texts \cup {NULL}
    /\ client \in BOOLEAN

\* The page does not show what the Pod has written.
Behind == page = "following" /\ log > 0 /\ last # [pod |-> pod, length |-> log]

\* A page that follows the log catches up with it, whether or not there was a
\* Pod when it was opened; unless the Pod it has found is replaced, since its
\* name is not looked up again.
LogIsShown == Behind ~> ~Behind \/ pod_name \notin {pod, NULL}

=============================================================================
