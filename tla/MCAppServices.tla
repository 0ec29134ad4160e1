--------------------------- MODULE MCAppServices ------------------------------
(***************************************************************************)
(* Services of the application that share no state: a behaviour is one of  *)
(* the service that `running` names, and the others stay where they begin. *)
(* The service "ledger" is that of MCRechargeLedger.                       *)
(***************************************************************************)
EXTENDS MCRechargeLedger, Sequences

CONSTANTS Processes, Workers, Sockets, Admins, Consoles, PoolSize, Pods, MaxLog, Keys, Channels

VARIABLES
    running,
    phase, child, worker, lock, queued, marked, runners, excused, cleared,
    handler, socket, shell, reader, active, exec_streams, last_resize, pool, abandoned,
    pod, log, page, pod_name, last, client,
    row, shown, live, reach, monitor

Boot == INSTANCE WorkerBoot
Term == INSTANCE Terminals WITH Sessions <- Sockets
Logs == INSTANCE LogStream
Gate == INSTANCE GatewayMonitor WITH running <- live

bootVars == <<phase, child, worker, lock, queued, marked, runners, excused, cleared>>
termVars == <<handler, socket, shell, reader, active, exec_streams, last_resize, pool, abandoned>>
logVars  == <<pod, log, page, pod_name, last, client>>
gateVars == <<row, shown, live, reach, monitor>>

ServicesInit ==
    /\ running \in {"ledger", "boot", "terminals", "logs", "gateway"}
    /\ Init /\ Boot!Init /\ Logs!Init
    /\ running # "ledger" => \A v \in Recharges : voucher[v] = "absent"
    /\ running # "logs" => pod = NULL
    \* Keys or channels.
    /\ \E table \in Gate!Tables :
          /\ running # "gateway" => table = Keys
          /\ Gate!InitWith(table)
    \* Connections of two of the three kinds.
    /\ \E absent \in {Sockets, Admins, Consoles} :
          /\ running # "terminals" => absent = Consoles
          /\ Term!InitWith(Term!All \ absent)

ServicesNext ==
    /\ UNCHANGED running
    /\ \/ /\ running = "ledger" /\ Next
          /\ UNCHANGED <<bootVars, termVars, logVars, gateVars>>
       \/ /\ running = "boot" /\ Boot!Next
          /\ UNCHANGED <<vars, termVars, logVars, gateVars>>
       \/ /\ running = "terminals" /\ Term!Next
          /\ UNCHANGED <<vars, bootVars, logVars, gateVars>>
       \/ /\ running = "logs" /\ Logs!Next
          /\ UNCHANGED <<vars, bootVars, termVars, gateVars>>
       \/ /\ running = "gateway" /\ Gate!Next
          /\ UNCHANGED <<vars, bootVars, termVars, logVars>>

\* What is fair in a service cannot happen where it begins.
ServicesSpec ==
    /\ ServicesInit /\ [][ServicesNext]_<<running, vars, bootVars, termVars, logVars, gateVars>>
    /\ Fairness /\ Term!Fairness /\ Logs!Fairness /\ Gate!Fairness

OneWorker     == Boot!OneWorker
OneRunner     == Boot!OneRunner
LeavesNothing == Term!LeavesNothing
BothSidesEnd  == Term!BothSidesEnd
LogIsShown    == Logs!LogIsShown
StatusSettles == Gate!StatusSettles

\* A console is no connection of the other handlers, and names are not NULL.
ASSUME ServicesAssumption ==
    /\ (Sockets \cup Admins) \cap Consoles = {}
    /\ PoolSize \in Nat /\ MaxLog \in Nat
    /\ NULL \notin Processes

=============================================================================
