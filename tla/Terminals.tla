------------------------------ MODULE Terminals ------------------------------
(***************************************************************************)
(* The web terminals of app/api/v1/websocket.py and of admin_pods.py: a    *)
(* handler per WebSocket opens an exec stream into a Pod, a reader task    *)
(* copies what the shell writes, and the end of either side has to end the *)
(* other.  Every call that blocks runs in a thread of one pool, first come *)
(* first served, except those of the administrators' handler of            *)
(* websocket.py, which block the event loop.  The console of admin_pods.py *)
(* keeps its stream to itself; the others share TerminalManager.           *)
(***************************************************************************)
EXTENDS Naturals, Sequences, FiniteSets, SequencesExt

CONSTANTS
    Sessions,   \* connections of users
    Admins,     \* connections of /ws/openclaw/admin/terminal
    Consoles,   \* connections of /admin/pods/ws/{ns}/{name}/exec
    PoolSize    \* threads

VARIABLES
    handler,  \* what each handler is doing
    socket,   \* its WebSocket: open, closed by the server, or its client is gone
    shell,    \* the exec stream: none yet, running, over at the other end, closed
    reader,   \* the reader task: none, on, over
    active, exec_streams, last_resize, \* the sessions in TerminalManager's dictionaries
    pool,     \* the calls that are running or wait for a thread
    abandoned \* auxiliary: the consoles that ended without a hold of their stream

vars == <<handler, socket, shell, reader, active, exec_streams, last_resize, pool, abandoned>>

Managed == Sessions \cup Admins
All     == Managed \cup Consoles

\* The connections of which some come, and the others have come and gone.
InitWith(some) ==
    /\ handler = [s \in All |-> IF s \in some THEN "new" ELSE "ended"]
    /\ socket = [s \in All |-> IF s \in some THEN "open" ELSE "gone"]
    /\ shell = [s \in All |-> "none"] /\ reader = [s \in All |-> "none"]
    /\ active = {} /\ exec_streams = {} /\ last_resize = {}
    /\ pool = <<>> /\ abandoned = {}

Init == InitWith(All)

Becomes(s, h) == handler' = [handler EXCEPT ![s] = h]

\* The call c of session s has a thread.
Runs(s, c) == \E i \in 1..PoolSize : i <= Len(pool) /\ pool[i] = <<s, c>>

Without(s, c) == RemoveAt(pool, CHOOSE i \in 1..Len(pool) : pool[i] = <<s, c>>)

\* It returns, and these are called instead.
Returns(s, c, next) == pool' = Without(s, c) \o [i \in 1..Len(next) |-> <<s, next[i]>>]

-----------------------------------------------------------------------------
(***************************************************************************)
(* The handler until it talks.                                             *)
(***************************************************************************)
\* The token and the row have been checked; connect, but for a console.
Admit(s) ==
    /\ s \in Sessions \cup Consoles /\ handler[s] = "new"
    /\ Becomes(s, "waiting")
    /\ active' = active \cup ({s} \ Consoles)
    /\ pool' = Append(pool, <<s, "find">>)
    /\ UNCHANGED <<socket, shell, reader, exec_streams, last_resize, abandoned>>

\* list_pods: there is a Pod, or the handler returns.
Find(s) ==
    /\ s \in Managed /\ Runs(s, "find")
    /\ \E c \in {"open", "disconnect"} : Returns(s, "find", <<c>>)
    /\ UNCHANGED <<handler, socket, shell, reader, active, exec_streams, last_resize, abandoned>>

\* create_exec_connection.
Opened(s) ==
    /\ shell' = [shell EXCEPT ![s] = "running"]
    /\ exec_streams' = exec_streams \cup {s}

\* The client is told, and the reader starts, unless that raises.
Open(s) ==
    /\ s \in Managed /\ Runs(s, "open")
    /\ \/ /\ Opened(s)
          /\ Becomes(s, "talking") /\ reader' = [reader EXCEPT ![s] = "on"]
          /\ Returns(s, "open", <<"read">>)
       \/ /\ Opened(s) /\ socket[s] = "gone"
          /\ Returns(s, "open", <<"disconnect">>)
          /\ UNCHANGED <<handler, reader>>
       \/ /\ Returns(s, "open", <<"disconnect">>)
          /\ UNCHANGED <<handler, shell, reader, exec_streams>>
    /\ UNCHANGED <<socket, active, last_resize, abandoned>>

\* The administrators' handler does all this in one go.
AdmitAdmin(s) ==
    /\ s \in Admins /\ handler[s] = "new"
    /\ active' = active \cup {s}
    /\ \/ /\ Opened(s)
          /\ Becomes(s, "talking") /\ reader' = [reader EXCEPT ![s] = "on"]
          /\ pool' = Append(pool, <<s, "read">>)
       \/ /\ Opened(s) \/ UNCHANGED <<shell, exec_streams>>
          /\ Becomes(s, "waiting")
          /\ pool' = Append(pool, <<s, "disconnect">>)
          /\ UNCHANGED reader
    /\ UNCHANGED <<socket, last_resize, abandoned>>

-----------------------------------------------------------------------------
(***************************************************************************)
(* The same of a console, pod_exec_terminal.                               *)
(***************************************************************************)
\* The server closes the WebSocket, if it is not too late.
HangUp(s) == socket' = [socket EXCEPT ![s] = IF @ = "open" THEN "closed" ELSE @]

\* get_pod: there is the Pod, or the handler returns.
FindPod(s) ==
    /\ s \in Consoles /\ Runs(s, "find")
    /\ \/ Returns(s, "find", <<"open">>) /\ UNCHANGED <<handler, socket>>
       \/ Returns(s, "find", <<>>) /\ Becomes(s, "ended") /\ HangUp(s)
    /\ UNCHANGED <<shell, reader, active, exec_streams, last_resize, abandoned>>

\* exec_interactive_stream, for which the handler waits.  If the client cannot
\* be told of the stream, the handler ends before it has begun to take care.
OpenConsole(s) ==
    /\ s \in Consoles /\ Runs(s, "open") /\ handler[s] = "waiting"
    /\ \/ /\ shell' = [shell EXCEPT ![s] = "running"]
          /\ Becomes(s, "talking") /\ reader' = [reader EXCEPT ![s] = "on"]
          /\ Returns(s, "open", <<"read">>)
          /\ UNCHANGED <<socket, abandoned>>
       \/ /\ socket[s] = "gone"
          /\ shell' = [shell EXCEPT ![s] = "running"] /\ abandoned' = abandoned \cup {s}
          /\ Becomes(s, "ended") /\ Returns(s, "open", <<>>)
          /\ UNCHANGED <<socket, reader>>
       \/ /\ Becomes(s, "ended") /\ HangUp(s) /\ Returns(s, "open", <<>>)
          /\ UNCHANGED <<shell, reader, abandoned>>
    /\ UNCHANGED <<active, exec_streams, last_resize>>

\* After 15 seconds; a call that has a thread goes on.
GiveUp(s) ==
    /\ s \in Consoles /\ handler[s] = "waiting" /\ <<s, "open">> \in Range(pool)
    /\ Becomes(s, "ended") /\ HangUp(s)
    /\ pool' = IF Runs(s, "open") THEN pool ELSE Without(s, "open")
    /\ UNCHANGED <<shell, reader, active, exec_streams, last_resize, abandoned>>

OpenLate(s) ==
    /\ Runs(s, "open") /\ handler[s] = "ended"
    /\ Returns(s, "open", <<>>)
    /\ \/ shell' = [shell EXCEPT ![s] = "running"] /\ abandoned' = abandoned \cup {s}
       \/ UNCHANGED <<shell, abandoned>>
    /\ UNCHANGED <<handler, socket, reader, active, exec_streams, last_resize>>

-----------------------------------------------------------------------------
(***************************************************************************)
(* read_output, around read_from_exec, and read_stream.                    *)
(***************************************************************************)
\* None: the stream is closed or no longer in the dictionary.
NoMore(s) == s \in Managed \ exec_streams \/ shell[s] # "running"

\* Variant of ShellExited: the reader leaves the WebSocket alone.
ShellExitedQuietly(s) == UNCHANGED socket

\* The reader closes the WebSocket.
ShellExited(s) == HangUp(s)

Read(s) ==
    /\ Runs(s, "read")
    /\ IF reader[s] = "over" THEN \* cancelled: nobody waits for the result
            Returns(s, "read", <<>>) /\ UNCHANGED <<reader, socket>>
       ELSE IF NoMore(s) THEN
            /\ ShellExited(s)
            /\ reader' = [reader EXCEPT ![s] = "over"] /\ Returns(s, "read", <<>>)
       ELSE \/ Returns(s, "read", <<"read">>) /\ UNCHANGED <<reader, socket>>
            \/ /\ socket[s] = "gone" \* the output cannot be sent
               /\ reader' = [reader EXCEPT ![s] = "over"] /\ Returns(s, "read", <<>>)
               /\ UNCHANGED socket
    /\ UNCHANGED <<handler, shell, active, exec_streams, last_resize, abandoned>>

-----------------------------------------------------------------------------
(***************************************************************************)
(* The loop that receives messages, and its end.                           *)
(***************************************************************************)
Input(s) ==
    /\ handler[s] = "talking" /\ socket[s] = "open"
    /\ Becomes(s, "waiting")
    /\ pool' = Append(pool, <<s, "write">>)
    /\ UNCHANGED <<socket, shell, reader, active, exec_streams, last_resize, abandoned>>

\* send_to_exec swallows every error; write_stdin of a console may end its loop.
Write(s) ==
    /\ Runs(s, "write")
    /\ \/ Becomes(s, "talking") /\ Returns(s, "write", <<>>) /\ UNCHANGED reader
       \/ /\ s \in Consoles /\ shell[s] # "running"
          /\ reader' = [reader EXCEPT ![s] = "over"]
          /\ Returns(s, "write", <<"close">>) /\ UNCHANGED handler
    /\ UNCHANGED <<socket, shell, active, exec_streams, last_resize, abandoned>>

\* resize_exec, in the event loop.
Resize(s) ==
    /\ handler[s] = "talking" /\ socket[s] = "open"
    /\ s \in exec_streams /\ last_resize' = last_resize \cup {s}
    /\ UNCHANGED <<handler, socket, shell, reader, active, exec_streams, pool, abandoned>>

\* The WebSocket is closed, its client is gone, or a message is not JSON.
Leave(s) ==
    /\ handler[s] = "talking"
    /\ Becomes(s, "waiting")
    /\ reader' = [reader EXCEPT ![s] = "over"]
    /\ pool' = Append(pool, <<s, IF s \in Consoles THEN "close" ELSE "disconnect">>)
    /\ UNCHANGED <<socket, shell, active, exec_streams, last_resize, abandoned>>

\* Variant of Forgotten: the stream is looked up after it has been dropped.
ForgottenFirst(s) ==
    /\ exec_streams' = exec_streams \ {s}
    /\ Returns(s, "disconnect", <<>>) /\ Becomes(s, "ended")

\* disconnect pops the stream, and has to close it if there is one.
Forgotten(s) ==
    /\ exec_streams' = exec_streams \ {s}
    /\ IF s \in exec_streams
       THEN pool' = [i \in 1..Len(pool) |-> IF pool[i] = <<s, "disconnect">> THEN <<s, "close">> ELSE pool[i]]
            /\ UNCHANGED handler
       ELSE Returns(s, "disconnect", <<>>) /\ Becomes(s, "ended")

Disconnect(s) ==
    /\ Runs(s, "disconnect")
    /\ active' = active \ {s} /\ last_resize' = last_resize \ {s}
    /\ Forgotten(s)
    /\ UNCHANGED <<socket, shell, reader, abandoned>>

\* The shell is told to exit, waited for a while, and the stream closed.
Close(s) ==
    /\ Runs(s, "close")
    /\ shell' = [shell EXCEPT ![s] = "closed"]
    /\ Returns(s, "close", <<>>) /\ Becomes(s, "ended")
    /\ UNCHANGED <<socket, reader, active, exec_streams, last_resize, abandoned>>

-----------------------------------------------------------------------------
ClientGoes(s) ==
    /\ handler[s] # "new" /\ socket[s] = "open"
    /\ socket' = [socket EXCEPT ![s] = "gone"]
    /\ UNCHANGED <<handler, shell, reader, active, exec_streams, last_resize, pool, abandoned>>

\* exit, the end of the Pod, or a lost connection.
ShellExits(s) ==
    /\ shell[s] = "running"
    /\ shell' = [shell EXCEPT ![s] = "over"]
    /\ UNCHANGED <<handler, socket, reader, active, exec_streams, last_resize, pool, abandoned>>

Thread(s) ==
    \/ Find(s) \/ Open(s) \/ FindPod(s) \/ OpenConsole(s) \/ OpenLate(s)
    \/ Write(s) \/ Disconnect(s) \/ Close(s)

Next ==
    \E s \in All :
        \/ Admit(s) \/ AdmitAdmin(s) \/ GiveUp(s) \/ Thread(s) \/ Read(s)
        \/ Input(s) \/ Resize(s) \/ Leave(s)
        \/ ClientGoes(s) \/ ShellExits(s)

Spec == Init /\ [][Next]_vars

\* The oldest call returns.
OldestReturns ==
    \E s \in All : /\ pool # <<>> /\ pool[1][1] = s
                  /\ (Thread(s) \/ Read(s))
                  /\ (pool' = <<>> \/ pool'[1] # pool[1])

\* Calls return, and a handler receives the end of its WebSocket.
Fairness ==
    /\ WF_vars(OldestReturns)
    /\ WF_vars(\E s \in All : (Leave(s) /\ socket[s] # "open"))

-----------------------------------------------------------------------------
TypeOK ==
    /\ handler \in [All -> {"new", "waiting", "talking", "ended"}]
    /\ socket \in [All -> {"open", "closed", "gone"}]
    /\ shell \in [All -> {"none", "running", "over", "closed"}]
    /\ reader \in [All -> {"none", "on", "over"}]
    /\ active \subseteq All /\ exec_streams \subseteq All /\ last_resize \subseteq All
    /\ pool \in Seq(All \X {"find", "open", "read", "write", "disconnect", "close"})
    /\ abandoned \subseteq Consoles

\* A handler that has ended leaves nothing behind, whatever its reader was
\* doing when it left: no entry in a dictionary, and no open stream into the Pod,
\* unless a console gave its stream up before it came, or could not announce it.
LeavesNothing ==
    \A s \in All : handler[s] = "ended" =>
        /\ s \notin active \cup exec_streams \cup last_resize
        /\ s \in abandoned \/ shell[s] \in {"none", "closed"}

\* The end of the shell ends the handler, and so does that of the client, with
\* fewer threads than sessions too.
BothSidesEnd ==
    \A s \in All : shell[s] = "over" \/ socket[s] = "gone" ~> handler[s] = "ended"

=============================================================================
