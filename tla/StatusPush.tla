----------------------------- MODULE StatusPush ------------------------------
(***************************************************************************)
(* How a change of one instance's status reaches the browsers: the         *)
(* worker's synchronisation publishes it in Redis and the listener of      *)
(* app/main.py broadcasts it; a request broadcasts it itself               *)
(* (app/services/ws_manager.py); others commit one and tell nobody.  The   *)
(* connections come and go (app/api/v1/websocket.py).  All of it but the   *)
(* worker runs in one event loop: a broadcast goes on after each message   *)
(* it has sent.                                                            *)
(***************************************************************************)
EXTENDS Naturals, Sequences, FiniteSets, SequencesExt

CONSTANTS
    Users,      \* connections of /ws/status, all of the instance's owner
    Watchers,   \* connections of /ws/instance/{instance_id}/status
    Requests,   \* slots for requests that change the status
    Statuses,
    ChannelLength, \* bound on the messages in the Redis channel
    NULL

Connections == Users \cup Watchers
Registries  == {"user", "instance"}
Announcers  == Requests \cup {"listener"}

VARIABLES
    status,     \* the committed status of the instance
    connection, \* each connection: not yet, reading the row, open, left by its client, ended
    read,       \* the status that a watcher read
    shown,      \* what its client shows
    registry,   \* user_connections and instance_connections, for the owner and the instance
    publishing, \* the change that the worker has committed and not published
    channel,    \* lmaicloud:instance_status
    job,        \* what each announcer is doing
    behind,     \* auxiliary: the connections that a message may have missed
    misled      \* auxiliary: those that were not told a change, or told one that was none

vars == <<status, connection, read, shown, registry, publishing, channel, job, behind, misled>>

Job == [message : Statuses \cup {NULL},
        at      : Registries \cup {NULL},
        members : (SUBSET Connections) \cup {NULL}, \* of the set when its iteration began;
                                          \* NULL: it has left the dictionary
        visited : SUBSET Connections,
        dead    : SUBSET Connections,
        crossed : BOOLEAN]                \* auxiliary: another change came in between

Message(s, crossed) == [message |-> s, at |-> NULL, members |-> {}, visited |-> {}, dead |-> {},
                        crossed |-> crossed]

Idle == Message(NULL, FALSE)

Init ==
    /\ \E s \in Statuses : status = s
    /\ connection = [c \in Connections |-> "new"]
    /\ read = [c \in Connections |-> NULL] /\ shown = [c \in Connections |-> NULL]
    /\ registry = [r \in Registries |-> {}]
    /\ publishing = NULL /\ channel = <<>>
    /\ job = [a \in Announcers |-> Idle]
    /\ behind = {} /\ misled = {}

-----------------------------------------------------------------------------
(***************************************************************************)
(* Changes.                                                                *)
(***************************************************************************)
Announcing == {a \in Announcers : job[a].message # NULL}

\* Another change is on its way to the browsers.
Busy == Announcing # {} \/ publishing # NULL \/ channel # <<>>

\* The connections that a message may miss, or reach too late.
Here == {c \in Connections : connection[c] \in {"reading", "open"}}

\* The jobs after a change that crosses them; with others underway, what is
\* shown last is any of them.
Crossed == [a \in Announcers |-> [job[a] EXCEPT !.crossed = a \in Announcing]]
Cross   == behind' = IF Busy THEN Here ELSE behind

\* sync_instance_status_task.
Sync ==
    /\ publishing = NULL
    /\ \E s \in Statuses \ {status} : status' = s /\ publishing' = s
    /\ job' = Crossed /\ Cross
    /\ UNCHANGED <<connection, read, shown, registry, channel, misled>>

\* The message is lost when Redis or the listener's subscription is.
Publish ==
    /\ publishing # NULL /\ publishing' = NULL
    /\ \/ /\ Len(channel) < ChannelLength
          /\ channel' = Append(channel, publishing)
          /\ UNCHANGED behind
       \/ UNCHANGED channel /\ behind' = Here
    /\ UNCHANGED <<status, connection, read, shown, registry, job, misled>>

\* A request, or its background task, that commits a status and broadcasts it;
\* the row may have it already.
Request(r) ==
    /\ r \in Requests /\ job[r].message = NULL
    /\ \E s \in Statuses :
          /\ status' = s
          /\ job' = [Crossed EXCEPT ![r] = Message(s, Busy)]
    /\ Cross
    /\ UNCHANGED <<connection, read, shown, registry, publishing, channel, misled>>

\* A status is committed and nobody is told: GET /instances writes what it derives
\* from the Deployment; so do the handlers that write STARTING, RELEASING and a
\* forced RELEASED, the renewal by hand, billing with EXPIRED and a forced STOPPED,
\* and the administrator's scaling and deletion of the Deployment.
Unannounced ==
    /\ \E s \in Statuses \ {status} : status' = s
    /\ job' = Crossed /\ Cross
    /\ misled' = Here
    /\ UNCHANGED <<connection, read, shown, registry, publishing, channel>>

\* do_release broadcasts "released" even when its commit has failed.
Uncommitted(r) ==
    /\ r \in Requests /\ job[r].message = NULL
    /\ \E s \in Statuses \ {status} :
          job' = [Crossed EXCEPT ![r] = Message(s, TRUE)]
    /\ Cross
    /\ misled' = Here
    /\ UNCHANGED <<status, connection, read, shown, registry, publishing, channel>>

\* The listener handles one message at a time.
Listen ==
    /\ channel # <<>> /\ job["listener"].message = NULL
    /\ channel' = Tail(channel)
    /\ job' = [job EXCEPT !["listener"] = Message(Head(channel),
                                               Announcing # {} \/ Head(channel) # status)]
    /\ UNCHANGED <<status, connection, read, shown, registry, publishing, behind, misled>>

-----------------------------------------------------------------------------
(***************************************************************************)
(* send_to_user, then send_to_instance_subscribers: an iteration of a set  *)
(* with an await after each message.                                       *)
(***************************************************************************)
\* The registry r, if it is not empty, is iterated.
Iterate(a, r) ==
    job' = [job EXCEPT ![a] = [@ EXCEPT !.at = r, !.members = registry[r],
                                        !.visited = {}, !.dead = {}]]

\* When an administrator stops the instance, the message goes to his own
\* connections instead of the owner's.
Start(a) ==
    /\ job[a].message # NULL /\ job[a].at = NULL
    /\ \/ Iterate(a, "user") /\ UNCHANGED misled
       \/ a \in Requests /\ Iterate(a, "instance") /\ misled' = misled \cup (Here \cap Users)
    /\ UNCHANGED <<status, connection, read, shown, registry, publishing, channel, behind>>

\* The set has changed its size, or is no longer in the dictionary.
Disturbed(a) ==
    job[a].members # NULL => Cardinality(registry[job[a].at]) # Cardinality(job[a].members)

\* Variant of Rest: the subscribers of the instance are left out.
RestOfUser(a) == IF job[a].at = "user" THEN registry["user"] \ job[a].visited ELSE {}

\* The connections that the iteration has not come to.
Rest(a) == registry[job[a].at] \ job[a].visited

Send(a) ==
    /\ job[a].at # NULL /\ ~Disturbed(a)
    /\ \E c \in Rest(a) :
          /\ shown' = IF connection[c] = "open" THEN [shown EXCEPT ![c] = job[a].message] ELSE shown
          /\ job' = [job EXCEPT ![a].visited = @ \cup {c},
                                ![a].dead = IF connection[c] = "open" THEN @ ELSE @ \cup {c}]
    /\ UNCHANGED <<status, connection, read, registry, publishing, channel, behind, misled>>

\* Variant of Cleaned: what was visited goes.
CleanedVisited(a) == [registry EXCEPT ![job[a].at] = @ \ job[a].visited]

\* The dead connections are discarded; an empty set stays in the dictionary.
Cleaned(a) == [registry EXCEPT ![job[a].at] = @ \ job[a].dead]

\* What is shown by those that a broadcast has come to is the last change, unless
\* another one crossed it.
Tells(a) == ~(job[a].crossed \/ publishing # NULL \/ channel # <<>> \/ Announcing # {a})

\* Of a set that has changed, but not its size, the iteration may skip members.
EndOfSet(a) ==
    /\ job[a].at # NULL /\ ~Disturbed(a)
    /\ Rest(a) = {} \/ registry[job[a].at] # job[a].members
    /\ registry' = Cleaned(a)
    /\ IF job[a].at = "user" THEN Iterate(a, "instance") ELSE job' = [job EXCEPT ![a] = Idle]
    /\ behind' = (IF Tells(a) THEN behind \ job[a].visited ELSE behind) \cup (Rest(a) \cap Here)
    /\ misled' = IF Tells(a) THEN misled \ job[a].visited ELSE misled
    /\ UNCHANGED <<status, connection, read, shown, publishing, channel>>

\* "Set changed size during iteration": the rest gets no message.
Abort(a) ==
    /\ job[a].at # NULL /\ Disturbed(a)
    /\ job' = [job EXCEPT ![a] = Idle]
    /\ behind' = behind \cup (Here \ IF job[a].at = "instance" THEN job[a].visited ELSE {})
    /\ UNCHANGED <<status, connection, read, shown, registry, publishing, channel, misled>>

-----------------------------------------------------------------------------
(***************************************************************************)
(* Connections.                                                            *)
(***************************************************************************)
Register(c, r) == registry' = [registry EXCEPT ![r] = @ \cup {c}]

\* /ws/status: nothing is shown before the first message.
ConnectUser(c) ==
    /\ c \in Users /\ connection[c] = "new"
    /\ connection' = [connection EXCEPT ![c] = "open"]
    /\ Register(c, "user")
    /\ behind' = IF Busy THEN behind \cup {c} ELSE behind
    /\ UNCHANGED <<status, read, shown, publishing, channel, job, misled>>

\* Its message subscribe_instance.
Subscribe(c) ==
    /\ c \in Users /\ connection[c] = "open"
    /\ Register(c, "instance")
    /\ UNCHANGED <<status, connection, read, shown, publishing, channel, job, behind, misled>>

\* /ws/instance/.../status: the row is read, the handshake done, the connection
\* registered, and the status that was read is sent.
ReadRow(c) ==
    /\ c \in Watchers /\ connection[c] = "new"
    /\ connection' = [connection EXCEPT ![c] = "reading"]
    /\ read' = [read EXCEPT ![c] = status]
    /\ UNCHANGED <<status, shown, registry, publishing, channel, job, behind, misled>>

ConnectWatcher(c) ==
    /\ connection[c] = "reading"
    /\ connection' = [connection EXCEPT ![c] = "open"]
    /\ Register(c, "instance")
    /\ shown' = [shown EXCEPT ![c] = read[c]]
    /\ read' = [read EXCEPT ![c] = NULL]
    /\ behind' = IF read[c] # status \/ Busy THEN behind \cup {c} ELSE behind
    /\ UNCHANGED <<status, publishing, channel, job, misled>>

Leave(c) ==
    /\ connection[c] = "open"
    /\ connection' = [connection EXCEPT ![c] = "left"]
    /\ shown' = [shown EXCEPT ![c] = NULL]
    /\ behind' = behind \ {c} /\ misled' = misled \ {c}
    /\ UNCHANGED <<status, read, registry, publishing, channel, job>>

\* disconnect_user or disconnect_instance: a subscription by message stays.
Unregistered(c) ==
    LET r == IF c \in Users THEN "user" ELSE "instance" IN [registry EXCEPT ![r] = @ \ {c}]

\* A set that becomes empty leaves the dictionary, and its iteration finds it
\* smaller, whatever set comes after it.
EndHandler(c) ==
    /\ connection[c] = "left"
    /\ connection' = [connection EXCEPT ![c] = "ended"]
    /\ registry' = Unregistered(c)
    /\ job' = [a \in Announcers |->
                 IF \E r \in Registries : job[a].at = r /\ registry[r] # {} /\ registry'[r] = {}
                 THEN [job[a] EXCEPT !.members = NULL] ELSE job[a]]
    /\ UNCHANGED <<status, read, shown, publishing, channel, behind, misled>>

Proceed(a) == Start(a) \/ Send(a) \/ EndOfSet(a) \/ Abort(a)

Next ==
    \/ Sync \/ Publish \/ Listen \/ Unannounced
    \/ \E r \in Requests : Request(r) \/ Uncommitted(r)
    \/ \E a \in Announcers : Proceed(a)
    \/ \E c \in Connections : \/ ConnectUser(c) \/ Subscribe(c) \/ ReadRow(c) \/ ConnectWatcher(c)
                              \/ Leave(c) \/ EndHandler(c)

Spec == Init /\ [][Next]_vars

-----------------------------------------------------------------------------
TypeOK ==
    /\ status \in Statuses
    /\ connection \in [Connections -> {"new", "reading", "open", "left", "ended"}]
    /\ read \in [Connections -> Statuses \cup {NULL}] /\ shown \in [Connections -> Statuses \cup {NULL}]
    /\ registry \in [Registries -> SUBSET Connections]
    /\ publishing \in Statuses \cup {NULL} /\ channel \in Seq(Statuses)
    /\ job \in [Announcers -> Job]
    /\ behind \subseteq Connections /\ misled \subseteq Connections

Quiet == Announcing = {} /\ publishing = NULL /\ channel = <<>>

\* When nothing is underway an open connection shows the committed status, or
\* nothing yet; unless changes crossed each other, a message was lost, a broadcast
\* broke off or skipped it because connections came or went, or a change came
\* between the reading of the row and the registration (behind); or unless, since
\* it was last told, a status was committed that nobody announced, or announced
\* that was not committed (misled).
ShowsTheStatus ==
    Quiet => \A c \in Connections \ (behind \cup misled) :
                connection[c] = "open" => shown[c] \in {status, NULL}

\* websocket_status promises its clients every change of a status: as before, but
\* no committed change goes unannounced.
EveryChangeIsPushed ==
    Quiet => \A c \in Connections \ behind :
                connection[c] = "open" => shown[c] \in {status, NULL}

\* An open connection gets the broadcasts: no clean-up of dead connections, and
\* no end of another handler, takes it out of its registry.
OpenIsRegistered ==
    \A c \in Connections : connection[c] = "open"
        => c \in registry[IF c \in Users THEN "user" ELSE "instance"]

=============================================================================
