------------------------------- MODULE Tickets --------------------------------
(***************************************************************************)
(* A ticket between its user and the administrators (app/api/v1/tickets.py *)
(* and admin/admin_tickets.py).  Every request reads the row and commits   *)
(* the columns that differ from what it read; nothing is locked.           *)
(***************************************************************************)
EXTENDS Naturals

CONSTANTS
    Sessions,  \* slots for requests
    Admins,
    NULL

VARIABLES
    ticket,    \* the committed row
    sess,      \* what each request is doing
    replier,   \* auxiliary: who wrote the reply
    outdated   \* auxiliary: a request wrote the row on an outdated assumption

vars == <<ticket, sess, replier, outdated>>

Statuses == {"open", "processing", "resolved", "closed"}

Row == [status : Statuses, handler : Admins \cup {NULL}]

\* The columns that the request writes; NULL is one that it leaves alone.
Change  == [status : Statuses \cup {NULL}, handler : Admins \cup {NULL}, reply : BOOLEAN,
            delete : BOOLEAN]
Session == [seen : Row \cup {NULL}, change : Change, by : Admins \cup {NULL}]

Nothing == [status |-> NULL, handler |-> NULL, reply |-> FALSE, delete |-> FALSE]
Idle    == [seen |-> NULL, change |-> Nothing, by |-> NULL]

Init ==
    /\ ticket = NULL /\ replier = NULL /\ outdated = FALSE
    /\ sess = [s \in Sessions |-> Idle]

Free(s) == sess[s].seen = NULL

\* The request by whom (NULL: the user) has read the row.
Begin(s, by, change) ==
    /\ Free(s) /\ ticket # NULL
    /\ sess' = [sess EXCEPT ![s] = [seen |-> ticket, change |-> change, by |-> by]]
    /\ UNCHANGED <<ticket, replier, outdated>>

\* The columns that a request which sets them to status and handler writes.
Differing(status, handler) ==
    [Nothing EXCEPT !.status = IF status # ticket.status THEN status ELSE NULL,
                    !.handler = IF handler # ticket.handler THEN handler ELSE NULL]

-----------------------------------------------------------------------------
Submit(s) ==
    /\ Free(s) /\ ticket = NULL
    /\ ticket' = [status |-> "open", handler |-> NULL]
    /\ UNCHANGED <<sess, replier, outdated>>

\* Title, content, category and priority, as long as nobody has replied.
Update(s) ==
    /\ ticket # NULL /\ ticket.status = "open"
    /\ Begin(s, NULL, Nothing)

\* A closed ticket is refused.
Live == ticket # NULL /\ ticket.status # "closed"

\* close_ticket of the user.
CloseOwn(s) == Live /\ Begin(s, NULL, Differing("closed", ticket.handler))

\* Variant of Handling: the first handler stays.
HandlingFirst(a) == IF ticket.handler = NULL THEN a ELSE ticket.handler

\* Whoever replies handles the ticket from now on.
Handling(a) == a

\* With a status, or an open ticket becomes processing.
Reply(s, a) ==
    /\ Live
    /\ \E to \in Statuses \cup {NULL} :
          Begin(s, a, [Differing(IF to # NULL THEN to
                                 ELSE IF ticket.status = "open" THEN "processing" ELSE ticket.status,
                                 Handling(a)) EXCEPT !.reply = TRUE])

\* resolve_ticket and close_ticket of an administrator, who handles the ticket
\* if nobody does.
Settle(s, a) ==
    /\ Live
    /\ \E to \in {"resolved", "closed"} :
          Begin(s, a, Differing(to, IF ticket.handler = NULL THEN a ELSE ticket.handler))

Delete(s, a) == Begin(s, a, [Nothing EXCEPT !.delete = TRUE])

\* After a deletion the other requests fail: their row is gone.
Commit(s) ==
    LET change == sess[s].change IN
    /\ ~Free(s)
    /\ ticket' = IF change.delete THEN NULL
                 ELSE [status  |-> IF change.status = NULL THEN ticket.status ELSE change.status,
                       handler |-> IF change.handler = NULL THEN ticket.handler ELSE change.handler]
    /\ replier' = IF change.delete THEN NULL ELSE IF change.reply THEN sess[s].by ELSE replier
    /\ outdated' = (outdated \/ ticket # sess[s].seen)
    /\ sess' = [t \in Sessions |-> IF t = s \/ change.delete THEN Idle ELSE sess[t]]

Lose(s) ==
    /\ ~Free(s)
    /\ sess' = [sess EXCEPT ![s] = Idle]
    /\ UNCHANGED <<ticket, replier, outdated>>

Next ==
    \E s \in Sessions :
        \/ Submit(s) \/ Update(s) \/ CloseOwn(s) \/ Commit(s) \/ Lose(s)
        \/ \E a \in Admins : Reply(s, a) \/ Settle(s, a) \/ Delete(s, a)

Spec == Init /\ [][Next]_vars

-----------------------------------------------------------------------------
TypeOK ==
    /\ ticket \in Row \cup {NULL}
    /\ sess \in [Sessions -> Session]
    /\ replier \in Admins \cup {NULL} /\ outdated \in BOOLEAN

\* The handler that the user is shown is the one who wrote the reply, however
\* administrators take turns, unless two requests overlapped.
HandlerReplied == ~outdated /\ ticket # NULL /\ replier # NULL => ticket.handler = replier

=============================================================================
