------------------------------ MODULE MCPortal -------------------------------
(***************************************************************************)
(* What a user meets on the web pages besides instances, files and money:  *)
(* the account, what logins are checked by, the tickets and the status     *)
(* that is pushed.  They share no state; a behaviour is one of the part    *)
(* that `running` names, and the others stay where they begin.  The part   *)
(* "verification" is Verification.                                         *)
(***************************************************************************)
EXTENDS Verification, Sequences, TLC

CONSTANTS Users, Watchers, Requests, InstanceStatuses, ChannelLength,
          Clients, Links, Passwords, Clerks, Admins

VARIABLES
    running,
    status, connection, read, shown, registry, publishing, channel, job, behind, misled,
    row, mailbox, client, rewards, issued, resets, unrewarded, outdated,
    ticket, clerk, replier, overlapped

Push == INSTANCE StatusPush WITH Statuses <- InstanceStatuses
Acct == INSTANCE Accounts WITH Sessions <- Clients, sess <- client
Desk == INSTANCE Tickets WITH Sessions <- Clerks, sess <- clerk, outdated <- overlapped

pushVars == <<status, connection, read, shown, registry, publishing, channel, job, behind, misled>>
acctVars == <<row, mailbox, client, rewards, issued, resets, unrewarded, outdated>>
deskVars == <<ticket, clerk, replier, overlapped>>

PortalInit ==
    /\ running \in {"push", "account", "ticket", "verification"}
    /\ Push!Init /\ Acct!Init /\ Desk!Init /\ Init
    /\ running # "verification" => redis

PortalNext ==
    /\ UNCHANGED running
    /\ \/ running = "push" /\ Push!Next /\ UNCHANGED <<acctVars, deskVars, vars>>
       \/ running = "account" /\ Acct!Next /\ UNCHANGED <<pushVars, deskVars, vars>>
       \/ running = "ticket" /\ Desk!Next /\ UNCHANGED <<pushVars, acctVars, vars>>
       \/ running = "verification" /\ Next /\ UNCHANGED <<pushVars, acctVars, deskVars>>

PortalSpec == PortalInit /\ [][PortalNext]_<<running, pushVars, acctVars, deskVars, vars>>

\* Another part's properties are not evaluated again and again.
ShowsTheStatus   == running = "push" => Push!ShowsTheStatus
OpenIsRegistered == running = "push" => Push!OpenIsRegistered
RewardedOnce     == running = "account" => Acct!RewardedOnce
ResetOnce        == running = "account" => Acct!ResetOnce
HandlerReplied   == running = "ticket" => Desk!HandlerReplied

\* What a column holds is not NULL; every connection is at one end, of a user or
\* of a watcher, and "listener" is no request.
ASSUME PortalAssumption ==
    /\ NULL \notin Admins \cup Links \cup Passwords \cup InstanceStatuses \cup {"user", "instance"}
    /\ NULL \notin Acct!Row /\ NULL \notin Desk!Row
    /\ IsFiniteSet(Users) /\ IsFiniteSet(Watchers) /\ Users \cap Watchers = {}
    /\ "listener" \notin Requests

\* Mailed codes share nothing with captchas and counters: one or the other is in
\* use.
OneStore ==
    \/ mailed = {}
    \/ (\A c \in Captchas : captcha[c] = "new") /\ attempts = [k \in Kinds |-> [t \in Times |-> 0]]

\* Two changes of the status are underway at most.
Calm == Cardinality(Push!Announcing) + Len(channel) + (IF publishing = NULL THEN 0 ELSE 1) <= 2

\* Logins and requests for codes are interchangeable, and so are statuses.
PortalSymmetry == Permutations(Sessions) \cup Permutations(InstanceStatuses)

=============================================================================
