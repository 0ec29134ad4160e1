------------------------------ MODULE Accounts --------------------------------
(***************************************************************************)
(* The account of one e-mail address: registration, activation by a link,  *)
(* the reward for whoever invited it, and the ways to a new password       *)
(* (app/api/v1/auth.py).  Every request reads the row, and commits the     *)
(* columns that it changes later; one column holds the link, whether it    *)
(* activates the account or resets the password.                           *)
(***************************************************************************)
EXTENDS Naturals, FiniteSets

CONSTANTS
    Sessions,   \* slots for requests
    Links,      \* the random tokens, each generated once
    Passwords,
    NULL

VARIABLES
    row,        \* the committed row of the address
    mailbox,    \* the links that have arrived there
    sess,       \* what each request is doing
    rewards,    \* the inviter's records INVITE_REWARD, for this account
    issued,     \* auxiliary: the links that were generated
    resets,     \* auxiliary: how often each link has set a password
    unrewarded, \* auxiliary: the reward was not to be had, or could not be written
    outdated    \* auxiliary: a request wrote the row on an outdated assumption

vars == <<row, mailbox, sess, rewards, issued, resets, unrewarded, outdated>>

Row == [verified : BOOLEAN,
        link     : Links \cup {NULL},  \* activation_token
        reset    : BOOLEAN,            \* it has the prefix of a reset
        fresh    : BOOLEAN,            \* activation_expires_at is to come
        password : Passwords \cup {NULL}, \* NULL: a random one
        invited  : BOOLEAN]            \* invited_by is set

Ops   == {"register", "code", "create", "activate", "resend", "forgot", "reset", "change"}
Steps == {"idle", "insert", "commit", "reward", "mail"}

Session == [op       : Ops \cup {NULL},
            at       : Steps,
            seen     : Row \cup {NULL},
            new      : Row \cup {NULL},
            link     : Links \cup {NULL},
            password : Passwords \cup {NULL}]

Idle == [op |-> NULL, at |-> "idle", seen |-> NULL, new |-> NULL, link |-> NULL, password |-> NULL]

Init ==
    /\ row = NULL /\ mailbox = {} /\ rewards = 0
    /\ sess = [s \in Sessions |-> Idle]
    /\ issued = {} /\ resets = [l \in Links |-> 0]
    /\ unrewarded = FALSE /\ outdated = FALSE

Exists  == row # NULL
Goto(s, step) == sess' = [sess EXCEPT ![s].at = step]
Finish(s)     == sess' = [sess EXCEPT ![s] = Idle]

\* The request reads the row, and is to write it.
Begin(s, op, step, new, link, password) ==
    /\ sess[s].at = "idle"
    /\ sess' = [sess EXCEPT ![s] = [op |-> op, at |-> step, seen |-> row, new |-> new,
                                    link |-> link, password |-> password]]
    /\ issued' = issued \cup ({link} \ {NULL})
    /\ UNCHANGED <<row, mailbox, rewards, resets, unrewarded, outdated>>

\* A link nobody has.
New(link) == link \in Links \ issued

\* The row as a new account.
Account(verified, link, password, invited) ==
    [verified |-> verified, link |-> link, reset |-> FALSE, fresh |-> link # NULL,
     password |-> password, invited |-> invited]

-----------------------------------------------------------------------------
(***************************************************************************)
(* New accounts.                                                           *)
(***************************************************************************)
\* An address whose account is not active may be registered again.
MayRegister == Exists /\ ~row.verified

\* The setting email_verification_required may be off.
Register(s) ==
    \E p \in Passwords :
        \/ /\ ~Exists
           /\ \/ \E l \in Links, invited \in BOOLEAN :
                    New(l) /\ Begin(s, "register", "insert", Account(FALSE, l, p, invited), l, p)
              \/ \E invited \in BOOLEAN :
                    Begin(s, "register", "insert", Account(TRUE, NULL, p, invited), NULL, p)
        \/ MayRegister /\ \E l \in Links : New(l) /\ Begin(s, "register", "commit", NULL, l, p)

\* login_with_code makes an account that is not active, and no link for it.
LoginWithCode(s) ==
    ~Exists /\ Begin(s, "code", "insert", Account(FALSE, NULL, NULL, FALSE), NULL, NULL)

\* The administrator makes one that is active.
CreateUser(s) ==
    ~Exists /\ \E p \in Passwords : Begin(s, "create", "insert", Account(TRUE, NULL, p, FALSE), NULL, p)

\* The address is unique.
Insert(s) ==
    /\ sess[s].at = "insert"
    /\ IF Exists THEN Finish(s) /\ UNCHANGED <<row, unrewarded>>
       ELSE /\ row' = sess[s].new
            /\ unrewarded' = (sess[s].new.verified /\ sess[s].new.invited)
            /\ IF sess[s].link # NULL THEN Goto(s, "mail") ELSE Finish(s)
    /\ UNCHANGED <<mailbox, rewards, issued, resets, outdated>>

-----------------------------------------------------------------------------
(***************************************************************************)
(* Changes of the row: read, then commit.                                  *)
(***************************************************************************)
Resend(s) ==
    /\ Exists /\ ~row.verified
    /\ \E l \in Links : New(l) /\ Begin(s, "resend", "commit", NULL, l, NULL)

\* Only of an active account.
Forgot(s) ==
    /\ Exists /\ row.verified
    /\ \E l \in Links : New(l) /\ Begin(s, "forgot", "commit", NULL, l, NULL)

\* Whoever has the mail sends its link.
Holds(l, reset) == Exists /\ l \in mailbox /\ row.link = l /\ row.reset = reset

\* A link that has expired is refused, and so is one of an active account.
Activate(s) ==
    \E l \in Links : /\ Holds(l, FALSE) /\ ~row.verified /\ row.fresh
                     /\ Begin(s, "activate", "commit", NULL, NULL, NULL)

\* A link that has expired is removed.
Reset(s) ==
    \E l \in Links, p \in Passwords :
        /\ Holds(l, TRUE)
        /\ Begin(s, "reset", "commit", NULL, NULL, IF row.fresh THEN p ELSE NULL)

\* With the old password.
Change(s) ==
    /\ Exists
    /\ \E p \in Passwords \ {row.password} : Begin(s, "change", "commit", NULL, NULL, p)

\* Variant of Spent: the link stays.
SpentNot(r) == r

\* The link is gone.
Spent(r) == [r EXCEPT !.link = NULL, !.reset = FALSE, !.fresh = FALSE]

\* Variant of Activated: the row is not marked.
ActivatedNot(r) == Spent(r)

Activated(r) == [Spent(r) EXCEPT !.verified = TRUE]

Linked(r, l, reset) == [r EXCEPT !.link = l, !.reset = reset, !.fresh = TRUE]

\* What the request makes of the row r.
Written(w, r) ==
    CASE w.op = "register" -> [Linked(r, w.link, FALSE) EXCEPT !.password = w.password]
      [] w.op = "resend"   -> Linked(r, w.link, FALSE)
      [] w.op = "forgot"   -> Linked(r, w.link, TRUE)
      [] w.op = "activate" -> Activated(r)
      [] w.op = "reset" /\ w.password = NULL -> Spent(r)
      [] w.op = "reset" /\ w.password # NULL -> [Spent(r) EXCEPT !.password = w.password]
      [] w.op = "change"   -> [r EXCEPT !.password = w.password]

Commit(s) ==
    LET w == sess[s] IN
    /\ w.at = "commit"
    /\ row' = Written(w, row)
    /\ outdated' = (outdated \/ row # w.seen)
    /\ resets' = IF w.op = "reset" /\ w.password # NULL
                 THEN [resets EXCEPT ![w.seen.link] = @ + 1] ELSE resets
    /\ IF w.op \in {"register", "resend", "forgot"} THEN Goto(s, "mail")
       ELSE IF w.op = "activate" /\ w.seen.invited THEN Goto(s, "reward")
       ELSE Finish(s)
    /\ UNCHANGED <<mailbox, rewards, issued, unrewarded>>

-----------------------------------------------------------------------------
\* add_points, in a transaction of its own, whose failure is only logged.
Reward(s) ==
    /\ sess[s].at = "reward"
    /\ \/ rewards' = rewards + 1 /\ UNCHANGED unrewarded
       \/ unrewarded' = TRUE /\ UNCHANGED rewards
    /\ Finish(s)
    /\ UNCHANGED <<row, mailbox, issued, resets, outdated>>

\* The mail goes out after the answer, if the mail server takes it.
Mail(s) ==
    /\ sess[s].at = "mail"
    /\ mailbox' \in {mailbox, mailbox \cup {sess[s].link}}
    /\ Finish(s)
    /\ UNCHANGED <<row, rewards, issued, resets, unrewarded, outdated>>

\* The process ends, or the request is cancelled.
Lose(s) ==
    /\ sess[s].at # "idle"
    /\ unrewarded' = (unrewarded \/ sess[s].at = "reward")
    /\ Finish(s)
    /\ UNCHANGED <<row, mailbox, rewards, issued, resets, outdated>>

\* The administrator deletes an account, to which no audit record or order may
\* refer (which is left open); a request that is to write its row fails, and a
\* reward that is still to come is not the address's next account's.
DeleteUser ==
    /\ Exists
    /\ row' = NULL /\ rewards' = 0
    /\ sess' = [s \in Sessions |-> IF sess[s].at \in {"commit", "reward"} THEN Idle ELSE sess[s]]
    /\ UNCHANGED <<mailbox, issued, resets, unrewarded, outdated>>

\* A request that read the row before may still find the link in time.
Expire ==
    /\ Exists /\ row.fresh
    /\ row' = [row EXCEPT !.fresh = FALSE]
    /\ sess' = [s \in Sessions |-> IF sess[s].seen = row THEN [sess[s] EXCEPT !.seen.fresh = FALSE]
                                   ELSE sess[s]]
    /\ UNCHANGED <<mailbox, rewards, issued, resets, unrewarded, outdated>>

Next ==
    \/ \E s \in Sessions :
          \/ Register(s) \/ LoginWithCode(s) \/ CreateUser(s) \/ Resend(s)
          \/ Forgot(s) \/ Activate(s) \/ Reset(s) \/ Change(s)
          \/ Insert(s) \/ Commit(s) \/ Reward(s) \/ Mail(s) \/ Lose(s)
    \/ Expire \/ DeleteUser

Spec == Init /\ [][Next]_vars

-----------------------------------------------------------------------------
TypeOK ==
    /\ row \in Row \cup {NULL} /\ mailbox \subseteq issued /\ issued \subseteq Links
    /\ sess \in [Sessions -> Session]
    /\ rewards \in Nat /\ resets \in [Links -> Nat]
    /\ unrewarded \in BOOLEAN /\ outdated \in BOOLEAN

\* An invited account that becomes active rewards its inviter once, in whatever
\* order it is registered again, its link sent again and used; unless two of
\* its requests overlapped.  An account that took the place of a deleted one is
\* another account.
RewardedOnce ==
    ~outdated =>
        /\ rewards <= 1
        /\ rewards = 1 => Exists /\ row.verified /\ row.invited
        /\ Exists /\ row.verified /\ row.invited /\ (\A s \in Sessions : sess[s].at = "idle")
              => rewards = 1 \/ unrewarded

\* A link sets one password, and none once a newer link was asked for or it
\* has been used, unless two requests overlapped.
ResetOnce == ~outdated => \A l \in Links : resets[l] <= 1

=============================================================================
