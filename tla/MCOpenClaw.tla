----------------------------- MODULE MCOpenClaw ------------------------------
(***************************************************************************)
(* One OpenClaw instance.  Its life and its settings share the status      *)
(* only, of which the settings take any change (Switch), so that a         *)
(* behaviour is one of the part that `part` names.  The life has one       *)
(* request and one job of the worker at a time; the settings have two keys *)
(* of one provider, a channel, and two rows for one skill.                 *)
(***************************************************************************)
EXTENDS OpenClaw, TLC

CONSTANTS
    Clients,  \* slots for the requests of the settings
    k1, k2, c1, s1, s2, p1, n1, u1, r1, r2, w1

VARIABLES part, items, skills, running, secret, config, queue, work, skewed, dropped

\* No request of the settings is a job of the worker.
ASSUME ClientsAssumption == Clients \cap Workers = {}

Conf == INSTANCE OpenClawSettings WITH Requests <- Clients, job <- work

settingsVars == <<items, skills, running, secret, config, queue, work, skewed, dropped>>

InstanceInit == part \in {"life", "settings"} /\ Init /\ Conf!Init

InstanceNext ==
    /\ UNCHANGED part
    /\ \/ part = "life" /\ Next /\ UNCHANGED settingsVars
       \/ part = "settings" /\ Conf!Next /\ UNCHANGED vars

InstanceSpec == InstanceInit /\ [][InstanceNext]_<<part, vars, settingsVars>>

CopiesMatch        == Conf!CopiesMatch
TaskUnderway       == Conf!TaskUnderway
RemovedSkillIsGone == Conf!RemovedSkillIsGone

-----------------------------------------------------------------------------
MCProviderOf == [k \in Keys |-> p1]
MCNameOf     == [s \in Skills |-> n1]

\* After a write on an outdated assumption the bill says nothing; only what
\* becomes of an instance that is or was deleted is followed, and that no longer
\* where a deletion has left something.  Where something was left by a creation
\* or a deletion, only what becomes of an instance that is or was deleted.
Explored ==
    /\ disturbed \/ leaked => row.status \in {"releasing", "released"}
    /\ ~(disturbed /\ leaked)

\* The Secret and the ConfigMap have nothing in common: while one of them is in
\* use, the other one is left alone.
OneCopy ==
    \/ /\ \A k \in Keys : items[k] = "none"
       /\ secret = {} /\ Conf!Untouched("secret")
    \/ /\ (\A c \in Channels : items[c] = "none") /\ (\A s \in Skills : skills[s] = "none")
       /\ config.channels = {} /\ config.names = {} /\ Conf!Untouched("config")
       /\ \A j \in Conf!Jobs : work[j].task = NULL

\* Two requests at once change keys; one of them, beside the worker, channels
\* and skills.
OneForConfig == \A r \in Clients \ {r1} : Conf!Free(r) \/ work[r].copy = "secret"

\* When the task is lost and the ConfigMap may be wrong, little is said of either.
OneTrouble == ~("config" \in skewed /\ n1 \in dropped)

MCSymmetry == Permutations(Skills)

=============================================================================
