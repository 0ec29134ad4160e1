------------------------- MODULE OpenClawConstants ---------------------------
(***************************************************************************)
(* The constants of the two modules of an OpenClaw instance, its life      *)
(* (OpenClaw) and its settings (OpenClawSettings), and what is assumed of  *)
(* them.                                                                   *)
(***************************************************************************)
EXTENDS Integers, FiniteSets

CONSTANTS
    Requests, Workers,  \* slots for jobs of the two processes
    NULL

-----------------------------------------------------------------------------
\* Of its life.
CONSTANTS
    Period,             \* the length of a prepaid period, in minutes
    CreatingTimeout,    \* CREATING_TIMEOUT, in minutes
    Horizon,            \* bound on the clock
    MaxExpiry           \* bound on expired_at

Statuses == {"creating", "running", "stopped", "error", "expired", "releasing", "released"}

Ops == {"create", "stop", "restart", "delete", "force", "scale", "adminDelete", "sync", "bill"}

ASSUME LifeAssumption ==
    /\ Requests \cap Workers = {}
    /\ Period \in Nat \ {0} /\ CreatingTimeout \in Nat
    /\ Horizon \in Nat /\ MaxExpiry \in Nat
    /\ NULL \notin Int \cup Statuses \cup Ops

-----------------------------------------------------------------------------
\* Of its settings.
CONSTANTS
    Keys, Channels,     \* identities of rows of ModelKey and Channel
    Providers,
    ProviderOf,         \* the provider of each key
    Skills,             \* identities of rows of OpenClawSkill
    Names,
    NameOf,             \* the name of each skill; two rows may have the same
    Slots               \* bound on the tasks in the queue

Items  == Keys \cup Channels
Copies == {"secret", "config"}
Task   == [name : Names, action : {"install", "uninstall"}]

ASSUME SettingsAssumption ==
    /\ Keys \cap Channels = {} /\ Requests \cap Workers = {}
    /\ ProviderOf \in [Keys -> Providers] /\ NameOf \in [Skills -> Names]
    /\ IsFiniteSet(Skills) /\ Names \cap Copies = {}
    /\ NULL \notin Items \cup Copies \cup Task \cup Slots \cup Skills

=============================================================================
