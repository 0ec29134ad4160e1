---------------------------- MODULE MCGpuBilling -----------------------------
(***************************************************************************)
(* A prepaid instance or, twice, a metered one for TLC, as `bill` says:    *)
(* each under operations that can touch its bill.                          *)
(***************************************************************************)
EXTENDS GpuInstance, TLC

VARIABLE bill

\* Prepaid: two requests at once, and two periods.
RenewOps  == {"create", "stop", "renew", "bill"}

\* Metered: what its user does, and what the administrator does.
UserOps  == {"create", "start", "stop", "force", "release", "list", "sync", "bill"}
AdminOps == {"create", "start", "scale", "delete", "sync", "bill"}

\* The clock passes both timeouts.
Metered(ops) == INSTANCE GpuInstance WITH
    Ops <- ops, Losable <- ops, Prepaid <- FALSE, Period <- 1,
    ListTimeout <- 0, SyncTimeout <- 1, Horizon <- 2, MaxExpiry <- 0

BillingInit == Init /\ bill \in {"prepaid", "user", "admin"}
BillingNext ==
    /\ UNCHANGED bill
    /\ \/ bill = "prepaid" /\ Next
       \/ bill = "user" /\ Metered(UserOps)!Next
       \/ bill = "admin" /\ Metered(AdminOps)!Next

BillingSpec == BillingInit /\ [][BillingNext]_<<vars, bill>>

\* What follows the first write on an outdated assumption is not explored: the
\* properties say nothing about it.  A metered instance has one request at a time.
Explored ==
    /\ ~disturbed
    /\ bill # "prepaid" => \A r, s \in Requests : job[r].at = "idle" \/ job[s].at = "idle" \/ r = s

RequestSymmetry == Permutations(Requests)

=============================================================================
