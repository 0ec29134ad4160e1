--------------------------- MODULE RechargeLedger ---------------------------
(***************************************************************************)
(* Money and points arriving on a user's account: payment orders, the      *)
(* WeChat and Alipay callbacks, the mock payment, the administrator's      *)
(* confirm / cancel / refund / adjust operations and the daily check-in    *)
(* (app/api/v1/billing.py, points.py, admin/admin_orders.py,               *)
(* admin/admin_users.py).                                                  *)
(*                                                                         *)
(* Every request owns one SQLAlchemy session (get_db): an identity map     *)
(* that remembers each user row as it was FIRST read, dirty attributes     *)
(* that are flushed as absolute values, and row locks that PostgreSQL      *)
(* grants at the UPDATE and keeps to the end of the transaction.  Requests *)
(* interleave between any two database statements.                        *)
(***************************************************************************)
EXTENDS Integers, FiniteSets

CONSTANTS
    Users,      \* rows of ai_users
    Recharges,  \* rows of recharges that may be created
    Manual,     \* the recharges created by POST /recharge, without an order id
    Orders,     \* consumption orders, all PAID initially
    Sessions,   \* requests; each is served once
    Owner,      \* the user a recharge or an order belongs to
    Amount,     \* its amount, in cents
    Yuan,       \* cents per yuan: one point is given per whole yuan
    Deltas,     \* the amounts an administrator may adjust a balance by
    Opening,    \* the balance of every user at the start
    Kinds,      \* the kinds of request that are made
    NULL        \* no row, no session

Vouchers == Recharges \cup Orders

AllKinds == {"pay", "callback", "mock", "confirm", "cancel", "refund", "adjust", "checkin"}

ASSUME ConstantsAssumption ==
    /\ Manual \subseteq Recharges
    /\ Recharges \cap Orders = {}
    /\ Owner \in [Vouchers -> Users]
    /\ Amount \in [Vouchers -> Nat \ {0}]
    /\ Yuan \in Nat \ {0}
    /\ Deltas \subseteq Int \ {0}
    /\ Opening \in Int
    /\ Kinds \subseteq AllKinds
    /\ NULL \notin Users \cup Vouchers \cup Sessions \cup AllKinds
    /\ NULL \notin [balance : Int, points : Nat, checked : BOOLEAN]

VARIABLES
    account,    \* ai_users, committed: balance, points, checked (in today)
    voucher,    \* recharges.status and orders.status, committed
    pointLog,   \* the sum of the user's committed point_records
    userLock,   \* the session holding the row lock of a user
    voucherLock,\* the session holding the row lock of a recharge or order
    req,        \* the request a session serves
    pc,         \* the step the request is at
    cache,      \* the identity map: user rows as first read by the session
    credits,    \* auxiliary: how many committed requests paid the voucher out
    ledger,     \* auxiliary: Opening plus every committed change of a balance
    overlapped, \* auxiliary: vouchers found open by two requests at once
    contended   \* auxiliary: users read for update by two requests at once

database == <<account, voucher, pointLog>>
locks    == <<userLock, voucherLock>>
history  == <<credits, ledger, overlapped, contended>>
vars     == <<database, locks, req, pc, cache, history>>

Row == [balance : Int, points : Nat, checked : BOOLEAN]

\* The steps of a handler: each is a database statement (or the wait for the
\* payment provider, "order").
Steps == {"idle", "order", "read", "claim", "load", "write", "commit", "done"}

Request == [kind    : AllKinds \cup {NULL},
            voucher : Vouchers \cup {NULL},
            user    : Users \cup {NULL},   \* whose balance or points change
            delta   : Int,                 \* by how much the balance changes
            reward  : Nat]                 \* by how much the points change

Asked(kind, v, u, delta, reward) ==
    [kind |-> kind, voucher |-> v, user |-> u, delta |-> delta, reward |-> reward]

NoRequest == Asked(NULL, NULL, NULL, 0, 0)

NothingRead == [u \in Users |-> NULL]

-----------------------------------------------------------------------------
\* Recharges may have been created earlier and be still unpaid.
Init ==
    /\ account     = [u \in Users |-> [balance |-> Opening, points |-> 0, checked |-> FALSE]]
    /\ voucher     \in {f \in [Vouchers -> {"absent", "pending", "paid"}] :
                         \A v \in Vouchers : f[v] = "paid" <=> v \in Orders}
    /\ pointLog    = [u \in Users |-> 0]
    /\ userLock    = [u \in Users |-> NULL]
    /\ voucherLock = [v \in Vouchers |-> NULL]
    /\ req         = [s \in Sessions |-> NoRequest]
    /\ pc          = [s \in Sessions |-> "idle"]
    /\ cache       = [s \in Sessions |-> NothingRead]
    /\ credits     = [v \in Vouchers |-> 0]
    /\ ledger      = [u \in Users |-> Opening]
    /\ overlapped  = {}
    /\ contended   = {}

\* Variants of IsOpen for sensitivity checks: every voucher that exists counts
\* as open; a failed payment may be tried again.
IsOpenAlways(v) == voucher[v] # "absent"
IsOpenUnlessSettled(v) == voucher[v] \in {"pending", "paid", "failed"}

\* The status in which a voucher may still be paid out.
IsOpen(v) == voucher[v] = IF v \in Orders THEN "paid" ELSE "pending"

\* Variants of Settled: a status the column does not know; a refund that leaves
\* the order paid.
SettledCancelled(kind) == CASE kind \in {"callback", "mock", "confirm"} -> "success"
                            [] kind \in {"cancel", "pay"}               -> "cancelled"
                            [] OTHER                                    -> "refunded"
SettledNotRefunded(kind) == CASE kind \in {"callback", "mock", "confirm"} -> "success"
                              [] kind \in {"cancel", "pay"}               -> "failed"
                              [] OTHER                                    -> "paid"

\* The status a request gives to its voucher.
Settled(kind) == CASE kind \in {"callback", "mock", "confirm"} -> "success"
                   [] kind \in {"cancel", "pay"}               -> "failed"
                   [] OTHER                                    -> "refunded"

\* s has created v or found it open, and has not finished with it.
Handles(s, v) ==
    /\ req[s].voucher = v
    /\ pc[s] \in {"order", "claim", "load", "write", "commit"}

\* s has read the row of u and is going to write it back.
Updates(s, u) ==
    /\ req[s].user = u
    /\ cache[s][u] # NULL

Contend(s, u) ==
    contended' = IF \E t \in Sessions \ {s} : Updates(t, u) THEN contended \cup {u}
                                                            ELSE contended

Goto(s, step) == /\ pc' = [pc EXCEPT ![s] = step]
                 /\ UNCHANGED <<req, cache>>

\* The request is answered and its session closed.
Finish(s) == /\ pc' = [pc EXCEPT ![s] = "done"]
             /\ req' = [req EXCEPT ![s] = NoRequest]
             /\ cache' = [cache EXCEPT ![s] = NothingRead]

-----------------------------------------------------------------------------
(***************************************************************************)
(* The start of a request.  get_current_user reads the caller's row through*)
(* the request's own session, so it is in the identity map from then on;   *)
(* the callbacks are not authenticated (who = NULL).                       *)
(***************************************************************************)
Receive(s, who, step, r) ==
    /\ pc[s] = "idle"
    /\ r.kind \in Kinds
    /\ req' = [req EXCEPT ![s] = r]
    /\ pc' = [pc EXCEPT ![s] = step]
    /\ cache' = [cache EXCEPT ![s] = [u \in Users |-> IF u = who THEN account[u] ELSE NULL]]
    /\ IF who # NULL /\ who = r.user THEN Contend(s, who) ELSE UNCHANGED contended
    /\ UNCHANGED <<pointLog, account, locks, credits, ledger, overlapped>>

\* POST /recharge and POST /pay insert a PENDING row and commit it; /pay then
\* orders the payment from the provider, if that is configured.
CreateRecharge(s, v) ==
    /\ v \in Recharges /\ voucher[v] = "absent"
    /\ Receive(s, Owner[v], "order", Asked("pay", v, NULL, 0, 0))
    /\ voucher' = [voucher EXCEPT ![v] = "pending"]

\* A callback of the provider for the order; only its payment-succeeded form
\* goes beyond the signature, result code and order id checks.
Callback(s, v) ==
    /\ v \in Recharges \ Manual
    /\ Receive(s, NULL, "read",
            Asked("callback", v, Owner[v], Amount[v], Amount[v] \div Yuan))
    /\ UNCHANGED voucher

\* POST /pay/mock: the owner simulates the payment; the balance that grows is
\* that of current_user.
MockPayment(s, v) ==
    /\ v \in Recharges \ Manual
    /\ Receive(s, Owner[v], "read",
            Asked("mock", v, Owner[v], Amount[v], Amount[v] \div Yuan))
    /\ UNCHANGED voucher

ConfirmRecharge(s, v, admin) ==
    /\ v \in Recharges
    /\ Receive(s, admin, "read", Asked("confirm", v, Owner[v], Amount[v], 0))
    /\ UNCHANGED voucher

CancelRecharge(s, v, admin) ==
    /\ v \in Recharges
    /\ Receive(s, admin, "read", Asked("cancel", v, NULL, 0, 0))
    /\ UNCHANGED voucher

RefundOrder(s, v, admin) ==
    /\ v \in Orders
    /\ Receive(s, admin, "read", Asked("refund", v, Owner[v], Amount[v], 0))
    /\ UNCHANGED voucher

AdjustBalance(s, u, admin, d) ==
    /\ Receive(s, admin, "load", Asked("adjust", NULL, u, d, 0))
    /\ UNCHANGED voucher

\* POST /points/daily-checkin, rejected at once when current_user has checked in.
DailyCheckin(s, u) ==
    /\ ~account[u].checked
    /\ Receive(s, u, "write", Asked("checkin", NULL, u, 0, 2))
    /\ UNCHANGED voucher

-----------------------------------------------------------------------------
\* The provider accepted the order (or was not asked), or it did not and /pay
\* marks the recharge FAILED.
OrderPlaced(s) ==
    /\ pc[s] = "order"
    /\ Finish(s)
    /\ UNCHANGED <<database, locks, history>>

OrderRejected(s) ==
    /\ pc[s] = "order"
    /\ req[s].voucher \notin Manual
    /\ Goto(s, "claim")
    /\ UNCHANGED <<database, locks, history>>

\* SELECT the recharge or order, which is still open.
FindOpen(s) ==
    LET v == req[s].voucher IN
    /\ pc[s] = "read"
    /\ IsOpen(v)
    /\ Goto(s, IF req[s].kind = "mock" THEN "write" ELSE "claim")
    /\ overlapped' = IF \E t \in Sessions \ {s} : Handles(t, v) THEN overlapped \cup {v}
                                                                ELSE overlapped
    /\ UNCHANGED <<database, locks, credits, ledger, contended>>

\* It is not open any more, or not there; or the amount that the callback
\* names is another one.
Decline(s) ==
    /\ pc[s] = "read"
    /\ ~IsOpen(req[s].voucher) \/ req[s].kind = "callback"
    /\ Finish(s)
    /\ UNCHANGED <<database, locks, history>>

\* Variant of ClaimVoucher: no flush before the user is read.
ClaimVoucherUnflushed(s) ==
    /\ pc[s] = "claim"
    /\ Goto(s, IF req[s].kind \in {"callback", "confirm", "refund"} THEN "load" ELSE "commit")
    /\ UNCHANGED <<database, locks, history>>

\* UPDATE the status.  It is emitted by the autoflush of the next SELECT, and
\* by the commit when there is none: mock payments flush the user row first.
ClaimVoucher(s) ==
    LET v == req[s].voucher IN
    /\ pc[s] = "claim"
    /\ voucherLock[v] = NULL
    /\ voucherLock' = [voucherLock EXCEPT ![v] = s]
    /\ Goto(s, IF req[s].kind \in {"callback", "confirm", "refund"} THEN "load" ELSE "commit")
    /\ UNCHANGED <<database, userLock, history>>

\* SELECT the user: a row already in the identity map is NOT refreshed.
LoadUser(s) ==
    LET u == req[s].user IN
    /\ pc[s] = "load"
    /\ pc' = [pc EXCEPT ![s] = "write"]
    /\ UNCHANGED req
    /\ IF cache[s][u] = NULL
       THEN /\ cache' = [cache EXCEPT ![s][u] = account[u]]
            /\ Contend(s, u)
       ELSE UNCHANGED <<cache, contended>>
    /\ UNCHANGED <<database, locks, credits, ledger, overlapped>>

\* UPDATE ai_users: waits for the row lock.
WriteUser(s) ==
    LET u == req[s].user IN
    /\ pc[s] = "write"
    /\ userLock[u] = NULL
    /\ userLock' = [userLock EXCEPT ![u] = s]
    /\ Goto(s, IF req[s].kind = "mock" THEN "claim" ELSE "commit")
    /\ UNCHANGED <<database, voucherLock, history>>

\* Variant of Release: the transaction is left open on the recharge or order.
ReleaseUserOnly(s) ==
    /\ userLock' = [u \in Users |-> IF userLock[u] = s THEN NULL ELSE userLock[u]]
    /\ UNCHANGED voucherLock

Release(s) ==
    /\ userLock' = [u \in Users |-> IF userLock[u] = s THEN NULL ELSE userLock[u]]
    /\ voucherLock' = [v \in Vouchers |-> IF voucherLock[v] = s THEN NULL ELSE voucherLock[v]]

\* Variant of WrittenRow: the points are logged, and not added to the user.
WrittenRowNoPoints(s, u) ==
    [balance |-> IF req[s].delta # 0 THEN cache[s][u].balance + req[s].delta ELSE account[u].balance,
     points  |-> account[u].points,
     checked |-> account[u].checked \/ req[s].kind = "checkin"]

\* The row a session leaves behind: only the changed columns are written, each
\* as the value the session computed from its own copy of the row.
WrittenRow(s, u) ==
    [balance |-> IF req[s].delta # 0 THEN cache[s][u].balance + req[s].delta ELSE account[u].balance,
     points  |-> IF req[s].reward # 0 THEN cache[s][u].points + req[s].reward ELSE account[u].points,
     checked |-> account[u].checked \/ req[s].kind = "checkin"]

CommitUser(s) ==
    LET u == req[s].user IN
    IF u = NULL
    THEN UNCHANGED <<account, pointLog, ledger>>
    ELSE /\ account'  = [account EXCEPT ![u] = WrittenRow(s, u)]
         /\ pointLog' = [pointLog EXCEPT ![u] = @ + req[s].reward]
         /\ ledger'   = [ledger EXCEPT ![u] = @ + req[s].delta]

CommitVoucher(s) ==
    LET v == req[s].voucher IN
    IF v = NULL
    THEN UNCHANGED <<voucher, credits>>
    ELSE /\ voucher' = [voucher EXCEPT ![v] = Settled(req[s].kind)]
         /\ credits' = IF req[s].user = NULL THEN credits ELSE [credits EXCEPT ![v] = @ + 1]

Commit(s) ==
    /\ pc[s] = "commit"
    /\ CommitUser(s)
    /\ CommitVoucher(s)
    /\ Finish(s)
    /\ Release(s)
    /\ UNCHANGED <<overlapped, contended>>

\* get_db rolls back: a lost connection, a cancelled request, an exception.
Rollback(s) ==
    /\ pc[s] \notin {"idle", "done"}
    /\ Finish(s)
    /\ Release(s)
    /\ UNCHANGED <<database, history>>

\* PostgreSQL breaks a deadlock by failing one of the waiting transactions.
WaitsFor(s, t) ==
    /\ s # t
    /\ \/ pc[s] = "claim" /\ voucherLock[req[s].voucher] = t
       \/ pc[s] = "write" /\ userLock[req[s].user] = t

DeadlockVictim(s) ==
    /\ \E t \in Sessions : WaitsFor(s, t) /\ WaitsFor(t, s)
    /\ Rollback(s)

-----------------------------------------------------------------------------
Arrive(s) ==
    \/ \E v \in Vouchers :
          \/ CreateRecharge(s, v) \/ Callback(s, v) \/ MockPayment(s, v)
          \/ \E admin \in Users :
                ConfirmRecharge(s, v, admin) \/ CancelRecharge(s, v, admin) \/ RefundOrder(s, v, admin)
    \/ \E u \in Users :
          \/ DailyCheckin(s, u)
          \/ \E admin \in Users, d \in Deltas : AdjustBalance(s, u, admin, d)

Serve(s) ==
    \/ OrderPlaced(s) \/ OrderRejected(s)
    \/ FindOpen(s) \/ Decline(s) \/ ClaimVoucher(s) \/ LoadUser(s) \/ WriteUser(s)
    \/ Commit(s) \/ DeadlockVictim(s)

Next == \E s \in Sessions : Arrive(s) \/ Serve(s) \/ Rollback(s)

Spec == Init /\ [][Next]_vars

\* The server keeps working on a request it has accepted, and PostgreSQL's
\* deadlock detector runs; nothing obliges a request to arrive or to fail.
Fairness == \A s \in Sessions : WF_vars(Serve(s))

FairSpec == Spec /\ Fairness

-----------------------------------------------------------------------------
TypeOK ==
    /\ account \in [Users -> Row]
    /\ voucher \in [Vouchers -> {"absent", "pending", "success", "failed", "paid", "refunded"}]
    /\ pointLog \in [Users -> Nat]
    /\ userLock \in [Users -> Sessions \cup {NULL}]
    /\ voucherLock \in [Vouchers -> Sessions \cup {NULL}]
    /\ req \in [Sessions -> Request]
    /\ pc \in [Sessions -> Steps]
    /\ cache \in [Sessions -> [Users -> Row \cup {NULL}]]
    /\ credits \in [Vouchers -> Nat]
    /\ ledger \in [Users -> Int]
    /\ overlapped \subseteq Vouchers
    /\ contended \subseteq Users

-----------------------------------------------------------------------------
(***************************************************************************)
(* The parts of the inductive invariant.                                   *)
(***************************************************************************)
\* A request's voucher and user go with its kind and its step.
RequestOK(r, step) ==
    /\ step \in {"idle", "done"} <=> r.kind = NULL
    /\ r.kind = NULL => r.voucher = NULL /\ r.user = NULL
    /\ r.kind \in {"callback", "mock", "confirm"} =>
          r.voucher \in Recharges /\ r.user = Owner[r.voucher] /\ step # "order"
    /\ r.kind = "refund" =>
          r.voucher \in Orders /\ r.user = Owner[r.voucher] /\ step # "order"
    /\ r.kind \in {"pay", "cancel"} =>
          r.voucher \in Recharges /\ r.user = NULL /\ step \in {"order", "read", "claim", "commit"}
    /\ r.kind \in {"adjust", "checkin"} =>
          r.voucher = NULL /\ r.user \in Users /\ step \in {"load", "write", "commit"}

WellFormed == \A s \in Sessions : RequestOK(req[s], pc[s])

\* A request that has flushed its voucher holds the voucher's row lock.
HoldsVoucher(s) ==
    \/ pc[s] \in {"load", "write"} /\ req[s].kind \in {"callback", "confirm", "refund"}
    \/ pc[s] = "commit"

VoucherLocked ==
    \A s \in Sessions : HoldsVoucher(s) /\ req[s].voucher # NULL => voucherLock[req[s].voucher] = s

\* A request that is past reading its user has the row in its identity map;
\* a callback has not read it before.
UserRead ==
    \A s \in Sessions :
        /\ pc[s] \in {"write", "commit"} /\ req[s].user # NULL => cache[s][req[s].user] # NULL
        /\ req[s].kind = "mock" => cache[s][req[s].user] # NULL
        /\ req[s].kind = "callback" /\ pc[s] \notin {"write", "commit"}
              => cache[s][req[s].user] = NULL

\* Nobody handles a voucher that does not exist; one that did not overlap has
\* at most one handler, which still finds it open.
OneHandler ==
    \A v \in Vouchers :
        /\ voucher[v] = "absent" => \A s \in Sessions : ~Handles(s, v)
        /\ voucher[v] \in {"paid", "refunded"} <=> v \in Orders
        /\ v \notin overlapped =>
              /\ \A s \in Sessions : Handles(s, v) => IsOpen(v)
              /\ \A s, t \in Sessions : Handles(s, v) /\ Handles(t, v) => s = t

\* The copy of an uncontended row that a request will write back is current,
\* and there is only one.
CopyIsCurrent ==
    \A u \in Users \ contended :
        /\ \A s \in Sessions : Updates(s, u) => cache[s][u] = account[u]
        /\ \A s, t \in Sessions : Updates(s, u) /\ Updates(t, u) => s = t

-----------------------------------------------------------------------------
\* A recharge is paid out at most once, however often the provider repeats its
\* callback and whoever else settles it, unless two requests find it open at
\* the same time; and then its status tells whether it was paid out.
SettledOnce ==
    \A v \in Vouchers \ overlapped :
        /\ credits[v] <= 1
        /\ credits[v] = 1 <=> voucher[v] \in {"success", "refunded"}

\* Even when requests race, money and status move together: a voucher that is
\* still open has never been paid out, one that says success or refunded has.
StatusMatchesMoney ==
    \A v \in Vouchers :
        /\ voucher[v] \in {"absent", "pending", "paid"} => credits[v] = 0
        /\ voucher[v] \in {"success", "refunded"} => credits[v] > 0

\* No change of a balance or of the points is lost, and none is applied twice,
\* on an account that no two requests had read for update at the same time.
NothingLost ==
    \A u \in Users \ contended :
        /\ account[u].balance = ledger[u]
        /\ account[u].points = pointLog[u]

\* The callbacks of one recharge read the user's row one after the other: the
\* autoflush of the status takes the row lock of the recharge before the
\* SELECT of the user, so a repeated callback never works on a stale balance.
CallbacksSerialised ==
    \A s, t \in Sessions :
        /\ s # t
        /\ req[s].kind = "callback" /\ req[t].kind = "callback"
        /\ req[s].voucher = req[t].voucher
        => ~(Updates(s, req[s].user) /\ Updates(t, req[t].user))

\* Every request that was accepted ends: no request waits for a row lock for
\* ever, though mock payments lock the user before the recharge and callbacks
\* lock the recharge before the user.
RequestsEnd == \A s \in Sessions : pc[s] # "idle" ~> pc[s] = "done"

\* A settled recharge or order keeps its status: a late cancel, a repeated
\* callback or the failure of /pay does not overwrite the outcome of a request
\* that committed before this one had found the voucher open.
StatusIsFinal ==
    [][\A v \in Vouchers \ overlapped' :
          voucher[v] \in {"success", "failed", "refunded"} => voucher'[v] = voucher[v]]_vars

\* The inductive invariant from which the theorems follow.
IInv ==
    /\ TypeOK
    /\ WellFormed
    /\ VoucherLocked
    /\ UserRead
    /\ OneHandler
    /\ CopyIsCurrent
    /\ StatusMatchesMoney
    /\ SettledOnce
    /\ NothingLost

\* What the comment in wechat_callback says: an order that was already
\* processed is answered, not processed again.
PaidOutOnce == \A v \in Recharges : credits[v] <= 1

=============================================================================
