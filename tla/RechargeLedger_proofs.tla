----------------------- MODULE RechargeLedger_proofs ------------------------
(***************************************************************************)
(* Proofs about RechargeLedger for any number of users, recharges, orders  *)
(* and concurrent requests.  IInv is the inductive invariant; there is one *)
(* lemma for each of its parts, and in each lemma one case for an arriving *)
(* request, one for each step of serving it and one for a rollback.        *)
(***************************************************************************)
EXTENDS RechargeLedger, TLAPS

\* What the eight ways of arriving have in common: a well-formed request
\* begins, and only the creation of a recharge touches the voucher's row.
Arrival(s, who, step, r) ==
    /\ Receive(s, who, step, r)
    /\ r \in Request /\ RequestOK(r, step)
    /\ who \in Users \cup {NULL}
    /\ step \in {"order", "read", "load", "write"}
    /\ step = "order" <=> r.kind = "pay"
    /\ step = "write" <=> r.kind = "checkin"
    /\ step = "load" <=> r.kind = "adjust"
    /\ r.kind \in {"mock", "checkin"} => who = r.user
    /\ r.kind = "callback" => who = NULL
    /\ \/ r.kind # "pay" /\ voucher' = voucher
       \/ /\ r.kind = "pay"
          /\ voucher[r.voucher] = "absent"
          /\ voucher' = [voucher EXCEPT ![r.voucher] = "pending"]

LEMMA RewardIsNat == ASSUME NEW v \in Vouchers PROVE Amount[v] \div Yuan \in Nat
  BY ConstantsAssumption

LEMMA ArriveIsArrival ==
  ASSUME NEW s \in Sessions, Arrive(s)
  PROVE  \E who \in Users \cup {NULL}, step \in Steps, r \in Request : Arrival(s, who, step, r)
  <1> USE ConstantsAssumption DEF Vouchers
  <1>1. CASE \E v \in Vouchers : CreateRecharge(s, v)
    <2>1. PICK v \in Recharges : CreateRecharge(s, v)
      BY <1>1 DEF CreateRecharge
    <2> DEFINE r == Asked("pay", v, NULL, 0, 0)
    <2>2. r \in Request /\ RequestOK(r, "order")
      BY DEF Asked, Request, RequestOK, AllKinds, Steps
    <2>3. Owner[v] \in Users
      OBVIOUS
    <2>4. Arrival(s, Owner[v], "order", r)
      BY <2>1, <2>2, <2>3 DEF Asked, Arrival, CreateRecharge
    <2> QED BY <2>2, <2>3, <2>4 DEF Steps
  <1>2. CASE \E v \in Vouchers : Callback(s, v)
    <2>1. PICK v \in Recharges : Callback(s, v)
      BY <1>2 DEF Callback
    <2> DEFINE r == Asked("callback", v, Owner[v], Amount[v], Amount[v] \div Yuan)
    <2>2. r \in Request /\ RequestOK(r, "read")
      BY RewardIsNat DEF Asked, Request, RequestOK, AllKinds, Steps
    <2>3. Arrival(s, NULL, "read", r)
      BY <2>1, <2>2 DEF Asked, Arrival, Callback
    <2> QED BY <2>2, <2>3 DEF Steps
  <1>3. CASE \E v \in Vouchers : MockPayment(s, v)
    <2>1. PICK v \in Recharges : MockPayment(s, v)
      BY <1>3 DEF MockPayment
    <2> DEFINE r == Asked("mock", v, Owner[v], Amount[v], Amount[v] \div Yuan)
    <2>2. r \in Request /\ RequestOK(r, "read")
      BY RewardIsNat DEF Asked, Request, RequestOK, AllKinds, Steps
    <2>3. Owner[v] \in Users
      OBVIOUS
    <2>4. Arrival(s, Owner[v], "read", r)
      BY <2>1, <2>2, <2>3 DEF Asked, Arrival, MockPayment
    <2> QED BY <2>2, <2>3, <2>4 DEF Steps
  <1>4. CASE \E v \in Vouchers, admin \in Users : ConfirmRecharge(s, v, admin)
    <2>1. PICK v \in Recharges, admin \in Users : ConfirmRecharge(s, v, admin)
      BY <1>4 DEF ConfirmRecharge
    <2> DEFINE r == Asked("confirm", v, Owner[v], Amount[v], 0)
    <2>2. r \in Request /\ RequestOK(r, "read")
      BY DEF Asked, Request, RequestOK, AllKinds, Steps
    <2>3. Arrival(s, admin, "read", r)
      BY <2>1, <2>2 DEF Asked, Arrival, ConfirmRecharge
    <2> QED BY <2>2, <2>3 DEF Steps
  <1>5. CASE \E v \in Vouchers, admin \in Users : CancelRecharge(s, v, admin)
    <2>1. PICK v \in Recharges, admin \in Users : CancelRecharge(s, v, admin)
      BY <1>5 DEF CancelRecharge
    <2> DEFINE r == Asked("cancel", v, NULL, 0, 0)
    <2>2. r \in Request /\ RequestOK(r, "read")
      BY DEF Asked, Request, RequestOK, AllKinds, Steps
    <2>3. Arrival(s, admin, "read", r)
      BY <2>1, <2>2 DEF Asked, Arrival, CancelRecharge
    <2> QED BY <2>2, <2>3 DEF Steps
  <1>6. CASE \E v \in Vouchers, admin \in Users : RefundOrder(s, v, admin)
    <2>1. PICK v \in Orders, admin \in Users : RefundOrder(s, v, admin)
      BY <1>6 DEF RefundOrder
    <2> DEFINE r == Asked("refund", v, Owner[v], Amount[v], 0)
    <2>2. r \in Request /\ RequestOK(r, "read")
      BY DEF Asked, Request, RequestOK, AllKinds, Steps
    <2>3. Arrival(s, admin, "read", r)
      BY <2>1, <2>2 DEF Asked, Arrival, RefundOrder
    <2> QED BY <2>2, <2>3 DEF Steps
  <1>7. CASE \E u \in Users : DailyCheckin(s, u)
    <2>1. PICK u \in Users : DailyCheckin(s, u)
      BY <1>7
    <2> DEFINE r == Asked("checkin", NULL, u, 0, 2)
    <2>2. r \in Request /\ RequestOK(r, "write")
      BY <2>1 DEF Asked, Request, RequestOK, AllKinds, Steps
    <2>3. Arrival(s, u, "write", r)
      BY <2>1, <2>2 DEF Asked, Arrival, DailyCheckin
    <2> QED BY <2>2, <2>3 DEF Steps
  <1>8. CASE \E u \in Users, admin \in Users, d \in Deltas : AdjustBalance(s, u, admin, d)
    <2>1. PICK u \in Users, admin \in Users, d \in Deltas : AdjustBalance(s, u, admin, d)
      BY <1>8
    <2> DEFINE r == Asked("adjust", NULL, u, d, 0)
    <2>2. r \in Request /\ RequestOK(r, "load")
      BY <2>1 DEF Asked, Request, RequestOK, AllKinds, Steps
    <2>3. Arrival(s, admin, "load", r)
      BY <2>1, <2>2 DEF Asked, Arrival, AdjustBalance
    <2> QED BY <2>2, <2>3 DEF Steps
  <1> QED BY <1>1, <1>2, <1>3, <1>4, <1>5, <1>6, <1>7, <1>8 DEF Arrive

-----------------------------------------------------------------------------
LEMMA StartsAreRequests == /\ NoRequest \in Request
                           /\ RequestOK(NoRequest, "idle") /\ RequestOK(NoRequest, "done")
  BY ConstantsAssumption DEF NoRequest, Asked, Request, Steps, RequestOK, AllKinds

LEMMA InitIInv == Init => IInv
  <1> SUFFICES ASSUME Init PROVE IInv
    OBVIOUS
  <1> USE ConstantsAssumption DEF Init, NothingRead, Vouchers
  <1>1. TypeOK
    BY StartsAreRequests DEF TypeOK, Row, Steps
  <1>2. WellFormed
    BY StartsAreRequests DEF WellFormed
  <1>3. VoucherLocked /\ UserRead
    BY DEF VoucherLocked, UserRead, HoldsVoucher, NoRequest, Asked, AllKinds
  <1>4. OneHandler
    BY DEF OneHandler, Handles, NoRequest, Asked
  <1>5. CopyIsCurrent
    BY DEF CopyIsCurrent, Updates, NoRequest, Asked
  <1>6. StatusMatchesMoney /\ SettledOnce
    <2>1. \A v \in Vouchers : voucher[v] \in {"absent", "pending", "paid"} /\ credits[v] = 0
      OBVIOUS
    <2> HIDE DEF Init, Vouchers
    <2> QED BY <2>1 DEF StatusMatchesMoney, SettledOnce
  <1>7. NothingLost
    BY DEF NothingLost
  <1> QED BY <1>1, <1>2, <1>3, <1>4, <1>5, <1>6, <1>7 DEF IInv

LEMMA TypeStep == IInv /\ [Next]_vars => TypeOK'
  <1> SUFFICES ASSUME TypeOK, UserRead, WellFormed, [Next]_vars PROVE TypeOK'
    BY DEF IInv
  <1> USE ConstantsAssumption, StartsAreRequests DEF TypeOK, database, locks, history
  <1>1. ASSUME NEW s \in Sessions, NEW who \in Users \cup {NULL}, NEW r \in Request,
               NEW step \in Steps, Arrival(s, who, step, r)
        PROVE  TypeOK'
    <2>1. cache' \in [Sessions -> [Users -> Row \cup {NULL}]]
      BY <1>1 DEF Arrival, Receive
    <2>2. req' \in [Sessions -> Request] /\ pc' \in [Sessions -> Steps] /\ contended' \subseteq Users
      BY <1>1 DEF Arrival, Receive, Contend
    <2>3. voucher' \in [Vouchers -> {"absent", "pending", "success", "failed", "paid", "refunded"}]
      BY <1>1 DEF Arrival
    <2> QED BY <1>1, <2>1, <2>2, <2>3 DEF Arrival, Receive
  <1>2. ASSUME NEW s \in Sessions, OrderPlaced(s) PROVE TypeOK'
    BY <1>2 DEF OrderPlaced, Finish, NothingRead, Steps
  <1>3. ASSUME NEW s \in Sessions, OrderRejected(s) PROVE TypeOK'
    BY <1>3 DEF OrderRejected, Goto, Steps
  <1>4. ASSUME NEW s \in Sessions, FindOpen(s) PROVE TypeOK'
    <2>1. req[s].voucher \in Vouchers
      <3>1. req[s] \in Request /\ pc[s] = "read" /\ RequestOK(req[s], pc[s])
        BY <1>4 DEF FindOpen, WellFormed
      <3> QED BY <3>1 DEF RequestOK, Vouchers, Request, AllKinds
    <2>2. overlapped' \subseteq Vouchers
      BY <1>4, <2>1 DEF FindOpen
    <2>3. pc' \in [Sessions -> Steps]
      BY <1>4 DEF FindOpen, Goto, Steps
    <2> QED BY <1>4, <2>2, <2>3 DEF FindOpen, Goto
  <1>5. ASSUME NEW s \in Sessions, Decline(s) PROVE TypeOK'
    BY <1>5 DEF Decline, Finish, NothingRead, Steps
  <1>6. ASSUME NEW s \in Sessions, ClaimVoucher(s) PROVE TypeOK'
    BY <1>6 DEF ClaimVoucher, Goto, Steps
  <1>7. ASSUME NEW s \in Sessions, LoadUser(s) PROVE TypeOK'
    <2>1. req[s].user \in Users
      <3>1. req[s] \in Request /\ pc[s] = "load" /\ RequestOK(req[s], pc[s])
        BY <1>7 DEF LoadUser, WellFormed
      <3>2. req[s].user \in Users \cup {NULL} /\ req[s].kind \in AllKinds \cup {NULL}
            /\ req[s].voucher \in Vouchers \cup {NULL}
        BY <3>1 DEF Request
      <3> QED BY <3>1, <3>2 DEF RequestOK, Vouchers, AllKinds
    <2>2. cache' \in [Sessions -> [Users -> Row \cup {NULL}]]
      <3>1. CASE cache[s][req[s].user] = NULL
        <4>1. cache' = [cache EXCEPT ![s] = [cache[s] EXCEPT ![req[s].user] = account[req[s].user]]]
          BY <1>7, <3>1 DEF LoadUser
        <4>2. cache[s] \in [Users -> Row \cup {NULL}] /\ account[req[s].user] \in Row \cup {NULL}
          BY <2>1
        <4>3. [cache[s] EXCEPT ![req[s].user] = account[req[s].user]] \in [Users -> Row \cup {NULL}]
          BY <4>2
        <4> QED BY <4>1, <4>3
      <3>2. CASE cache[s][req[s].user] # NULL
        BY <1>7, <3>2 DEF LoadUser
      <3> QED BY <3>1, <3>2
    <2>3. contended' \subseteq Users
      BY <1>7, <2>1 DEF LoadUser, Contend
    <2>4. pc' \in [Sessions -> Steps]
      BY <1>7 DEF LoadUser, Steps
    <2> QED BY <1>7, <2>2, <2>3, <2>4 DEF LoadUser
  <1>8. ASSUME NEW s \in Sessions, WriteUser(s) PROVE TypeOK'
    BY <1>8 DEF WriteUser, Goto, Steps
  <1>9. ASSUME NEW s \in Sessions, Commit(s) PROVE TypeOK'
    <2>1. /\ req' \in [Sessions -> Request] /\ pc' \in [Sessions -> Steps]
          /\ cache' \in [Sessions -> [Users -> Row \cup {NULL}]]
      BY <1>9 DEF Commit, Finish, NothingRead, Steps
    <2>2. userLock' \in [Users -> Sessions \cup {NULL}] /\ voucherLock' \in [Vouchers -> Sessions \cup {NULL}]
      BY <1>9 DEF Commit, Release
    <2>3. account' \in [Users -> Row] /\ pointLog' \in [Users -> Nat] /\ ledger' \in [Users -> Int]
      <3>1. CASE req[s].user = NULL
        BY <1>9, <3>1 DEF Commit, CommitUser
      <3>2. CASE req[s].user # NULL
        <4> DEFINE u == req[s].user
        <4>1. u \in Users /\ req[s].delta \in Int /\ req[s].reward \in Nat
          BY <3>2 DEF Request
        <4>2. cache[s][u] \in Row /\ account[u] \in Row
          BY <1>9, <3>2, <4>1 DEF Commit, UserRead
        <4>3. WrittenRow(s, u) \in Row
          BY <4>1, <4>2 DEF WrittenRow, Row
        <4>4. /\ account'  = [account EXCEPT ![u] = WrittenRow(s, u)]
              /\ pointLog' = [pointLog EXCEPT ![u] = pointLog[u] + req[s].reward]
              /\ ledger'   = [ledger EXCEPT ![u] = ledger[u] + req[s].delta]
          BY <1>9, <3>2, <4>1 DEF Commit, CommitUser
        <4>5. account' \in [Users -> Row]
          BY <4>3, <4>4
        <4>6. pointLog' \in [Users -> Nat] /\ ledger' \in [Users -> Int]
          BY <4>1, <4>4
        <4> QED BY <4>5, <4>6
      <3> QED BY <3>1, <3>2
    <2>4. /\ voucher' \in [Vouchers -> {"absent", "pending", "success", "failed", "paid", "refunded"}]
          /\ credits' \in [Vouchers -> Nat]
      <3>1. Settled(req[s].kind) \in {"success", "failed", "refunded"}
        BY DEF Settled
      <3>2. CommitVoucher(s)
        BY <1>9 DEF Commit
      <3>3. voucher' \in [Vouchers -> {"absent", "pending", "success", "failed", "paid", "refunded"}]
        <4>1. voucher' = voucher \/ voucher' = [voucher EXCEPT ![req[s].voucher] = Settled(req[s].kind)]
          BY <3>2 DEF CommitVoucher
        <4> QED BY <3>1, <4>1
      <3>4. credits' \in [Vouchers -> Nat]
        <4>1. \/ credits' = credits
              \/ credits' = [credits EXCEPT ![req[s].voucher] = credits[req[s].voucher] + 1]
          BY <3>2, Zenon DEF CommitVoucher
        <4> QED BY <4>1
      <3> QED BY <3>3, <3>4
    <2>5. UNCHANGED <<overlapped, contended>>
      BY <1>9 DEF Commit
    <2> QED BY <2>1, <2>2, <2>3, <2>4, <2>5
  <1>10. ASSUME NEW s \in Sessions, Rollback(s) PROVE TypeOK'
    BY <1>10 DEF Rollback, Release, Finish, NothingRead, Steps
  <1>11. CASE UNCHANGED vars
    BY <1>11 DEF vars
  <1> QED BY <1>1, <1>2, <1>3, <1>4, <1>5, <1>6, <1>7, <1>8, <1>9, <1>10, <1>11, ArriveIsArrival
          DEF Next, Serve, DeadlockVictim

-----------------------------------------------------------------------------
\* A step of s leaves the request, the step and the identity map of every other
\* session alone.
OthersStay(s) ==
    \A t \in Sessions \ {s} : req'[t] = req[t] /\ pc'[t] = pc[t] /\ cache'[t] = cache[t]

LEMMA FinishStays == ASSUME TypeOK, NEW s \in Sessions, Finish(s)
                     PROVE  /\ OthersStay(s)
                            /\ req'[s] = NoRequest /\ pc'[s] = "done" /\ cache'[s] = NothingRead
  BY DEF Finish, OthersStay, TypeOK

LEMMA GotoStays == ASSUME TypeOK, NEW s \in Sessions, NEW step, Goto(s, step)
                   PROVE  /\ OthersStay(s)
                          /\ req'[s] = req[s] /\ pc'[s] = step /\ cache' = cache
  BY DEF Goto, OthersStay, TypeOK

LEMMA ArrivalStays ==
  ASSUME TypeOK, NEW s \in Sessions, NEW who, NEW step, NEW r, Arrival(s, who, step, r)
  PROVE  /\ OthersStay(s)
         /\ req'[s] = r /\ pc'[s] = step
         /\ cache'[s] = [u \in Users |-> IF u = who THEN account[u] ELSE NULL]
  BY DEF Arrival, Receive, OthersStay, TypeOK

LEMMA LoadStays ==
  ASSUME TypeOK, NEW s \in Sessions, LoadUser(s)
  PROVE  /\ OthersStay(s)
         /\ req'[s] = req[s] /\ pc'[s] = "write"
         /\ cache'[s] = IF cache[s][req[s].user] = NULL
                        THEN [cache[s] EXCEPT ![req[s].user] = account[req[s].user]]
                        ELSE cache[s]
  <1>1. req'[s] = req[s] /\ pc'[s] = "write"
    BY DEF LoadUser, TypeOK
  <1>2. CASE cache[s][req[s].user] = NULL
    <2>1. cache' = [cache EXCEPT ![s] = [cache[s] EXCEPT ![req[s].user] = account[req[s].user]]]
      BY <1>2 DEF LoadUser
    <2> QED BY <1>1, <1>2, <2>1 DEF OthersStay, TypeOK, LoadUser
  <1>3. CASE cache[s][req[s].user] # NULL
    BY <1>1, <1>3 DEF OthersStay, TypeOK, LoadUser
  <1> QED BY <1>2, <1>3

\* The fields of a request have their types.
LEMMA Fields ==
  ASSUME TypeOK, NEW s \in Sessions
  PROVE  /\ req[s].kind \in AllKinds \cup {NULL}
         /\ req[s].voucher \in Vouchers \cup {NULL}
         /\ req[s].user \in Users \cup {NULL}
         /\ req[s].delta \in Int /\ req[s].reward \in Nat
         /\ pc[s] \in Steps
  BY DEF TypeOK, Request

LEMMA WellFormedStep == IInv /\ [Next]_vars => WellFormed'
  <1> SUFFICES ASSUME TypeOK, WellFormed, [Next]_vars PROVE WellFormed'
    BY DEF IInv
  <1>a. ASSUME NEW s \in Sessions, OthersStay(s), RequestOK(req'[s], pc'[s]) PROVE WellFormed'
    BY <1>a DEF OthersStay, WellFormed
  <1>b. ASSUME NEW s \in Sessions, Finish(s) PROVE WellFormed'
    BY <1>a, <1>b, FinishStays, StartsAreRequests
  <1>1. ASSUME NEW s \in Sessions, NEW who \in Users \cup {NULL}, NEW r \in Request,
               NEW step \in Steps, Arrival(s, who, step, r)
        PROVE  WellFormed'
    <2>1. RequestOK(r, step)
      BY <1>1 DEF Arrival
    <2>2. OthersStay(s) /\ req'[s] = r /\ pc'[s] = step
      BY <1>1, ArrivalStays
    <2>3. RequestOK(req'[s], pc'[s])
      BY <2>1, <2>2
    <2> QED BY <1>a, <2>2, <2>3
  <1>2. ASSUME NEW s \in Sessions, OrderPlaced(s) PROVE WellFormed'
    BY <1>2, <1>b DEF OrderPlaced
  <1>3. ASSUME NEW s \in Sessions, OrderRejected(s) PROVE WellFormed'
    <2>1. RequestOK(req[s], "order") /\ pc[s] = "order"
      BY <1>3 DEF OrderRejected, WellFormed
    <2>2. RequestOK(req[s], "claim")
      BY <2>1, Fields, ConstantsAssumption DEF RequestOK, AllKinds
    <2> QED BY <1>3, <1>a, <2>2, GotoStays DEF OrderRejected
  <1>4. ASSUME NEW s \in Sessions, FindOpen(s) PROVE WellFormed'
    <2>1. RequestOK(req[s], "read") /\ pc[s] = "read"
      BY <1>4 DEF FindOpen, WellFormed
    <2>2. RequestOK(req[s], IF req[s].kind = "mock" THEN "write" ELSE "claim")
      BY <2>1, Fields, ConstantsAssumption DEF RequestOK, AllKinds
    <2> QED BY <1>4, <1>a, <2>2, GotoStays DEF FindOpen
  <1>5. ASSUME NEW s \in Sessions, Decline(s) PROVE WellFormed'
    BY <1>5, <1>b DEF Decline
  <1>6. ASSUME NEW s \in Sessions, ClaimVoucher(s) PROVE WellFormed'
    <2> DEFINE next == IF req[s].kind \in {"callback", "confirm", "refund"} THEN "load" ELSE "commit"
    <2>1. RequestOK(req[s], "claim") /\ pc[s] = "claim"
      BY <1>6 DEF ClaimVoucher, WellFormed
    <2>2. RequestOK(req[s], next)
      BY <2>1, Fields, ConstantsAssumption DEF RequestOK, AllKinds
    <2> QED BY <1>6, <1>a, <2>2, GotoStays DEF ClaimVoucher
  <1>7. ASSUME NEW s \in Sessions, LoadUser(s) PROVE WellFormed'
    <2>1. RequestOK(req[s], "load") /\ pc[s] = "load"
      BY <1>7 DEF LoadUser, WellFormed
    <2>2. RequestOK(req[s], "write")
      BY <2>1, Fields, ConstantsAssumption DEF RequestOK, AllKinds
    <2> QED BY <1>7, <1>a, <2>2, LoadStays
  <1>8. ASSUME NEW s \in Sessions, WriteUser(s) PROVE WellFormed'
    <2>1. RequestOK(req[s], "write") /\ pc[s] = "write"
      BY <1>8 DEF WriteUser, WellFormed
    <2>2. RequestOK(req[s], IF req[s].kind = "mock" THEN "claim" ELSE "commit")
      BY <2>1, Fields, ConstantsAssumption DEF RequestOK, AllKinds
    <2> QED BY <1>8, <1>a, <2>2, GotoStays DEF WriteUser
  <1>9. ASSUME NEW s \in Sessions, Commit(s) PROVE WellFormed'
    BY <1>9, <1>b DEF Commit
  <1>10. ASSUME NEW s \in Sessions, Rollback(s) PROVE WellFormed'
    BY <1>10, <1>b DEF Rollback
  <1>11. CASE UNCHANGED vars
    BY <1>11 DEF vars, WellFormed
  <1> QED BY <1>1, <1>2, <1>3, <1>4, <1>5, <1>6, <1>7, <1>8, <1>9, <1>10, <1>11, ArriveIsArrival
          DEF Next, Serve, DeadlockVictim

\* The locks after the transaction of s has ended.
LEMMA ReleaseKeeps ==
  ASSUME TypeOK, NEW s \in Sessions, Release(s)
  PROVE  \A t \in Sessions \ {s}, v \in Vouchers : voucherLock[v] = t => voucherLock'[v] = t
  BY ConstantsAssumption DEF Release, TypeOK

LEMMA VoucherLockedStep == IInv /\ [Next]_vars => VoucherLocked'
  <1> SUFFICES ASSUME TypeOK, WellFormed, VoucherLocked, [Next]_vars PROVE VoucherLocked'
    BY DEF IInv
  <1> USE Fields, ConstantsAssumption
  <1> DEFINE Locked(s) == HoldsVoucher(s) /\ req[s].voucher # NULL => voucherLock[req[s].voucher] = s
  <1>a. ASSUME NEW s \in Sessions, OthersStay(s), Locked(s)',
               \A t \in Sessions \ {s}, v \in Vouchers : voucherLock[v] = t => voucherLock'[v] = t
        PROVE  VoucherLocked'
    BY <1>a DEF OthersStay, VoucherLocked, HoldsVoucher
  <1>b. ASSUME NEW s \in Sessions, Finish(s), voucherLock' = voucherLock \/ Release(s)
        PROVE  VoucherLocked'
    <2>1. ~HoldsVoucher(s)'
      BY <1>b, FinishStays DEF HoldsVoucher
    <2> QED BY <1>a, <1>b, <2>1, FinishStays, ReleaseKeeps
  <1>1. ASSUME NEW s \in Sessions, NEW who \in Users \cup {NULL}, NEW r \in Request,
               NEW step \in Steps, Arrival(s, who, step, r)
        PROVE  VoucherLocked'
    <2>1. voucherLock' = voucherLock
      BY <1>1 DEF Arrival, Receive, locks
    <2>2. /\ step # "commit"
          /\ step \in {"load", "write"} => r.kind \in {"adjust", "checkin"}
      BY <1>1 DEF Arrival
    <2>3. OthersStay(s) /\ req'[s] = r /\ pc'[s] = step
      BY <1>1, ArrivalStays
    <2>4. ~HoldsVoucher(s)'
      BY <2>2, <2>3 DEF HoldsVoucher
    <2> QED BY <1>a, <2>1, <2>3, <2>4
  <1>2. ASSUME NEW s \in Sessions, OrderPlaced(s) PROVE VoucherLocked'
    BY <1>2, <1>b DEF OrderPlaced, locks
  <1>3. ASSUME NEW s \in Sessions, OrderRejected(s) PROVE VoucherLocked'
    <2>1. Goto(s, "claim") /\ voucherLock' = voucherLock
      BY <1>3 DEF OrderRejected, locks
    <2> QED BY <1>a, <2>1, GotoStays DEF HoldsVoucher
  <1>4. ASSUME NEW s \in Sessions, FindOpen(s) PROVE VoucherLocked'
    <2>1. Goto(s, IF req[s].kind = "mock" THEN "write" ELSE "claim") /\ voucherLock' = voucherLock
      BY <1>4 DEF FindOpen, locks
    <2> QED BY <1>a, <2>1, GotoStays DEF HoldsVoucher
  <1>5. ASSUME NEW s \in Sessions, Decline(s) PROVE VoucherLocked'
    BY <1>5, <1>b DEF Decline, locks
  <1>6. ASSUME NEW s \in Sessions, ClaimVoucher(s) PROVE VoucherLocked'
    <2> DEFINE next == IF req[s].kind \in {"callback", "confirm", "refund"} THEN "load" ELSE "commit"
    <2>1. /\ Goto(s, next) /\ pc[s] = "claim"
          /\ voucherLock[req[s].voucher] = NULL
          /\ voucherLock' = [voucherLock EXCEPT ![req[s].voucher] = s]
      BY <1>6 DEF ClaimVoucher
    <2>2. req[s].voucher # NULL => voucherLock'[req[s].voucher] = s
      BY <2>1 DEF TypeOK
    <2>3. Locked(s)'
      BY <2>1, <2>2, GotoStays DEF HoldsVoucher
    <2>4. \A t \in Sessions \ {s}, v \in Vouchers : voucherLock[v] = t => voucherLock'[v] = t
      BY <2>1 DEF TypeOK
    <2> QED BY <1>a, <2>1, <2>3, <2>4, GotoStays
  <1>7. ASSUME NEW s \in Sessions, LoadUser(s) PROVE VoucherLocked'
    <2>1. pc[s] = "load" /\ voucherLock' = voucherLock /\ RequestOK(req[s], pc[s])
      BY <1>7 DEF LoadUser, locks, WellFormed
    <2>2. Locked(s)
      BY DEF VoucherLocked
    <2>3. Locked(s)'
      BY <1>7, <2>1, <2>2, LoadStays DEF HoldsVoucher, RequestOK
    <2> QED BY <1>7, <1>a, <2>1, <2>3, LoadStays
  <1>8. ASSUME NEW s \in Sessions, WriteUser(s) PROVE VoucherLocked'
    <2>1. /\ Goto(s, IF req[s].kind = "mock" THEN "claim" ELSE "commit")
          /\ pc[s] = "write" /\ voucherLock' = voucherLock /\ RequestOK(req[s], pc[s])
      BY <1>8 DEF WriteUser, WellFormed
    <2>2. Locked(s)
      BY DEF VoucherLocked
    <2>3. Locked(s)'
      BY <2>1, <2>2, GotoStays DEF HoldsVoucher, RequestOK, AllKinds
    <2> QED BY <1>a, <2>1, <2>3, GotoStays
  <1>9. ASSUME NEW s \in Sessions, Commit(s) PROVE VoucherLocked'
    BY <1>9, <1>b DEF Commit
  <1>10. ASSUME NEW s \in Sessions, Rollback(s) PROVE VoucherLocked'
    BY <1>10, <1>b DEF Rollback
  <1>11. CASE UNCHANGED vars
    BY <1>11 DEF vars, locks, VoucherLocked, HoldsVoucher
  <1> QED BY <1>1, <1>2, <1>3, <1>4, <1>5, <1>6, <1>7, <1>8, <1>9, <1>10, <1>11, ArriveIsArrival
          DEF Next, Serve, DeadlockVictim

\* A user row is a value other than NULL.
LEMMA RowIsNotNull == ASSUME TypeOK, NEW u \in Users PROVE account[u] # NULL
  BY ConstantsAssumption DEF TypeOK, Row

LEMMA UserReadStep == IInv /\ [Next]_vars => UserRead'
  <1> SUFFICES ASSUME TypeOK, WellFormed, UserRead, [Next]_vars PROVE UserRead'
    BY DEF IInv
  <1> USE Fields, ConstantsAssumption
  <1> DEFINE Read(s) ==
        /\ pc[s] \in {"write", "commit"} /\ req[s].user # NULL => cache[s][req[s].user] # NULL
        /\ req[s].kind = "mock" => cache[s][req[s].user] # NULL
        /\ req[s].kind = "callback" /\ pc[s] \notin {"write", "commit"}
              => cache[s][req[s].user] = NULL
  <1>a. ASSUME NEW s \in Sessions, OthersStay(s), Read(s)' PROVE UserRead'
    BY <1>a DEF OthersStay, UserRead
  <1>b. ASSUME NEW s \in Sessions, Finish(s) PROVE UserRead'
    <2>1. req'[s].kind = NULL /\ req'[s].user = NULL
      BY <1>b, FinishStays DEF NoRequest, Asked
    <2>2. Read(s)'
      BY <2>1 DEF AllKinds
    <2> QED BY <1>a, <1>b, <2>2, FinishStays
  <1>1. ASSUME NEW s \in Sessions, NEW who \in Users \cup {NULL}, NEW r \in Request,
               NEW step \in Steps, Arrival(s, who, step, r)
        PROVE  UserRead'
    <2>1. OthersStay(s) /\ req'[s] = r /\ pc'[s] = step
          /\ cache'[s] = [u \in Users |-> IF u = who THEN account[u] ELSE NULL]
      BY <1>1, ArrivalStays
    <2>2. /\ step \in {"order", "read", "load", "write"}
          /\ step = "write" <=> r.kind = "checkin"
          /\ r.kind \in {"mock", "checkin"} => who = r.user
          /\ r.kind = "callback" => who = NULL
          /\ RequestOK(r, step)
      BY <1>1 DEF Arrival
    <2>3. r.kind \in {"mock", "checkin", "callback"} => r.user \in Users
      BY <2>2 DEF RequestOK, Vouchers
    <2>4. r.kind \in {"mock", "checkin"} => cache'[s][r.user] # NULL
      BY <2>1, <2>2, <2>3, RowIsNotNull
    <2>5. r.kind = "callback" => cache'[s][r.user] = NULL
      BY <2>1, <2>2, <2>3
    <2>6. Read(s)'
      BY <2>1, <2>2, <2>4, <2>5
    <2> QED BY <1>a, <2>1, <2>6
  <1>2. ASSUME NEW s \in Sessions, OrderPlaced(s) PROVE UserRead'
    BY <1>2, <1>b DEF OrderPlaced
  <1>3. ASSUME NEW s \in Sessions, OrderRejected(s) PROVE UserRead'
    <2>1. Goto(s, "claim") /\ pc[s] = "order" /\ Read(s)
      BY <1>3 DEF OrderRejected, UserRead
    <2> QED BY <1>a, <2>1, GotoStays
  <1>4. ASSUME NEW s \in Sessions, FindOpen(s) PROVE UserRead'
    <2>1. Goto(s, IF req[s].kind = "mock" THEN "write" ELSE "claim") /\ pc[s] = "read" /\ Read(s)
      BY <1>4 DEF FindOpen, UserRead
    <2> QED BY <1>a, <2>1, GotoStays
  <1>5. ASSUME NEW s \in Sessions, Decline(s) PROVE UserRead'
    BY <1>5, <1>b DEF Decline
  <1>6. ASSUME NEW s \in Sessions, ClaimVoucher(s) PROVE UserRead'
    <2> DEFINE next == IF req[s].kind \in {"callback", "confirm", "refund"} THEN "load" ELSE "commit"
    <2>1. Goto(s, next) /\ pc[s] = "claim" /\ Read(s) /\ RequestOK(req[s], pc[s])
      BY <1>6 DEF ClaimVoucher, UserRead, WellFormed
    <2>2. next = "commit" /\ req[s].user # NULL => req[s].kind = "mock"
      BY <2>1 DEF RequestOK, AllKinds
    <2>3. Read(s)'
      BY <2>1, <2>2, GotoStays
    <2> QED BY <1>a, <2>1, <2>3, GotoStays
  <1>7. ASSUME NEW s \in Sessions, LoadUser(s) PROVE UserRead'
    <2>1. pc[s] = "load" /\ RequestOK(req[s], pc[s])
      BY <1>7 DEF LoadUser, WellFormed
    <2>2. req[s].user \in Users
      BY <2>1 DEF RequestOK, AllKinds, Vouchers
    <2>3. cache'[s][req[s].user] # NULL
      <3>1. cache[s] \in [Users -> Row \cup {NULL}]
        BY DEF TypeOK
      <3>2. cache'[s] = IF cache[s][req[s].user] = NULL
                        THEN [cache[s] EXCEPT ![req[s].user] = account[req[s].user]]
                        ELSE cache[s]
        BY <1>7, LoadStays
      <3>3. account[req[s].user] # NULL
        BY <2>2, RowIsNotNull
      <3> QED BY <2>2, <3>1, <3>2, <3>3
    <2>4. Read(s)'
      BY <1>7, <2>3, LoadStays
    <2> QED BY <1>7, <1>a, <2>4, LoadStays
  <1>8. ASSUME NEW s \in Sessions, WriteUser(s) PROVE UserRead'
    <2>1. Goto(s, IF req[s].kind = "mock" THEN "claim" ELSE "commit") /\ pc[s] = "write" /\ Read(s)
      BY <1>8 DEF WriteUser, UserRead
    <2> QED BY <1>a, <2>1, GotoStays
  <1>9. ASSUME NEW s \in Sessions, Commit(s) PROVE UserRead'
    BY <1>9, <1>b DEF Commit
  <1>10. ASSUME NEW s \in Sessions, Rollback(s) PROVE UserRead'
    BY <1>10, <1>b DEF Rollback
  <1>11. CASE UNCHANGED vars
    BY <1>11 DEF vars, UserRead
  <1> QED BY <1>1, <1>2, <1>3, <1>4, <1>5, <1>6, <1>7, <1>8, <1>9, <1>10, <1>11, ArriveIsArrival
          DEF Next, Serve, DeadlockVictim

\* A request that handles a voucher finds it among the vouchers.
LEMMA HandledIsVoucher ==
  ASSUME TypeOK, WellFormed, NEW s \in Sessions,
         pc[s] \in {"read", "claim"} \/ (pc[s] = "commit" /\ req[s].voucher # NULL)
  PROVE  req[s].voucher \in Vouchers
  <1>1. RequestOK(req[s], pc[s])
    BY DEF WellFormed
  <1> QED BY <1>1, Fields, ConstantsAssumption DEF RequestOK, AllKinds, Vouchers

LEMMA OneHandlerStep == IInv /\ [Next]_vars => OneHandler'
  <1> SUFFICES ASSUME TypeOK, WellFormed, OneHandler, [Next]_vars PROVE OneHandler'
    BY DEF IInv
  <1> USE Fields, ConstantsAssumption
  \* A step that only moves s on from one handling step to another, or ends it.
  <1>a. ASSUME NEW s \in Sessions, OthersStay(s), UNCHANGED <<voucher, overlapped>>,
               \A v \in Vouchers : Handles(s, v)' => Handles(s, v)
        PROVE  OneHandler'
    <2>1. \A t \in Sessions, v \in Vouchers : Handles(t, v)' => Handles(t, v)
      BY <1>a DEF OthersStay, Handles
    <2>2. \A v \in Vouchers : IsOpen(v)' <=> IsOpen(v)
      BY <1>a DEF IsOpen
    <2> QED BY <1>a, <2>1, <2>2 DEF OneHandler
  <1>b. ASSUME NEW s \in Sessions, Finish(s) PROVE \A v \in Vouchers : ~Handles(s, v)'
    BY <1>b, FinishStays DEF Handles
  <1>1. ASSUME NEW s \in Sessions, NEW who \in Users \cup {NULL}, NEW r \in Request,
               NEW step \in Steps, Arrival(s, who, step, r)
        PROVE  OneHandler'
    <2>a. overlapped' = overlapped
      BY <1>1 DEF Arrival, Receive
    <2>b. OthersStay(s) /\ req'[s] = r /\ pc'[s] = step
      BY <1>1, ArrivalStays
    <2>1. OthersStay(s) /\ req'[s] = r /\ pc'[s] = step /\ overlapped' = overlapped
      BY <2>a, <2>b
    <2>2. /\ step \in {"order", "read", "load", "write"}
          /\ step = "order" <=> r.kind = "pay"
          /\ step = "write" <=> r.kind = "checkin"
          /\ step = "load" <=> r.kind = "adjust"
          /\ RequestOK(r, step)
      BY <1>1 DEF Arrival
    <2>3. CASE voucher' = voucher /\ r.kind # "pay"
      <3>1. \A v \in Vouchers : ~Handles(s, v)'
        BY <2>1, <2>2, <2>3 DEF Handles, RequestOK
      <3> QED BY <1>a, <2>1, <2>3, <3>1
    <2>4. CASE r.kind = "pay" /\ voucher[r.voucher] = "absent"
               /\ voucher' = [voucher EXCEPT ![r.voucher] = "pending"]
      <3> DEFINE w == r.voucher
      <3>1. w \in Recharges /\ w \in Vouchers /\ w \notin Orders
        BY <2>2, <2>4 DEF RequestOK, Vouchers
      <3>2. voucher'[w] = "pending" /\ \A v \in Vouchers \ {w} : voucher'[v] = voucher[v]
        BY <2>4, <3>1 DEF TypeOK
      <3>3. \A t \in Sessions : ~Handles(t, w)
        BY <2>4, <3>1 DEF OneHandler
      <3>4. \A t \in Sessions, v \in Vouchers : Handles(t, v)' => Handles(t, v) \/ (t = s /\ v = w)
        BY <2>1 DEF OthersStay, Handles
      <3>5. IsOpen(w)' /\ \A v \in Vouchers \ {w} : IsOpen(v)' <=> IsOpen(v)
        BY <3>1, <3>2 DEF IsOpen
      <3> QED BY <2>1, <3>1, <3>2, <3>3, <3>4, <3>5 DEF OneHandler
    <2> QED BY <1>1, <2>3, <2>4 DEF Arrival
  <1>2. ASSUME NEW s \in Sessions, OrderPlaced(s) PROVE OneHandler'
    BY <1>2, <1>a, <1>b, FinishStays DEF OrderPlaced, database, history
  <1>3. ASSUME NEW s \in Sessions, OrderRejected(s) PROVE OneHandler'
    <2>1. Goto(s, "claim") /\ pc[s] = "order" /\ UNCHANGED <<voucher, overlapped>>
      BY <1>3 DEF OrderRejected, database, history
    <2> QED BY <1>a, <2>1, GotoStays DEF Handles
  <1>4. ASSUME NEW s \in Sessions, FindOpen(s) PROVE OneHandler'
    <2> DEFINE w == req[s].voucher
    <2>1. /\ Goto(s, IF req[s].kind = "mock" THEN "write" ELSE "claim") /\ pc[s] = "read"
          /\ IsOpen(w) /\ voucher' = voucher
          /\ overlapped' = IF \E t \in Sessions \ {s} : Handles(t, w) THEN overlapped \cup {w}
                                                                      ELSE overlapped
      BY <1>4 DEF FindOpen, database
    <2>2. w \in Vouchers
      BY <2>1, HandledIsVoucher
    <2>3. voucher[w] # "absent"
      BY <2>1 DEF IsOpen
    <2>4. \A t \in Sessions, v \in Vouchers : Handles(t, v)' => Handles(t, v) \/ (t = s /\ v = w)
      BY <2>1, GotoStays DEF OthersStay, Handles
    <2>5. \A v \in Vouchers : IsOpen(v)' <=> IsOpen(v)
      BY <2>1 DEF IsOpen
    <2>6. w \notin overlapped' => \A t \in Sessions \ {s} : ~Handles(t, w)
      BY <2>1
    <2> QED BY <2>1, <2>2, <2>3, <2>4, <2>5, <2>6 DEF OneHandler
  <1>5. ASSUME NEW s \in Sessions, Decline(s) PROVE OneHandler'
    BY <1>5, <1>a, <1>b, FinishStays DEF Decline, database, history
  <1>6. ASSUME NEW s \in Sessions, ClaimVoucher(s) PROVE OneHandler'
    <2> DEFINE next == IF req[s].kind \in {"callback", "confirm", "refund"} THEN "load" ELSE "commit"
    <2>1. Goto(s, next) /\ pc[s] = "claim" /\ UNCHANGED <<voucher, overlapped>>
      BY <1>6 DEF ClaimVoucher, database, history
    <2> QED BY <1>a, <2>1, GotoStays DEF Handles
  <1>7. ASSUME NEW s \in Sessions, LoadUser(s) PROVE OneHandler'
    <2>1. pc[s] = "load" /\ UNCHANGED <<voucher, overlapped>>
      BY <1>7 DEF LoadUser, database
    <2> QED BY <1>7, <1>a, <2>1, LoadStays DEF Handles
  <1>8. ASSUME NEW s \in Sessions, WriteUser(s) PROVE OneHandler'
    <2>1. /\ Goto(s, IF req[s].kind = "mock" THEN "claim" ELSE "commit")
          /\ pc[s] = "write" /\ UNCHANGED <<voucher, overlapped>>
      BY <1>8 DEF WriteUser, database, history
    <2> QED BY <1>a, <2>1, GotoStays DEF Handles
  <1>9. ASSUME NEW s \in Sessions, Commit(s) PROVE OneHandler'
    <2> DEFINE w == req[s].voucher
    <2>1. OthersStay(s) /\ pc[s] = "commit" /\ CommitVoucher(s) /\ overlapped' = overlapped
          /\ \A v \in Vouchers : ~Handles(s, v)'
      BY <1>9, <1>b, FinishStays DEF Commit
    <2>2. CASE w = NULL
      BY <1>a, <2>1, <2>2 DEF CommitVoucher
    <2>3. CASE w # NULL
      <3>1. w \in Vouchers /\ Handles(s, w) /\ RequestOK(req[s], pc[s])
        BY <2>1, <2>3, HandledIsVoucher DEF Handles, WellFormed
      <3>2. voucher'[w] = Settled(req[s].kind) /\ \A v \in Vouchers \ {w} : voucher'[v] = voucher[v]
        BY <2>1, <2>3, <3>1 DEF CommitVoucher, TypeOK
      <3>3. /\ voucher'[w] \in {"success", "failed", "refunded"}
            /\ voucher'[w] = "refunded" <=> w \in Orders
        BY <3>1, <3>2 DEF RequestOK, Settled, AllKinds
      <3>4. \A t \in Sessions, v \in Vouchers : Handles(t, v)' => t # s /\ Handles(t, v)
        BY <2>1 DEF OthersStay, Handles
      <3>5. \A v \in Vouchers \ {w} : IsOpen(v)' <=> IsOpen(v)
        BY <3>2 DEF IsOpen
      <3> QED BY <2>1, <3>1, <3>2, <3>3, <3>4, <3>5 DEF OneHandler
    <2> QED BY <2>2, <2>3
  <1>10. ASSUME NEW s \in Sessions, Rollback(s) PROVE OneHandler'
    BY <1>10, <1>a, <1>b, FinishStays DEF Rollback, database, history
  <1>11. CASE UNCHANGED vars
    BY <1>11 DEF vars, database, history, OneHandler, Handles, IsOpen
  <1> QED BY <1>1, <1>2, <1>3, <1>4, <1>5, <1>6, <1>7, <1>8, <1>9, <1>10, <1>11, ArriveIsArrival
          DEF Next, Serve, DeadlockVictim

\* What the commit of s does to the row of its user.
LEMMA CommittedRow ==
  ASSUME TypeOK, UserRead, NEW s \in Sessions, Commit(s), req[s].user # NULL
  PROVE  LET u == req[s].user IN
         /\ u \in Users /\ Updates(s, u) /\ cache[s][u] \in Row
         /\ account'[u] = WrittenRow(s, u)
         /\ pointLog'[u] = pointLog[u] + req[s].reward
         /\ ledger'[u] = ledger[u] + req[s].delta
         /\ \A o \in Users \ {u} : /\ account'[o] = account[o] /\ pointLog'[o] = pointLog[o]
                                   /\ ledger'[o] = ledger[o]
  <1> DEFINE u == req[s].user
  <1>1. u \in Users
    BY Fields
  <1>2. Updates(s, u)
    BY DEF Commit, UserRead, Updates
  <1>3. cache[s][u] \in Row
    BY <1>1, <1>2 DEF Updates, TypeOK
  <1>4. /\ account'  = [account EXCEPT ![u] = WrittenRow(s, u)]
        /\ pointLog' = [pointLog EXCEPT ![u] = pointLog[u] + req[s].reward]
        /\ ledger'   = [ledger EXCEPT ![u] = ledger[u] + req[s].delta]
    BY DEF Commit, CommitUser
  <1> QED BY <1>1, <1>2, <1>3, <1>4 DEF TypeOK

LEMMA CopyIsCurrentStep == IInv /\ [Next]_vars => CopyIsCurrent'
  <1> SUFFICES ASSUME TypeOK, UserRead, CopyIsCurrent, [Next]_vars PROVE CopyIsCurrent'
    BY DEF IInv
  <1> USE Fields, ConstantsAssumption
  \* A step that gives s no new copy of a row and changes no row.
  <1>a. ASSUME NEW s \in Sessions, OthersStay(s), account' = account, contended' = contended,
               \A u \in Users : Updates(s, u)' => Updates(s, u) /\ cache'[s][u] = cache[s][u]
        PROVE  CopyIsCurrent'
    <2>1. \A t \in Sessions, u \in Users : Updates(t, u)' => Updates(t, u) /\ cache'[t][u] = cache[t][u]
      BY <1>a DEF OthersStay, Updates
    <2> QED BY <1>a, <2>1 DEF CopyIsCurrent
  \* A step in which s reads the row of w, and no other session has it.
  <1>b. ASSUME NEW s \in Sessions, NEW w \in Users, OthersStay(s), account' = account, Contend(s, w),
               \A u \in Users : Updates(s, u)' => u = w /\ cache'[s][u] = account[u]
        PROVE  CopyIsCurrent'
    <2>1. \A t \in Sessions \ {s}, u \in Users : Updates(t, u)' => Updates(t, u) /\ cache'[t][u] = cache[t][u]
      BY <1>b DEF OthersStay, Updates
    <2>2. contended \subseteq contended'
      BY <1>b DEF Contend
    <2>3. w \notin contended' => \A t \in Sessions \ {s} : ~Updates(t, w)
      BY <1>b DEF Contend
    <2> QED BY <1>b, <2>1, <2>2, <2>3 DEF CopyIsCurrent
  <1>c. ASSUME NEW s \in Sessions, Finish(s) PROVE \A u \in Users : ~Updates(s, u)'
    BY <1>c, FinishStays DEF Updates, NothingRead
  <1>d. ASSUME NEW s \in Sessions, NEW step, Goto(s, step), account' = account, contended' = contended
        PROVE  CopyIsCurrent'
    <2>1. OthersStay(s) /\ req'[s] = req[s] /\ cache' = cache
      BY <1>d, GotoStays
    <2> QED BY <1>a, <1>d, <2>1 DEF Updates
  <1>1. ASSUME NEW s \in Sessions, NEW who \in Users \cup {NULL}, NEW r \in Request,
               NEW step \in Steps, Arrival(s, who, step, r)
        PROVE  CopyIsCurrent'
    <2>1. OthersStay(s) /\ req'[s] = r
          /\ cache'[s] = [u \in Users |-> IF u = who THEN account[u] ELSE NULL]
      BY <1>1, ArrivalStays
    <2>2. account' = account
          /\ IF who # NULL /\ who = r.user THEN Contend(s, who) ELSE contended' = contended
      BY <1>1 DEF Arrival, Receive
    <2>3. \A u \in Users : Updates(s, u)' => u = who /\ u = r.user /\ cache'[s][u] = account[u]
      BY <2>1 DEF Updates
    <2>4. CASE who # NULL /\ who = r.user
      BY <1>b, <2>1, <2>2, <2>3, <2>4
    <2>5. CASE ~(who # NULL /\ who = r.user)
      BY <1>a, <2>1, <2>2, <2>3, <2>5
    <2> QED BY <2>4, <2>5
  <1>2. ASSUME NEW s \in Sessions, OrderPlaced(s) PROVE CopyIsCurrent'
    BY <1>2, <1>a, <1>c, FinishStays DEF OrderPlaced, database, history
  <1>3. ASSUME NEW s \in Sessions, OrderRejected(s) PROVE CopyIsCurrent'
    BY <1>3, <1>d DEF OrderRejected, database, history
  <1>4. ASSUME NEW s \in Sessions, FindOpen(s) PROVE CopyIsCurrent'
    BY <1>4, <1>d DEF FindOpen, database
  <1>5. ASSUME NEW s \in Sessions, Decline(s) PROVE CopyIsCurrent'
    BY <1>5, <1>a, <1>c, FinishStays DEF Decline, database, history
  <1>6. ASSUME NEW s \in Sessions, ClaimVoucher(s) PROVE CopyIsCurrent'
    BY <1>6, <1>d DEF ClaimVoucher, database, history
  <1>7. ASSUME NEW s \in Sessions, LoadUser(s) PROVE CopyIsCurrent'
    <2> DEFINE w == req[s].user
    <2>1. /\ OthersStay(s) /\ req'[s] = req[s]
          /\ cache'[s] = IF cache[s][w] = NULL THEN [cache[s] EXCEPT ![w] = account[w]] ELSE cache[s]
      BY <1>7, LoadStays
    <2>2. account' = account
      BY <1>7 DEF LoadUser, database
    <2>3. cache[s] \in [Users -> Row \cup {NULL}]
      BY DEF TypeOK
    <2>4. CASE w \in Users /\ cache[s][w] = NULL
      <3>1. Contend(s, w)
        BY <1>7, <2>4 DEF LoadUser
      <3>2. \A u \in Users : Updates(s, u)' => u = w /\ cache'[s][u] = account[u]
        BY <2>1, <2>3, <2>4 DEF Updates
      <3> QED BY <1>b, <2>1, <2>2, <2>4, <3>1, <3>2
    <2>5. CASE w \in Users /\ cache[s][w] # NULL
      <3>1. contended' = contended /\ cache'[s] = cache[s]
        BY <1>7, <2>1, <2>5 DEF LoadUser
      <3> QED BY <1>a, <2>1, <2>2, <3>1 DEF Updates
    <2>6. CASE w = NULL
      <3>1. \A u \in Users : ~Updates(s, u)' /\ ~Updates(s, u)
        BY <2>1, <2>6 DEF Updates
      <3>2. \A t \in Sessions, u \in Users : Updates(t, u)' => Updates(t, u) /\ cache'[t][u] = cache[t][u]
        BY <2>1, <3>1 DEF OthersStay, Updates
      <3>3. contended \subseteq contended'
        BY <1>7 DEF LoadUser, Contend
      <3> QED BY <2>2, <3>2, <3>3 DEF CopyIsCurrent
    <2> QED BY <2>4, <2>5, <2>6
  <1>8. ASSUME NEW s \in Sessions, WriteUser(s) PROVE CopyIsCurrent'
    BY <1>8, <1>d DEF WriteUser, database, history
  <1>9. ASSUME NEW s \in Sessions, Commit(s) PROVE CopyIsCurrent'
    <2>1. OthersStay(s) /\ contended' = contended /\ \A u \in Users : ~Updates(s, u)'
      BY <1>9, <1>c, FinishStays DEF Commit
    <2>2. CASE req[s].user = NULL
      BY <1>9, <1>a, <2>1, <2>2 DEF Commit, CommitUser
    <2>3. CASE req[s].user # NULL
      <3>1. Updates(s, req[s].user) /\ \A o \in Users \ {req[s].user} : account'[o] = account[o]
        BY <1>9, <2>3, CommittedRow
      <3>2. \A t \in Sessions, u \in Users :
                Updates(t, u)' => t # s /\ Updates(t, u) /\ cache'[t][u] = cache[t][u]
        BY <2>1 DEF OthersStay, Updates
      <3> QED BY <2>1, <3>1, <3>2 DEF CopyIsCurrent
    <2> QED BY <2>2, <2>3
  <1>10. ASSUME NEW s \in Sessions, Rollback(s) PROVE CopyIsCurrent'
    BY <1>10, <1>a, <1>c, FinishStays DEF Rollback, database, history
  <1>11. CASE UNCHANGED vars
    BY <1>11 DEF vars, database, history, CopyIsCurrent, Updates
  <1> QED BY <1>1, <1>2, <1>3, <1>4, <1>5, <1>6, <1>7, <1>8, <1>9, <1>10, <1>11, ArriveIsArrival
          DEF Next, Serve, DeadlockVictim

\* Steps other than a commit and the creation of a recharge.
LEMMA VoucherSteps ==
  ASSUME IInv, [Next]_vars
  PROVE  \/ UNCHANGED <<voucher, credits>> /\ overlapped \subseteq overlapped'
         \/ \E v \in Recharges : /\ voucher[v] = "absent" /\ voucher' = [voucher EXCEPT ![v] = "pending"]
                                 /\ UNCHANGED <<credits, overlapped>>
         \/ \E s \in Sessions : Commit(s)
  <1> USE ConstantsAssumption DEF database, history
  <1>1. ASSUME NEW s \in Sessions, NEW who \in Users \cup {NULL}, NEW r \in Request,
               NEW step \in Steps, Arrival(s, who, step, r)
        PROVE  /\ UNCHANGED <<credits, overlapped>>
               /\ \/ voucher' = voucher
                  \/ \E v \in Recharges : /\ voucher[v] = "absent"
                                          /\ voucher' = [voucher EXCEPT ![v] = "pending"]
    <2>1. UNCHANGED <<credits, overlapped>>
      BY <1>1 DEF Arrival, Receive
    <2>2. r.kind = "pay" => r.voucher \in Recharges
      BY <1>1 DEF Arrival, RequestOK
    <2> QED BY <1>1, <2>1, <2>2 DEF Arrival
  <1>2. ASSUME NEW s \in Sessions, Serve(s) \/ Rollback(s), ~Commit(s)
        PROVE  UNCHANGED <<voucher, credits>> /\ overlapped \subseteq overlapped'
    BY <1>2 DEF Serve, OrderPlaced, OrderRejected, FindOpen, Decline, ClaimVoucher, LoadUser, WriteUser,
                DeadlockVictim, Rollback
  <1>3. CASE UNCHANGED vars
    BY <1>3 DEF vars
  <1> QED BY <1>1, <1>2, <1>3, ArriveIsArrival DEF Next

\* What the commit of s does to the status and the credits of its voucher.
LEMMA CommittedVoucher ==
  ASSUME TypeOK, WellFormed, NEW s \in Sessions, Commit(s)
  PROVE  /\ overlapped' = overlapped
         /\ req[s].voucher = NULL => UNCHANGED <<voucher, credits>>
         /\ req[s].voucher # NULL =>
              LET v == req[s].voucher IN
              /\ v \in Vouchers /\ Handles(s, v)
              /\ \A w \in Vouchers \ {v} : voucher'[w] = voucher[w] /\ credits'[w] = credits[w]
              /\ \/ voucher'[v] = "failed" /\ credits'[v] = credits[v]
                 \/ voucher'[v] \in {"success", "refunded"} /\ credits'[v] = credits[v] + 1
  <1> USE Fields, ConstantsAssumption
  <1>1. overlapped' = overlapped /\ CommitVoucher(s) /\ pc[s] = "commit"
    BY DEF Commit
  <1>2. CASE req[s].voucher = NULL
    BY <1>1, <1>2 DEF CommitVoucher
  <1>3. CASE req[s].voucher # NULL
    <2> DEFINE v == req[s].voucher
    <2>1. v \in Vouchers /\ Handles(s, v) /\ RequestOK(req[s], pc[s])
      BY <1>1, <1>3, HandledIsVoucher DEF Handles, WellFormed
    <2>2. voucher' = [voucher EXCEPT ![v] = Settled(req[s].kind)]
      BY <1>1, <1>3 DEF CommitVoucher
    <2>3. CASE req[s].user = NULL
      <3>1. req[s].kind \in {"pay", "cancel"} /\ credits' = credits
        BY <1>1, <1>3, <2>1, <2>3 DEF RequestOK, CommitVoucher, AllKinds, Vouchers
      <3> QED BY <1>1, <1>3, <2>1, <2>2, <3>1 DEF Settled, TypeOK
    <2>4. CASE req[s].user # NULL
      <3>1. req[s].kind \in {"callback", "mock", "confirm", "refund"}
        BY <1>3, <2>1, <2>4 DEF RequestOK, AllKinds
      <3>2. credits' = [credits EXCEPT ![v] = credits[v] + 1]
        BY <1>1, <1>3, <2>4 DEF CommitVoucher
      <3> QED BY <1>1, <1>3, <2>1, <2>2, <3>1, <3>2 DEF Settled, TypeOK
    <2> QED BY <2>3, <2>4
  <1> QED BY <1>2, <1>3

LEMMA MoneyStep == IInv /\ [Next]_vars => (StatusMatchesMoney /\ SettledOnce)'
  <1> SUFFICES ASSUME IInv, [Next]_vars PROVE (StatusMatchesMoney /\ SettledOnce)'
    OBVIOUS
  <1> USE ConstantsAssumption DEF IInv
  <1>1. CASE UNCHANGED <<voucher, credits>> /\ overlapped \subseteq overlapped'
    BY <1>1 DEF StatusMatchesMoney, SettledOnce
  <1>2. CASE \E v \in Recharges : /\ voucher[v] = "absent" /\ voucher' = [voucher EXCEPT ![v] = "pending"]
                                  /\ UNCHANGED <<credits, overlapped>>
    <2>1. \A v \in Vouchers : /\ credits'[v] = credits[v]
                              /\ voucher'[v] = voucher[v] \/ (voucher[v] = "absent" /\ voucher'[v] = "pending")
      BY <1>2 DEF TypeOK
    <2> QED BY <1>2, <2>1 DEF StatusMatchesMoney, SettledOnce, TypeOK
  <1>3. ASSUME NEW s \in Sessions, Commit(s) PROVE (StatusMatchesMoney /\ SettledOnce)'
    <2> DEFINE v == req[s].voucher
    <2>1. CASE v = NULL
      BY <1>3, <2>1, CommittedVoucher DEF StatusMatchesMoney, SettledOnce
    <2>2. CASE v # NULL
      <3>1. /\ v \in Vouchers /\ Handles(s, v) /\ overlapped' = overlapped
            /\ \A w \in Vouchers \ {v} : voucher'[w] = voucher[w] /\ credits'[w] = credits[w]
            /\ \/ voucher'[v] = "failed" /\ credits'[v] = credits[v]
               \/ voucher'[v] \in {"success", "refunded"} /\ credits'[v] = credits[v] + 1
        BY <1>3, <2>2, CommittedVoucher
      <3>2. credits[v] \in Nat
        BY <3>1 DEF TypeOK
      <3>3. v \notin overlapped => credits[v] = 0
        BY <3>1 DEF OneHandler, IsOpen, StatusMatchesMoney
      <3>4. StatusMatchesMoney'
        BY <3>1, <3>2 DEF StatusMatchesMoney
      <3>5. SettledOnce'
        BY <3>1, <3>2, <3>3 DEF SettledOnce
      <3> QED BY <3>4, <3>5
    <2> QED BY <2>1, <2>2
  <1> QED BY <1>1, <1>2, <1>3, VoucherSteps

LEMMA NothingLostStep == IInv /\ [Next]_vars => NothingLost'
  <1> SUFFICES ASSUME IInv, [Next]_vars PROVE NothingLost'
    OBVIOUS
  <1> USE ConstantsAssumption DEF IInv
  <1>1. ASSUME NEW s \in Sessions, Commit(s) PROVE NothingLost'
    <2>1. contended' = contended
      BY <1>1 DEF Commit
    <2>2. CASE req[s].user = NULL
      BY <1>1, <2>1, <2>2 DEF Commit, CommitUser, NothingLost
    <2>3. CASE req[s].user # NULL
      <3> DEFINE u == req[s].user
      <3>1. /\ u \in Users /\ Updates(s, u) /\ cache[s][u] \in Row
            /\ account'[u] = WrittenRow(s, u)
            /\ pointLog'[u] = pointLog[u] + req[s].reward
            /\ ledger'[u] = ledger[u] + req[s].delta
            /\ \A o \in Users \ {u} : /\ account'[o] = account[o] /\ pointLog'[o] = pointLog[o]
                                      /\ ledger'[o] = ledger[o]
        BY <1>1, <2>3, CommittedRow
      <3>2. u \notin contended => cache[s][u] = account[u]
        BY <3>1 DEF CopyIsCurrent
      <3>3. /\ account[u].balance \in Int /\ account[u].points \in Nat
            /\ req[s].delta \in Int /\ req[s].reward \in Nat
        BY <3>1, Fields DEF TypeOK, Row
      <3>4. u \notin contended => /\ account'[u].balance = account[u].balance + req[s].delta
                                  /\ account'[u].points = account[u].points + req[s].reward
        BY <3>1, <3>2, <3>3 DEF WrittenRow
      <3> QED BY <2>1, <3>1, <3>4 DEF NothingLost
    <2> QED BY <2>2, <2>3
  <1>2. ASSUME NEW s \in Sessions, NEW who \in Users \cup {NULL}, NEW r \in Request,
               NEW step \in Steps, Arrival(s, who, step, r)
        PROVE  NothingLost'
    <2>1. UNCHANGED <<account, pointLog, ledger>> /\ contended \subseteq contended'
      BY <1>2 DEF Arrival, Receive, Contend
    <2> QED BY <2>1 DEF NothingLost
  <1>3. ASSUME NEW s \in Sessions, Serve(s) \/ Rollback(s), ~Commit(s) PROVE NothingLost'
    <2>1. UNCHANGED <<account, pointLog, ledger>> /\ contended \subseteq contended'
      BY <1>3 DEF Serve, OrderPlaced, OrderRejected, FindOpen, Decline, ClaimVoucher, LoadUser, WriteUser,
                  DeadlockVictim, Rollback, Contend, database, history
    <2> QED BY <2>1 DEF NothingLost
  <1>4. CASE UNCHANGED vars
    BY <1>4 DEF vars, database, history, NothingLost
  <1> QED BY <1>1, <1>2, <1>3, <1>4, ArriveIsArrival DEF Next

-----------------------------------------------------------------------------
\* The invariant is inductive: every reachable state, with any number of
\* concurrent requests, has well-formed requests, holds the row locks it should
\* and has at most one handler of a voucher that did not overlap.
THEOREM Invariant == Spec => []IInv
  <1>1. Init => IInv
    BY InitIInv
  <1>2. IInv /\ [Next]_vars => IInv'
    BY TypeStep, WellFormedStep, VoucherLockedStep, UserReadStep, OneHandlerStep, CopyIsCurrentStep,
       MoneyStep, NothingLostStep DEF IInv
  <1> QED BY <1>1, <1>2, PTL DEF Spec

\* Every column and every field of a request keeps its type, whatever the
\* handlers of billing.py, points.py and the admin routers do.
THEOREM TypeCorrect == Spec => []TypeOK
  <1>1. IInv => TypeOK
    BY DEF IInv
  <1> QED BY <1>1, Invariant, PTL

\* The status check of the callbacks, of /pay/mock and of the admin operations
\* suffices against repetition: without overlap no voucher is paid out twice.
THEOREM PaysOutOnce == Spec => []SettledOnce
  <1>1. IInv => SettledOnce
    BY DEF IInv
  <1> QED BY <1>1, Invariant, PTL

\* The status and the money are committed together by every handler, even when
\* handlers overlap.
THEOREM StatusAndMoneyAgree == Spec => []StatusMatchesMoney
  <1>1. IInv => StatusMatchesMoney
    BY DEF IInv
  <1> QED BY <1>1, Invariant, PTL

\* An account that no two requests read for update at the same time has exactly
\* the balance and the points that its committed requests add up to.
THEOREM BalancesAddUp == Spec => []NothingLost
  <1>1. IInv => NothingLost
    BY DEF IInv
  <1> QED BY <1>1, Invariant, PTL

\* The autoflush of the status before the SELECT of the user makes repeated
\* callbacks of one recharge wait for each other.
THEOREM CallbacksWait == Spec => []CallbacksSerialised
  <1>1. IInv => CallbacksSerialised
    <2> SUFFICES ASSUME TypeOK, WellFormed, VoucherLocked, UserRead,
                        NEW s \in Sessions, NEW t \in Sessions, s # t,
                        req[s].kind = "callback", req[t].kind = "callback",
                        req[s].voucher = req[t].voucher,
                        Updates(s, req[s].user), Updates(t, req[t].user)
                 PROVE  FALSE
      BY DEF IInv, CallbacksSerialised
    <2>1. pc[s] \in {"write", "commit"} /\ pc[t] \in {"write", "commit"}
      BY DEF UserRead, Updates
    <2>2. req[s].voucher # NULL
      BY ConstantsAssumption DEF WellFormed, RequestOK, Vouchers
    <2>3. voucherLock[req[s].voucher] = s /\ voucherLock[req[s].voucher] = t
      BY <2>1, <2>2 DEF VoucherLocked, HoldsVoucher
    <2> QED BY <2>3
  <1> QED BY <1>1, Invariant, PTL

\* No request overwrites the outcome of another that had committed before it
\* found the voucher open.
THEOREM OutcomesStay == Spec => StatusIsFinal
  <1>1. IInv /\ [Next]_vars =>
          \A v \in Vouchers \ overlapped' :
             voucher[v] \in {"success", "failed", "refunded"} => voucher'[v] = voucher[v]
    <2> SUFFICES ASSUME IInv, [Next]_vars, NEW v \in Vouchers \ overlapped',
                        voucher[v] \in {"success", "failed", "refunded"}
                 PROVE  voucher'[v] = voucher[v]
      OBVIOUS
    <2>1. CASE UNCHANGED <<voucher, credits>>
      BY <2>1
    <2>2. CASE \E w \in Recharges : voucher[w] = "absent" /\ voucher' = [voucher EXCEPT ![w] = "pending"]
      BY <2>2 DEF IInv, TypeOK
    <2>3. ASSUME NEW s \in Sessions, Commit(s) PROVE voucher'[v] = voucher[v]
      <3>1. req[s].voucher = v => Handles(s, v) /\ v \notin overlapped /\ v # NULL
        BY <2>3, CommittedVoucher, ConstantsAssumption DEF IInv
      <3>2. req[s].voucher # v
        BY <3>1 DEF IInv, OneHandler, IsOpen
      <3> QED BY <2>3, <3>2, CommittedVoucher DEF IInv
    <2> QED BY <2>1, <2>2, <2>3, VoucherSteps
  <1>2. []IInv /\ [][Next]_vars => StatusIsFinal
    BY <1>1, PTL DEF StatusIsFinal
  <1> QED BY <1>2, Invariant, PTL DEF Spec

=============================================================================
