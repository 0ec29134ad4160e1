-------------------------- MODULE MCRechargeLedger --------------------------
(***************************************************************************)
(* Small instances of RechargeLedger for TLC: one user with two recharges, *)
(* one consumption order, and a second user who is an administrator.       *)
(***************************************************************************)
EXTENDS RechargeLedger

CONSTANTS alice, root, r1, r2, m1, o1

MCOwner  == [v \in Vouchers |-> alice]
\* 150 cents give one point, 50 cents give none.
MCAmount == [v \in Vouchers |-> IF v = r2 THEN 1 ELSE 3]
MCDeltas == {-5}

=============================================================================
