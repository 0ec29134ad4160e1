------------------------------ MODULE FileSpace ------------------------------
(***************************************************************************)
(* What the users are promised about their storage: a set of files, and a  *)
(* counter that every addition raises, within the quota, and every removal *)
(* lowers, in one step.  UserStorage implements it.                        *)
(***************************************************************************)
EXTENDS Integers

CONSTANTS Users, Entries, Quota

VARIABLES files, used

Init == files = {} /\ used = [u \in Users |-> 0]

Add(e, u, n) ==
    /\ \A f \in files : f.id # e
    /\ used[u] + n <= Quota
    /\ files' = files \cup {[id |-> e, owner |-> u, bytes |-> n]}
    /\ used' = [used EXCEPT ![u] = @ + n]

Remove(f) ==
    /\ files' = files \ {f}
    /\ used' = [used EXCEPT ![f.owner] = @ - f.bytes]

Next ==
    \/ \E e \in Entries, u \in Users, n \in 0 .. Quota : Add(e, u, n)
    \/ \E f \in files : Remove(f)

Spec == Init /\ [][Next]_<<files, used>>

=============================================================================
