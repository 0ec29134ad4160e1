---------------------------- MODULE MCUserStorage ----------------------------
EXTENDS UserStorage, TLC

CONSTANTS u1, a, b, c1, c2, e1, e2, e3, e4, s1, s2

\* The root, and a directory in it.
MCPaths == {<<>>, <<a>>}
MCSize  == [c \in {c1, c2} |-> IF c = c1 THEN 1 ELSE 2]

\* Rows and requests are interchangeable; names are not, for MCPaths.
MCSymmetry == Permutations(Entries) \cup Permutations(Sessions)

\* Four ids, but three once an object was disowned or a counter went wrong.
FewAfterTrouble == disowned \cup miscounted # {} => Cardinality(born) <= 3

=============================================================================
