----------------------------- MODULE SumTheorems ------------------------------
(***************************************************************************)
(* Sums over finite sets, as SumFunction adds them up.  It is a fold over  *)
(* a recursive function of sets; what takes the place of induction here is *)
(* that among the parts of a finite set which have a property there is a   *)
(* smallest.                                                               *)
(***************************************************************************)
EXTENDS Integers, FiniteSets, Functions, FiniteSetTheorems, TLAPS

\* g gives every part of S the sum of the values of w over it.
Sums(g, w, S) ==
    /\ g \in [SUBSET S -> Int] /\ g[{}] = 0
    /\ \A T \in SUBSET S : \A x \in S \ T : g[T \cup {x}] = g[T] + w[x]

\* In a set of parts of a finite set one has no smaller one in it.
LEMMA SmallestPart ==
    ASSUME NEW S, IsFiniteSet(S), NEW B \in SUBSET (SUBSET S), B # {}
    PROVE  \E T \in B : \A U \in B : U \subseteq T => U = T
  <1>1. IsWellFoundedOn(StrictSubsetOrdering(S), SUBSET S)
    BY FS_StrictSubsetOrderingWellFounded, FS_FiniteSubsetsOfFinite
  <1>2. PICK T \in B : \A U \in B : <<U, T>> \notin StrictSubsetOrdering(S)
    BY <1>1, WFMin
  <1>3. \A U \in B : U \subseteq T => U = T
    BY <1>2 DEF StrictSubsetOrdering
  <1> QED BY <1>3

LEMMA SumsExist ==
    ASSUME NEW S, IsFiniteSet(S), NEW w \in [S -> Int]
    PROVE  \E g : Sums(g, w, S)
  <1> DEFINE bad == {T \in SUBSET S : ~\E g : Sums(g, w, T)}
  <1>1. SUFFICES ASSUME bad # {} PROVE FALSE
    BY DEF Sums
  <1>2. PICK T \in bad : \A U \in bad : U \subseteq T => U = T
    <2>1. bad \in SUBSET (SUBSET S)
      OBVIOUS
    <2> HIDE DEF bad
    <2> QED BY <1>1, <2>1, SmallestPart
  <1>3. T # {}
    <2>1. Sums([U \in SUBSET {} |-> 0], w, {})
      BY DEF Sums
    <2> QED BY <1>2, <2>1
  <1>4. PICK x \in T : TRUE
    BY <1>3
  <1>5. T \ {x} \notin bad /\ T \ {x} \in SUBSET S
    BY <1>2, <1>4
  <1>6. PICK h : Sums(h, w, T \ {x})
    BY <1>5
  <1> DEFINE g == [U \in SUBSET T |-> IF x \in U THEN h[U \ {x}] + w[x] ELSE h[U]]
  <1>7. g \in [SUBSET T -> Int] /\ g[{}] = 0
    <2>1. \A U \in SUBSET T : U \ {x} \in SUBSET (T \ {x})
      OBVIOUS
    <2>2. \A U \in SUBSET T : x \notin U => U \in SUBSET (T \ {x})
      OBVIOUS
    <2>3. w[x] \in Int
      BY <1>2, <1>4
    <2> QED BY <1>6, <2>1, <2>2, <2>3 DEF Sums
  <1>8. ASSUME NEW U \in SUBSET T, NEW y \in T \ U PROVE g[U \cup {y}] = g[U] + w[y]
    <2>1. U \cup {y} \in SUBSET T /\ w[x] \in Int /\ w[y] \in Int
      BY <1>2, <1>4, <1>8
    <2>2. CASE y = x
      <3>1. x \notin U /\ (U \cup {y}) \ {x} = U
        BY <1>8, <2>2
      <3>2. h[U] \in Int
        BY <1>6, <1>8, <3>1 DEF Sums
      <3> QED BY <2>1, <2>2, <3>1, <3>2
    <2>3. CASE y # x /\ x \in U
      <3>1. (U \cup {y}) \ {x} = (U \ {x}) \cup {y} /\ U \ {x} \in SUBSET (T \ {x}) /\ y \in (T \ {x}) \ (U \ {x})
        BY <1>8, <2>3
      <3>2. h[(U \ {x}) \cup {y}] = h[U \ {x}] + w[y] /\ h[U \ {x}] \in Int
        BY <1>6, <3>1 DEF Sums
      <3>3. g[U \cup {y}] = h[(U \cup {y}) \ {x}] + w[x] /\ g[U] = h[U \ {x}] + w[x]
        BY <2>1, <2>3
      <3>4. g[U \cup {y}] = (h[U \ {x}] + w[y]) + w[x]
        BY <3>1, <3>2, <3>3
      <3> HIDE DEF g
      <3> QED BY <2>1, <3>2, <3>3, <3>4
    <2>4. CASE y # x /\ x \notin U
      <3>1. U \in SUBSET (T \ {x}) /\ y \in (T \ {x}) \ U
        BY <1>8, <2>4
      <3>2. h[U \cup {y}] = h[U] + w[y]
        BY <1>6, <3>1 DEF Sums
      <3> QED BY <2>1, <2>4, <3>2
    <2> QED BY <2>2, <2>3, <2>4
  <1>9. Sums(g, w, T)
    <2> HIDE DEF g
    <2> QED BY <1>7, <1>8 DEF Sums
  <1> QED BY <1>2, <1>9

\* What adds the values up one by one adds them up.
LEMMA SumIs ==
    ASSUME NEW S, IsFiniteSet(S), NEW w \in [S -> Int], NEW g, Sums(g, w, S)
    PROVE  SumFunction(w) = g[S]
  <1> DEFINE Adds(f) == f = [T \in SUBSET S |-> IF T = {} THEN 0
                                    ELSE w[CHOOSE x \in T : TRUE] + f[T \ {CHOOSE x \in T : TRUE}]]
  <1>1. Adds(g)
    <2>1. ASSUME NEW T \in SUBSET S, T # {}
          PROVE  g[T] = w[CHOOSE x \in T : TRUE] + g[T \ {CHOOSE x \in T : TRUE}]
      <3>1. PICK x : x = CHOOSE y \in T : TRUE
        OBVIOUS
      <3>2. x \in T
        BY <2>1, <3>1
      <3>3. T \ {x} \in SUBSET S /\ x \in S \ (T \ {x}) /\ (T \ {x}) \cup {x} = T
        BY <3>2
      <3>4. g[T] = w[x] + g[T \ {x}]
        BY <3>3 DEF Sums
      <3> QED BY <3>1, <3>4
    <2> QED BY <2>1 DEF Sums
  <1> DEFINE f == CHOOSE h : Adds(h)
  <1>2. Adds(f)
    <2>1. \E h : Adds(h)
      BY <1>1
    <2> HIDE DEF Adds
    <2> QED BY <2>1
  <1>3. SumFunction(w) = f[S]
    BY DEF SumFunction, SumFunctionOnSet, FoldFunctionOnSet, MapThenFoldSet
  <1> HIDE DEF f
  <1> DEFINE bad == {T \in SUBSET S : f[T] # g[T]}
  <1>4. bad = {}
    <2>1. SUFFICES ASSUME bad # {} PROVE FALSE
      OBVIOUS
    <2>2. PICK T \in bad : \A U \in bad : U \subseteq T => U = T
      <3>1. bad \in SUBSET (SUBSET S)
        OBVIOUS
      <3> HIDE DEF bad
      <3> QED BY <2>1, <3>1, SmallestPart
    <2>3. T # {} /\ T \in SUBSET S
      BY <1>1, <1>2, <2>2
    <2>4. PICK x : x = CHOOSE y \in T : TRUE
      OBVIOUS
    <2>5. x \in T
      BY <2>3, <2>4
    <2>6. T \ {x} \in SUBSET S /\ T \ {x} \notin bad
      BY <2>2, <2>3, <2>5
    <2>7. f[T] = w[x] + f[T \ {x}]
      BY <1>2, <2>3, <2>4
    <2>8. g[T] = w[x] + g[T \ {x}]
      BY <1>1, <2>3, <2>4
    <2> QED BY <2>2, <2>6, <2>7, <2>8
  <1> QED BY <1>3, <1>4

\* The empty sum.
LEMMA SumEmpty == ASSUME NEW w \in [{} -> Int] PROVE SumFunction(w) = 0
  <1>1. PICK g : Sums(g, w, {})
    BY SumsExist, FS_EmptySet
  <1>2. SumFunction(w) = g[{}]
    BY <1>1, SumIs, FS_EmptySet
  <1> QED BY <1>1, <1>2 DEF Sums

\* A sum of natural numbers is one.
LEMMA SumNat == ASSUME NEW S, IsFiniteSet(S), NEW w \in [S -> Nat] PROVE SumFunction(w) \in Nat
  <1>0. w \in [S -> Int]
    OBVIOUS
  <1>1. PICK g : Sums(g, w, S)
    BY <1>0, SumsExist
  <1> DEFINE bad == {T \in SUBSET S : g[T] \notin Nat}
  <1>2. ASSUME bad # {} PROVE FALSE
    <2>1. PICK T \in bad : \A U \in bad : U \subseteq T => U = T
      <3>1. bad \in SUBSET (SUBSET S)
        OBVIOUS
      <3> HIDE DEF bad
      <3> QED BY <1>2, <3>1, SmallestPart
    <2>2. T # {}
      <3>1. g[{}] = 0
        BY <1>1 DEF Sums
      <3>2. g[T] \notin Nat
        BY <2>1
      <3> QED BY <3>1, <3>2
    <2>. PICK x \in T : TRUE
      BY <2>2
    <2>3. T \ {x} \in SUBSET S /\ T \ {x} \notin bad /\ x \in S \ (T \ {x}) /\ (T \ {x}) \cup {x} = T
      BY <2>1, <2>2
    <2>4. g[T] = g[T \ {x}] + w[x]
      BY <1>1, <2>3 DEF Sums
    <2> QED BY <2>1, <2>3, <2>4
  <1>3. g[S] \in Nat
    BY <1>2
  <1> QED BY <1>0, <1>1, <1>3, SumIs

\* One more value is added.
LEMMA SumAdd ==
    ASSUME NEW S, IsFiniteSet(S), NEW x, x \notin S, NEW w \in [S \cup {x} -> Int]
    PROVE  SumFunction(w) = SumFunction([e \in S |-> w[e]]) + w[x]
  <1> DEFINE v == [e \in S |-> w[e]]
  <1>1. IsFiniteSet(S \cup {x})
    BY FS_AddElement
  <1>2. PICK g : Sums(g, w, S \cup {x})
    BY <1>1, SumsExist
  <1>3. SumFunction(w) = g[S \cup {x}]
    BY <1>1, <1>2, SumIs
  <1> DEFINE h == [T \in SUBSET S |-> g[T]]
  <1>4. Sums(h, v, S)
    <2>1. \A T \in SUBSET S : T \in SUBSET (S \cup {x})
      OBVIOUS
    <2>2. \A T \in SUBSET S : \A y \in S \ T : T \cup {y} \in SUBSET S /\ y \in (S \cup {x}) \ T
      OBVIOUS
    <2> QED BY <1>2, <2>1, <2>2 DEF Sums
  <1>5. v \in [S -> Int]
    OBVIOUS
  <1>6. SumFunction(v) = h[S]
    <2> HIDE DEF v, h
    <2> QED BY <1>4, <1>5, SumIs
  <1>7. g[S \cup {x}] = g[S] + w[x]
    BY <1>2 DEF Sums
  <1> QED BY <1>3, <1>6, <1>7

LEMMA SumMore ==
    ASSUME NEW S, IsFiniteSet(S), NEW x, x \notin S, NEW w \in [S -> Int],
           NEW v \in [S \cup {x} -> Int], \A e \in S : v[e] = w[e]
    PROVE  SumFunction(v) = SumFunction(w) + v[x]
  <1>1. [e \in S |-> v[e]] = w
    OBVIOUS
  <1> QED BY <1>1, SumAdd

LEMMA SumOne == ASSUME NEW x, NEW w \in [{x} -> Int] PROVE SumFunction(w) = w[x]
  <1>1. PICK N : N = {}
    OBVIOUS
  <1> DEFINE z == [e \in N |-> 0]
  <1>2. z \in [N -> Int] /\ IsFiniteSet(N) /\ x \notin N /\ w \in [N \cup {x} -> Int]
    BY <1>1, FS_EmptySet
  <1>3. SumFunction(z) = 0
    <2>1. z \in [{} -> Int]
      BY <1>1
    <2> HIDE DEF z
    <2> QED BY <2>1, SumEmpty
  <1>4. SumFunction(w) = SumFunction(z) + w[x]
    <2>1. \A e \in N : w[e] = z[e]
      BY <1>1
    <2> HIDE DEF z
    <2> QED BY <1>2, <2>1, SumMore
  <1> HIDE DEF z
  <1> QED BY <1>3, <1>4

\* A sum of values none of which is larger is not larger.
LEMMA SumMonotone ==
    ASSUME NEW S, IsFiniteSet(S), NEW v \in [S -> Int], NEW w \in [S -> Int], \A e \in S : v[e] <= w[e]
    PROVE  SumFunction(v) <= SumFunction(w)
  <1>1. PICK g : Sums(g, v, S)
    BY SumsExist
  <1>2. PICK h : Sums(h, w, S)
    BY SumsExist
  <1> DEFINE bad == {T \in SUBSET S : ~(g[T] <= h[T])}
  <1>3. ASSUME bad # {} PROVE FALSE
    <2>1. PICK T \in bad : \A U \in bad : U \subseteq T => U = T
      <3>1. bad \in SUBSET (SUBSET S)
        OBVIOUS
      <3> HIDE DEF bad
      <3> QED BY <1>3, <3>1, SmallestPart
    <2>2. T # {}
      <3>1. g[{}] = 0 /\ h[{}] = 0
        BY <1>1, <1>2 DEF Sums
      <3>2. ~(g[T] <= h[T])
        BY <2>1
      <3> QED BY <3>1, <3>2
    <2> PICK x \in T : TRUE
      BY <2>2
    <2>3. T \ {x} \in SUBSET S /\ T \ {x} \notin bad /\ x \in S \ (T \ {x}) /\ (T \ {x}) \cup {x} = T
      BY <2>1, <2>2
    <2>4. /\ g[T] = g[T \ {x}] + v[x]
          /\ h[T] = h[T \ {x}] + w[x]
      <3>1. g[(T \ {x}) \cup {x}] = g[T \ {x}] + v[x]
        BY <1>1, <2>3 DEF Sums
      <3>2. h[(T \ {x}) \cup {x}] = h[T \ {x}] + w[x]
        BY <1>2, <2>3 DEF Sums
      <3> QED BY <2>3, <3>1, <3>2
    <2>5. /\ g[T \ {x}] \in Int /\ h[T \ {x}] \in Int /\ v[x] \in Int /\ w[x] \in Int /\ v[x] <= w[x]
          /\ g[T \ {x}] <= h[T \ {x}]
      BY <1>1, <1>2, <2>3 DEF Sums
    <2>6. ~(g[T] <= h[T])
      BY <2>1
    <2> HIDE DEF bad
    <2> QED BY <2>4, <2>5, <2>6
  <1>4. g[S] <= h[S]
    BY <1>3
  <1> QED BY <1>1, <1>2, <1>4, SumIs

\* A change of one value changes the sum as much.
LEMMA SumChange ==
    ASSUME NEW S, IsFiniteSet(S), NEW x \in S, NEW v \in [S -> Int], NEW w \in [S -> Int],
           \A e \in S \ {x} : v[e] = w[e]
    PROVE  SumFunction(v) - v[x] = SumFunction(w) - w[x]
  <1> DEFINE R == S \ {x}
             r == [e \in R |-> w[e]]
  <1>1. IsFiniteSet(R) /\ x \notin R /\ R \cup {x} = S
    BY FS_RemoveElement
  <1>2. [e \in R |-> v[e]] = r
    OBVIOUS
  <1>3. v \in [R \cup {x} -> Int] /\ w \in [R \cup {x} -> Int] /\ r \in [R -> Int]
    BY <1>1
  <1>4. SumFunction(v) = SumFunction([e \in R |-> v[e]]) + v[x]
    <2> HIDE DEF R, r
    <2> QED BY <1>1, <1>3, SumAdd
  <1>5. SumFunction(w) = SumFunction(r) + w[x]
    <2>1. SumFunction(w) = SumFunction([e \in R |-> w[e]]) + w[x]
      <3> HIDE DEF R
      <3> QED BY <1>1, <1>3, SumAdd
    <2> QED BY <2>1
  <1>6. SumFunction(r) \in Int
    <2>1. PICK g : Sums(g, r, R)
      <3> HIDE DEF R, r
      <3> QED BY <1>1, <1>3, SumsExist
    <2>2. SumFunction(r) = g[R]
      <3> HIDE DEF R, r
      <3> QED BY <1>1, <1>3, <2>1, SumIs
    <2> QED BY <2>1, <2>2 DEF Sums
  <1>7. SumFunction(v) = SumFunction(r) + v[x]
    BY <1>2, <1>4
  <1>8. v[x] \in Int /\ w[x] \in Int
    OBVIOUS
  <1> HIDE DEF R, r
  <1> QED BY <1>5, <1>6, <1>7, <1>8

\* A sum of zeros.
LEMMA SumZero ==
    ASSUME NEW S, IsFiniteSet(S), NEW w \in [S -> Int], \A e \in S : w[e] = 0
    PROVE  SumFunction(w) = 0
  <1> DEFINE z == [T \in SUBSET S |-> 0]
  <1>1. Sums(z, w, S)
    BY DEF Sums
  <1>2. SumFunction(w) = z[S]
    <2> HIDE DEF z
    <2> QED BY <1>1, SumIs
  <1> QED BY <1>2

=============================================================================
