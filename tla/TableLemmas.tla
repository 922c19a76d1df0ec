---------------------------- MODULE TableLemmas ----------------------------
(***************************************************************************)
(* What the statements on "wallets" preserve, for any rows and amounts,    *)
(* and the arithmetic of sums over the rows of a table: the sum of a       *)
(* function over a finite set does not depend on the order in which the    *)
(* elements are taken, so it can be followed when one term changes.        *)
(***************************************************************************)
EXTENDS Tables, FiniteSets, Functions, FiniteSetsExt, FiniteSetTheorems, WellFoundedInduction, TLAPS

(* The rows of a user in a table with the asset columns A. *)
RowsType(A) == Seq([A -> Int])

(* AddBalance keeps the number of rows and their shape. *)
LEMMA AddRowsType ==
  ASSUME NEW A, NEW rows \in RowsType(A), NEW a, NEW n \in Int
  PROVE  /\ AddRows(rows, a, n) \in RowsType(A)
         /\ Len(AddRows(rows, a, n)) = Len(rows)
<1>1. /\ Len(rows) \in Nat /\ DOMAIN rows = 1..Len(rows)
      /\ \A i \in 1..Len(rows) : rows[i] \in [A -> Int]
  BY DEF RowsType
<1>2. ASSUME NEW i \in 1..Len(rows)
      PROVE  [rows[i] EXCEPT ![a] = @ + n] \in [A -> Int]
  <2>1. rows[i] \in [A -> Int]
    BY <1>1
  <2>2. a \in A => rows[i][a] + n \in Int
    BY <2>1
  <2> QED BY <2>1, <2>2
<1> QED BY <1>1, <1>2 DEF RowsType, AddRows

(* DeductBalance keeps the number of rows and their shape. *)
LEMMA DeductRowsType ==
  ASSUME NEW A, NEW rows \in RowsType(A), NEW a, NEW n \in Int
  PROVE  /\ DeductRows(rows, a, n) \in RowsType(A)
         /\ Len(DeductRows(rows, a, n)) = Len(rows)
<1>1. /\ Len(rows) \in Nat /\ DOMAIN rows = 1..Len(rows)
      /\ \A i \in 1..Len(rows) : rows[i] \in [A -> Int]
  BY DEF RowsType
<1>2. ASSUME NEW i \in 1..Len(rows)
      PROVE  [rows[i] EXCEPT ![a] = @ - n] \in [A -> Int]
  <2>1. rows[i] \in [A -> Int]
    BY <1>1
  <2>2. a \in A => rows[i][a] - n \in Int
    BY <2>1
  <2> QED BY <2>1, <2>2
<1> QED BY <1>1, <1>2 DEF RowsType, DeductRows

-----------------------------------------------------------------------------
(* A family of subsets of a finite set has a member that contains no other. *)
LEMMA MinimalSubset ==
  ASSUME NEW X, IsFiniteSet(X), NEW B, B \subseteq SUBSET X, B # {}
  PROVE  \E S \in B : \A T \in B : T \subseteq S => T = S
<1>1. FiniteSubsetsOf(X) = SUBSET X
  BY FS_FiniteSubsetsOfFinite
<1>2. IsWellFoundedOn(StrictSubsetOrdering(X), SUBSET X)
  BY <1>1, FS_StrictSubsetOrderingWellFounded
<1>3. \E S \in B : \A T \in B : ~ (<<T, S>> \in StrictSubsetOrdering(X))
  BY <1>2, WFMin
<1> QED BY <1>3 DEF StrictSubsetOrdering

(* Induction over a finite set, for a family of sets instead of a predicate. *)
LEMMA SetInduction ==
  ASSUME NEW X, IsFiniteSet(X), NEW B, {} \in B,
         \A S \in SUBSET X : \A x \in X \ S : S \in B => S \union {x} \in B
  PROVE  X \in B
<1>1. SUFFICES ASSUME X \notin B PROVE FALSE
  OBVIOUS
<1> DEFINE C == {S \in SUBSET X : S \notin B}
<1>2. PICK S \in C : \A T \in C : T \subseteq S => T = S
  <2> HIDE DEF C
  <2>1. C \subseteq SUBSET X /\ C # {}
    BY <1>1 DEF C
  <2> QED BY <2>1, MinimalSubset
<1>3. PICK x \in S : TRUE
  BY <1>2
<1>4. S \ {x} \in B
  BY <1>2, <1>3
<1>5. (S \ {x}) \union {x} = S
  BY <1>3
<1> QED BY <1>2, <1>3, <1>4, <1>5

Pick(S) == CHOOSE x \in S : TRUE

(* g maps every subset of X to the sum of f over it. *)
SumsUp(g, f, X) ==
  g = [S \in SUBSET X |-> IF S = {} THEN 0 ELSE f[Pick(S)] + g[S \ {Pick(S)}]]

(* There is only one such function. *)
LEMMA SumUnique ==
  ASSUME NEW X, IsFiniteSet(X), NEW f, NEW g, NEW h, NEW Y, SumsUp(g, f, X), SumsUp(h, f, Y),
         NEW T, T \subseteq X, T \subseteq Y
  PROVE  g[T] = h[T]
<1>1. SUFFICES ASSUME g[T] # h[T] PROVE FALSE
  OBVIOUS
<1> DEFINE C == {S \in SUBSET T : g[S] # h[S]}
<1>2. PICK S \in C : \A U \in C : U \subseteq S => U = S
  <2> HIDE DEF C
  <2>1. C \subseteq SUBSET T /\ C # {} /\ IsFiniteSet(T)
    BY <1>1, FS_Subset DEF C
  <2> QED BY <2>1, MinimalSubset
<1>3. CASE S = {}
  BY <1>2, <1>3 DEF SumsUp
<1>4. CASE S # {}
  <2>1. Pick(S) \in S
    BY <1>4 DEF Pick
  <2>2. g[S \ {Pick(S)}] = h[S \ {Pick(S)}]
    BY <1>2, <2>1
  <2> HIDE DEF C
  <2>3. S \in SUBSET X /\ S \in SUBSET Y
    BY <1>2 DEF C
  <2>4. g[S] = f[Pick(S)] + g[S \ {Pick(S)}] /\ h[S] = f[Pick(S)] + h[S \ {Pick(S)}]
    BY <2>3, <1>4 DEF SumsUp
  <2> QED BY <2>2, <2>4, <1>2 DEF C
<1> QED BY <1>3, <1>4

(* There is one. *)
LEMMA SumExists ==
  ASSUME NEW X, IsFiniteSet(X), NEW f
  PROVE  \E g : SumsUp(g, f, X)
<1>1. SUFFICES ASSUME ~ \E g : SumsUp(g, f, X) PROVE FALSE
  OBVIOUS
<1> DEFINE C == {S \in SUBSET X : ~ \E g : SumsUp(g, f, S)}
           G(S) == CHOOSE g : SumsUp(g, f, S)
<1>2. PICK T \in C : \A U \in C : U \subseteq T => U = T
  <2> HIDE DEF C
  <2>1. C \subseteq SUBSET X /\ C # {}
    BY <1>1 DEF C
  <2> QED BY <2>1, MinimalSubset
<1>3. ASSUME NEW S \in SUBSET T, S # T PROVE SumsUp(G(S), f, S)
  <2>1. \E g : SumsUp(g, f, S)
    BY <1>2, <1>3
  <2> QED BY <2>1
<1>4. T \in SUBSET X /\ IsFiniteSet(T)
  BY <1>2, FS_Subset
<1> HIDE DEF G
<1> DEFINE g == [S \in SUBSET T |-> IF S # T THEN G(S)[S]
                   ELSE IF T = {} THEN 0 ELSE f[Pick(T)] + G(T \ {Pick(T)})[T \ {Pick(T)}]]
<1>5. ASSUME NEW S \in SUBSET T
      PROVE  g[S] = IF S = {} THEN 0 ELSE f[Pick(S)] + g[S \ {Pick(S)}]
  <2>1. S # {} => Pick(S) \in S
    BY DEF Pick
  <2>2. CASE S = T
    BY <2>1, <2>2
  <2>3. CASE S # T /\ S = {}
    <3>1. G(S)[S] = 0
      BY <1>3, <2>3 DEF SumsUp
    <3> QED BY <2>3, <3>1
  <2>4. CASE S # T /\ S # {}
    <3> DEFINE U == S \ {Pick(S)}
    <3>1. U \subseteq S /\ U \subseteq T /\ U # T /\ IsFiniteSet(S)
      BY <2>1, <2>4, <1>4, FS_Subset
    <3>2. SumsUp(G(S), f, S) /\ SumsUp(G(U), f, U)
      BY <1>3, <2>4, <3>1
    <3>3. G(S)[U] = G(U)[U]
      BY <3>1, <3>2, SumUnique
    <3>4. G(S)[S] = f[Pick(S)] + G(S)[U]
      <4> HIDE DEF U
      <4>1. \A V \in SUBSET S : G(S)[V] = IF V = {} THEN 0 ELSE f[Pick(V)] + G(S)[V \ {Pick(V)}]
        BY <3>2, Zenon DEF SumsUp
      <4> QED BY <4>1, <2>4 DEF U
    <3>5. g[S] = G(S)[S] /\ g[U] = G(U)[U]
      BY <2>4, <3>1
    <3> QED BY <2>4, <3>3, <3>4, <3>5
  <2> QED BY <2>2, <2>3, <2>4
<1>6. SumsUp(g, f, T)
  <2>1. g = [S \in SUBSET T |-> g[S]]
    OBVIOUS
  <2> HIDE DEF g
  <2> QED BY <1>5, <2>1 DEF SumsUp
<1> HIDE DEF g
<1> QED BY <1>2, <1>6

(* The sum over a set is the sum over the rest and one chosen element. *)
LEMMA SumRecursion ==
  ASSUME NEW X, IsFiniteSet(X), NEW f
  PROVE  /\ SumFunctionOnSet(f, {}) = 0
         /\ X # {} => SumFunctionOnSet(f, X) =
                        f[Pick(X)] + SumFunctionOnSet(f, X \ {Pick(X)})
<1> DEFINE G(S) == CHOOSE g : SumsUp(g, f, S)
<1>1. ASSUME NEW S, IsFiniteSet(S)
      PROVE  SumFunctionOnSet(f, S) = G(S)[S] /\ SumsUp(G(S), f, S)
  <2>1. SumsUp(G(S), f, S)
    <3>1. \E g : SumsUp(g, f, S)
      BY <1>1, SumExists
    <3> QED BY <3>1
  <2>2. SumFunctionOnSet(f, S) = G(S)[S]
    BY Zenon DEF SumFunctionOnSet, FoldFunctionOnSet, MapThenFoldSet, SumsUp, Pick
  <2> QED BY <2>1, <2>2
<1> HIDE DEF G
<1>2. SumFunctionOnSet(f, {}) = 0
  <2>1. IsFiniteSet({})
    BY FS_EmptySet
  <2>2. G({})[{}] = 0
    BY <1>1, <2>1 DEF SumsUp
  <2> QED BY <1>1, <2>1, <2>2
<1>3. ASSUME X # {}
      PROVE  SumFunctionOnSet(f, X) = f[Pick(X)] + SumFunctionOnSet(f, X \ {Pick(X)})
  <2> DEFINE U == X \ {Pick(X)}
  <2>1. IsFiniteSet(U) /\ U \subseteq X
    BY FS_Subset
  <2>2. SumsUp(G(X), f, X) /\ SumsUp(G(U), f, U)
    BY <1>1, <2>1
  <2>3. G(X)[U] = G(U)[U]
    BY <2>1, <2>2, SumUnique
  <2>4. G(X)[X] = f[Pick(X)] + G(X)[U]
    <3> HIDE DEF U
    <3>1. \A V \in SUBSET X : G(X)[V] = IF V = {} THEN 0 ELSE f[Pick(V)] + G(X)[V \ {Pick(V)}]
      BY <2>2, Zenon DEF SumsUp
    <3> QED BY <3>1, <1>3 DEF U
  <2> QED BY <1>1, <2>1, <2>3, <2>4
<1> QED BY <1>2, <1>3

(* A sum of integers is an integer, and any element can be taken out first. *)
LEMMA SumRemove ==
  ASSUME NEW X, IsFiniteSet(X), NEW f, \A x \in X : f[x] \in Int
  PROVE  /\ SumFunctionOnSet(f, X) \in Int
         /\ \A x \in X : SumFunctionOnSet(f, X) = f[x] + SumFunctionOnSet(f, X \ {x})
<1> DEFINE Ok(S) == /\ SumFunctionOnSet(f, S) \in Int
                    /\ \A x \in S : SumFunctionOnSet(f, S) = f[x] + SumFunctionOnSet(f, S \ {x})
           C == {S \in SUBSET X : ~ Ok(S)}
<1>1. SUFFICES ASSUME ~ Ok(X) PROVE FALSE
  OBVIOUS
<1>2. PICK S \in C : \A U \in C : U \subseteq S => U = S
  <2>1. C \subseteq SUBSET X /\ C # {}
    BY <1>1
  <2> HIDE DEF C
  <2> QED BY <2>1, MinimalSubset
<1>3. ASSUME NEW U, U \subseteq S, U # S PROVE Ok(U)
  BY <1>2, <1>3
<1>4. S \in SUBSET X /\ IsFiniteSet(S) /\ ~ Ok(S)
  BY <1>2, FS_Subset
<1> HIDE DEF C
<1>5. CASE S = {}
  BY <1>4, <1>5, SumRecursion
<1>6. CASE S # {}
  <2> DEFINE p == Pick(S)
  <2>1. p \in S /\ f[p] \in Int
    BY <1>4, <1>6 DEF Pick
  <2>2. SumFunctionOnSet(f, S) = f[p] + SumFunctionOnSet(f, S \ {p})
    BY <1>4, <1>6, SumRecursion
  <2> HIDE DEF p
  <2>3. SumFunctionOnSet(f, S \ {p}) \in Int
    BY <2>1, <1>3
  <2>4. ASSUME NEW x \in S PROVE SumFunctionOnSet(f, S) = f[x] + SumFunctionOnSet(f, S \ {x})
    <3>1. CASE x = p
      BY <2>2, <3>1
    <3>2. CASE x # p
      <4>1. SumFunctionOnSet(f, S \ {p}) = f[x] + SumFunctionOnSet(f, (S \ {p}) \ {x})
        <5>1. Ok(S \ {p})
          BY <1>3, <2>1
        <5> QED BY <5>1, <3>2
      <4>2. SumFunctionOnSet(f, S \ {x}) = f[p] + SumFunctionOnSet(f, (S \ {x}) \ {p})
        <5>1. Ok(S \ {x})
          BY <1>3, <2>4
        <5> QED BY <5>1, <3>2, <2>1
      <4>3. (S \ {p}) \ {x} = (S \ {x}) \ {p}
        OBVIOUS
      <4>4. SumFunctionOnSet(f, (S \ {p}) \ {x}) \in Int
        <5>1. Ok((S \ {p}) \ {x})
          BY <1>3, <2>1
        <5> QED BY <5>1
      <4>5. f[x] \in Int
        BY <1>4
      <4> HIDE DEF Ok
      <4>6. PICK r \in Int : r = SumFunctionOnSet(f, (S \ {p}) \ {x})
        BY <4>4
      <4>7. /\ SumFunctionOnSet(f, S) = f[p] + (f[x] + r)
            /\ SumFunctionOnSet(f, S \ {x}) = f[p] + r
        BY <4>1, <4>2, <4>3, <4>6, <2>2
      <4> QED BY <4>5, <4>6, <4>7, <2>1
    <3> QED BY <3>1, <3>2
  <2>5. SumFunctionOnSet(f, S) \in Int
    BY <2>1, <2>2, <2>3
  <2> QED BY <2>4, <2>5, <1>4
<1> QED BY <1>5, <1>6

(* One element more. *)
LEMMA SumWith ==
  ASSUME NEW X, IsFiniteSet(X), NEW f, NEW x, x \notin X, NEW Y, Y = X \union {x},
         \A y \in Y : f[y] \in Int
  PROVE  SumFunctionOnSet(f, Y) = SumFunctionOnSet(f, X) + f[x]
<1>1. IsFiniteSet(Y) /\ Y \ {x} = X /\ x \in Y
  BY FS_AddElement
<1>2. SumFunctionOnSet(f, Y) = f[x] + SumFunctionOnSet(f, X)
  BY <1>1, SumRemove
<1>3. SumFunctionOnSet(f, X) \in Int /\ f[x] \in Int
  BY <1>1, SumRemove
<1> QED BY <1>2, <1>3

(* The sum of sums. *)
LEMMA SumPlus ==
  ASSUME NEW X, IsFiniteSet(X), NEW f, NEW g, NEW h,
         \A x \in X : f[x] \in Int /\ g[x] \in Int /\ h[x] = f[x] + g[x]
  PROVE  SumFunctionOnSet(h, X) = SumFunctionOnSet(f, X) + SumFunctionOnSet(g, X)
<1> DEFINE Claim(S) ==
      SumFunctionOnSet(h, S) = SumFunctionOnSet(f, S) + SumFunctionOnSet(g, S)
           B == {S \in SUBSET X : Claim(S)}
<1>1. {} \in B
  <2>1. /\ SumFunctionOnSet(f, {}) = 0 /\ SumFunctionOnSet(g, {}) = 0
        /\ SumFunctionOnSet(h, {}) = 0
    BY FS_EmptySet, SumRecursion
  <2> QED BY <2>1
<1>2. ASSUME NEW S \in SUBSET X, NEW x \in X \ S, S \in B
      PROVE  S \union {x} \in B
  <2>1. IsFiniteSet(S) /\ Claim(S) /\ S \union {x} \in SUBSET X
    BY <1>2, FS_Subset
  <2> HIDE DEF Claim, B
  <2> PICK T : T = S \union {x}
    OBVIOUS
  <2>a. (\A y \in T : f[y] \in Int /\ g[y] \in Int /\ h[y] \in Int) /\ x \notin S
    OBVIOUS
  <2>2. /\ SumFunctionOnSet(f, S) \in Int /\ SumFunctionOnSet(g, S) \in Int
        /\ f[x] \in Int /\ g[x] \in Int /\ h[x] = f[x] + g[x]
    BY <2>1, SumRemove
  <2>3. /\ SumFunctionOnSet(f, T) = SumFunctionOnSet(f, S) + f[x]
        /\ SumFunctionOnSet(g, T) = SumFunctionOnSet(g, S) + g[x]
        /\ SumFunctionOnSet(h, T) = SumFunctionOnSet(h, S) + h[x]
    <3>1. SumFunctionOnSet(f, T) = SumFunctionOnSet(f, S) + f[x]
      BY <2>1, <2>a, SumWith
    <3>2. SumFunctionOnSet(g, T) = SumFunctionOnSet(g, S) + g[x]
      BY <2>1, <2>a, SumWith
    <3>3. SumFunctionOnSet(h, T) = SumFunctionOnSet(h, S) + h[x]
      BY <2>1, <2>a, SumWith
    <3> QED BY <3>1, <3>2, <3>3
  <2>4. Claim(S \union {x})
    <3>1. Claim(T)
      BY <2>1, <2>2, <2>3 DEF Claim
    <3> QED BY <3>1
  <2> QED BY <2>1, <2>4 DEF B
<1> HIDE DEF B
<1>3. X \in B
  BY <1>1, <1>2, SetInduction
<1> QED BY <1>3 DEF B

(* A sum of equal terms. *)
LEMMA SumConstant ==
  ASSUME NEW X, IsFiniteSet(X), NEW f, NEW c \in Int, \A x \in X : f[x] = c
  PROVE  SumFunctionOnSet(f, X) = c * Cardinality(X)
<1> DEFINE Claim(S) == SumFunctionOnSet(f, S) = c * Cardinality(S)
           B == {S \in SUBSET X : Claim(S)}
<1>1. {} \in B
  <2>1. SumFunctionOnSet(f, {}) = 0 /\ Cardinality({}) = 0
    BY FS_EmptySet, SumRecursion
  <2> QED BY <2>1
<1>2. ASSUME NEW S \in SUBSET X, NEW x \in X \ S, S \in B
      PROVE  S \union {x} \in B
  <2>1. IsFiniteSet(S) /\ Claim(S) /\ S \union {x} \in SUBSET X
    BY <1>2, FS_Subset
  <2> HIDE DEF Claim
  <2>2. /\ Cardinality(S \union {x}) = Cardinality(S) + 1 /\ Cardinality(S) \in Nat
    BY <2>1, FS_AddElement, FS_CardinalityType
  <2>3. SumFunctionOnSet(f, S \union {x}) = SumFunctionOnSet(f, S) + c
    <3> HIDE DEF B
    <3>1. (\A y \in S \union {x} : f[y] \in Int) /\ f[x] = c
      OBVIOUS
    <3>2. SumFunctionOnSet(f, S \union {x}) = SumFunctionOnSet(f, S) + f[x]
      BY <2>1, <3>1, SumWith
    <3> QED BY <3>1, <3>2
  <2>4. c * (Cardinality(S) + 1) = c * Cardinality(S) + c
    BY <2>2
  <2>5. Claim(S \union {x})
    BY <2>1, <2>2, <2>3, <2>4 DEF Claim
  <2> QED BY <2>1, <2>5
<1> HIDE DEF B
<1>3. X \in B
  BY <1>1, <1>2, SetInduction
<1> QED BY <1>3 DEF B

(* A sum of natural numbers is one. *)
LEMMA SumNat ==
  ASSUME NEW X, IsFiniteSet(X), NEW f, \A x \in X : f[x] \in Nat
  PROVE  SumFunctionOnSet(f, X) \in Nat
<1> DEFINE B == {S \in SUBSET X : SumFunctionOnSet(f, S) \in Nat}
<1>1. {} \in B
  <2>1. SumFunctionOnSet(f, {}) = 0
    BY FS_EmptySet, SumRecursion
  <2> QED BY <2>1
<1>2. ASSUME NEW S \in SUBSET X, NEW x \in X \ S, S \in B
      PROVE  S \union {x} \in B
  <2>1. IsFiniteSet(S) /\ S \union {x} \in SUBSET X
    BY FS_Subset
  <2>2. SumFunctionOnSet(f, S \union {x}) = SumFunctionOnSet(f, S) + f[x]
    <3>1. \A y \in S \union {x} : f[y] \in Int
      OBVIOUS
    <3> QED BY <2>1, <3>1, SumWith
  <2> QED BY <1>2, <2>1, <2>2
<1> HIDE DEF B
<1>3. X \in B
  BY <1>1, <1>2, SetInduction
<1> QED BY <1>3 DEF B

(* Larger terms make no smaller sum, and equal terms the same. *)
LEMMA SumMonotone ==
  ASSUME NEW X, IsFiniteSet(X), NEW f, NEW g,
         \A x \in X : f[x] \in Int /\ g[x] \in Int /\ f[x] <= g[x]
  PROVE  SumFunctionOnSet(f, X) <= SumFunctionOnSet(g, X)
<1> DEFINE d == [x \in X |-> g[x] - f[x]]
<1>1. \A x \in X : d[x] \in Nat /\ g[x] = f[x] + d[x]
  OBVIOUS
<1> HIDE DEF d
<1>2. SumFunctionOnSet(g, X) = SumFunctionOnSet(f, X) + SumFunctionOnSet(d, X)
  BY <1>1, SumPlus
<1>3. SumFunctionOnSet(d, X) \in Nat /\ SumFunctionOnSet(f, X) \in Int
  BY <1>1, SumNat, SumRemove
<1> QED BY <1>2, <1>3

(* Equal terms have equal sums. *)
LEMMA SumEqual ==
  ASSUME NEW X, IsFiniteSet(X), NEW f, NEW g,
         \A x \in X : f[x] \in Int /\ g[x] = f[x]
  PROVE  SumFunctionOnSet(g, X) = SumFunctionOnSet(f, X)
<1>1. /\ SumFunctionOnSet(f, X) <= SumFunctionOnSet(g, X)
      /\ SumFunctionOnSet(g, X) <= SumFunctionOnSet(f, X)
  BY SumMonotone
<1>2. SumFunctionOnSet(f, X) \in Int /\ SumFunctionOnSet(g, X) \in Int
  BY SumRemove
<1> QED BY <1>1, <1>2

(* One term changes. *)
LEMMA SumUpdate ==
  ASSUME NEW X, IsFiniteSet(X), NEW f, NEW g, NEW x \in X,
         \A y \in X : f[y] \in Int, g[x] \in Int, \A y \in X \ {x} : g[y] = f[y]
  PROVE  SumFunctionOnSet(g, X) = SumFunctionOnSet(f, X) - f[x] + g[x]
<1>1. IsFiniteSet(X \ {x})
  BY FS_Subset
<1>2. SumFunctionOnSet(g, X \ {x}) = SumFunctionOnSet(f, X \ {x})
  BY <1>1, SumEqual
<1>3. /\ SumFunctionOnSet(f, X) = f[x] + SumFunctionOnSet(f, X \ {x})
      /\ SumFunctionOnSet(g, X) = g[x] + SumFunctionOnSet(g, X \ {x})
      /\ SumFunctionOnSet(f, X \ {x}) \in Int
  BY <1>1, SumRemove
<1> QED BY <1>2, <1>3

(* A sum over a part of a set is a sum over the set with zeros elsewhere. *)
LEMMA SumPart ==
  ASSUME NEW X, IsFiniteSet(X), NEW Y \in SUBSET X, NEW f, NEW g,
         \A y \in Y : f[y] \in Int /\ g[y] = f[y], \A x \in X \ Y : g[x] = 0
  PROVE  SumFunctionOnSet(g, X) = SumFunctionOnSet(f, Y)
<1> DEFINE B == {S \in SUBSET (X \ Y) : SumFunctionOnSet(g, Y \union S) = SumFunctionOnSet(f, Y)}
<1>0. IsFiniteSet(Y) /\ IsFiniteSet(X \ Y) /\ \A x \in X : g[x] \in Int
  BY FS_Subset
<1>1. {} \in B
  <2>1. Y \union {} = Y
    OBVIOUS
  <2> QED BY <1>0, <2>1, SumEqual
<1>2. ASSUME NEW S \in SUBSET (X \ Y), NEW x \in (X \ Y) \ S, S \in B
      PROVE  S \union {x} \in B
  <2>1. /\ IsFiniteSet(Y \union S) /\ x \notin Y \union S
        /\ Y \union (S \union {x}) = (Y \union S) \union {x} /\ Y \union S \subseteq X
    <3>1. Y \union S \subseteq X
      OBVIOUS
    <3> QED BY <3>1, FS_Subset
  <2>2. SumFunctionOnSet(g, (Y \union S) \union {x}) = SumFunctionOnSet(g, Y \union S) + g[x]
    <3> HIDE DEF B
    <3>1. PICK Z : Z = Y \union S
      OBVIOUS
    <3>2. PICK W : W = Z \union {x}
      OBVIOUS
    <3>3. (\A y \in W : g[y] \in Int) /\ IsFiniteSet(Z) /\ x \notin Z
      BY <1>0, <2>1, <3>1, <3>2
    <3>4. SumFunctionOnSet(g, W) = SumFunctionOnSet(g, Z) + g[x]
      BY <3>2, <3>3, SumWith
    <3> QED BY <3>1, <3>2, <3>4 
  <2>3. SumFunctionOnSet(f, Y) \in Int
    BY <1>0, SumRemove
  <2>4. SumFunctionOnSet(g, Y \union S) = SumFunctionOnSet(f, Y)
    BY <1>2
  <2>5. SumFunctionOnSet(g, Y \union (S \union {x})) = SumFunctionOnSet(f, Y) + 0
    BY <2>1, <2>2, <2>4
  <2>6. SumFunctionOnSet(g, Y \union (S \union {x})) = SumFunctionOnSet(f, Y)
    BY <2>3, <2>5
  <2> QED BY <2>6
<1> HIDE DEF B
<1>3. X \ Y \in B
  BY <1>0, <1>1, <1>2, SetInduction
<1>4. Y \union (X \ Y) = X
  OBVIOUS
<1> QED BY <1>3, <1>4 DEF B

(* A finite set of integers has a largest element. *)
LEMMA LargestOf ==
  ASSUME NEW S, IsFiniteSet(S), S \subseteq Int, S # {}
  PROVE  Max(S) \in S /\ \A n \in S : n <= Max(S)
<1> DEFINE B == {T \in SUBSET S : T # {} => \E m \in T : \A n \in T : n <= m}
<1>1. {} \in B
  OBVIOUS
<1>2. ASSUME NEW T \in SUBSET S, NEW x \in S \ T, T \in B
      PROVE  T \union {x} \in B
  <2>1. CASE T = {}
    BY <2>1
  <2>2. CASE T # {}
    <3>1. PICK m \in T : \A n \in T : n <= m
      BY <1>2, <2>2
    <3>2. m \in Int /\ x \in Int /\ T \subseteq Int
      OBVIOUS
    <3>3. CASE m <= x
      <4>1. \A n \in T \union {x} : n <= x
        BY <3>1, <3>2, <3>3
      <4> QED BY <4>1
    <3>4. CASE ~ (m <= x)
      <4>1. \A n \in T \union {x} : n <= m
        BY <3>1, <3>2, <3>4
      <4> QED BY <4>1
    <3> QED BY <3>3, <3>4
  <2> QED BY <2>1, <2>2
<1> HIDE DEF B
<1>3. S \in B
  BY <1>1, <1>2, SetInduction
<1>4. \E m \in S : \A n \in S : n <= m
  BY <1>3 DEF B
<1> QED BY <1>4 DEF Max

(* The values of a function on a finite set are no more than its arguments. *)
LEMMA FiniteImage ==
  ASSUME NEW S, IsFiniteSet(S), NEW f
  PROVE  /\ IsFiniteSet({f[x] : x \in S})
         /\ Cardinality({f[x] : x \in S}) <= Cardinality(S)
<1> DEFINE T == {f[x] : x \in S}
           g == [x \in S |-> f[x]]
<1>1. g \in Surjection(S, T)
  BY DEF Surjection
<1> HIDE DEF g, T
<1>2. IsFiniteSet(T) /\ Cardinality(T) <= Cardinality(S)
  BY <1>1, FS_Surjection
<1> QED BY <1>2 DEF T

(* Some terms are cleared: the sum loses each of them. *)
LEMMA SumCleared ==
  ASSUME NEW X, IsFiniteSet(X), NEW H \in SUBSET X, NEW f, NEW g,
         \A x \in X : f[x] \in Nat /\ g[x] = IF x \in H THEN 0 ELSE f[x]
  PROVE  /\ SumFunctionOnSet(g, X) <= SumFunctionOnSet(f, X)
         /\ \A x \in H : /\ SumFunctionOnSet(g, X) <= SumFunctionOnSet(f, X) - f[x]
                         /\ H = {x} => SumFunctionOnSet(g, X) = SumFunctionOnSet(f, X) - f[x]
<1>1. \A x \in X : f[x] \in Int /\ g[x] \in Int /\ g[x] <= f[x]
  OBVIOUS
<1>2. SumFunctionOnSet(g, X) <= SumFunctionOnSet(f, X)
  BY <1>1, SumMonotone
<1>3. ASSUME NEW x \in H
      PROVE  /\ SumFunctionOnSet(g, X) <= SumFunctionOnSet(f, X) - f[x]
             /\ H = {x} => SumFunctionOnSet(g, X) = SumFunctionOnSet(f, X) - f[x]
  <2> DEFINE h == [y \in X |-> IF y = x THEN 0 ELSE f[y]]
  <2>1. /\ x \in X /\ h[x] = 0 /\ \A y \in X \ {x} : h[y] = f[y]
        /\ \A y \in X : h[y] \in Int /\ g[y] <= h[y] /\ (H = {x} => g[y] = h[y])
    BY <1>1
  <2> HIDE DEF h
  <2>2. SumFunctionOnSet(h, X) = SumFunctionOnSet(f, X) - f[x] + h[x]
    BY <1>1, <2>1, SumUpdate
  <2>3. SumFunctionOnSet(g, X) <= SumFunctionOnSet(h, X)
    BY <1>1, <2>1, SumMonotone
  <2>4. H = {x} => SumFunctionOnSet(g, X) = SumFunctionOnSet(h, X)
    BY <2>1, SumEqual
  <2>5. SumFunctionOnSet(f, X) \in Int /\ f[x] \in Int
    BY <1>1, <2>1, SumRemove
  <2>6. SumFunctionOnSet(h, X) = SumFunctionOnSet(f, X) - f[x]
    BY <2>1, <2>2, <2>5
  <2> QED BY <2>3, <2>4, <2>6
<1> QED BY <1>2, <1>3

(* Some terms are raised: the sum grows by what they gain. *)
LEMMA SumRaised ==
  ASSUME NEW X, IsFiniteSet(X), NEW H \in SUBSET X, NEW f, NEW g, NEW e,
         \A x \in X : f[x] \in Int, \A x \in H : e[x] \in Int,
         \A x \in X : g[x] = IF x \in H THEN f[x] + e[x] ELSE f[x]
  PROVE  SumFunctionOnSet(g, X) = SumFunctionOnSet(f, X) + SumFunctionOnSet(e, H)
<1> DEFINE d == [x \in X |-> IF x \in H THEN e[x] ELSE 0]
<1>1. /\ \A x \in X : f[x] \in Int /\ d[x] \in Int /\ g[x] = f[x] + d[x]
      /\ \A x \in H : e[x] \in Int /\ d[x] = e[x]
      /\ \A x \in X \ H : d[x] = 0
  OBVIOUS
<1> HIDE DEF d
<1>2. SumFunctionOnSet(g, X) = SumFunctionOnSet(f, X) + SumFunctionOnSet(d, X)
  BY <1>1, SumPlus
<1>3. SumFunctionOnSet(d, X) = SumFunctionOnSet(e, H)
  BY <1>1, SumPart
<1> QED BY <1>2, <1>3

(* One element more, for another function that agrees on the rest. *)
LEMMA SumExtended ==
  ASSUME NEW X, IsFiniteSet(X), NEW x, x \notin X, NEW Y, Y = X \union {x}, NEW f, NEW g,
         \A y \in X : f[y] \in Int /\ g[y] = f[y], g[x] \in Int
  PROVE  SumFunctionOnSet(g, Y) = SumFunctionOnSet(f, X) + g[x]
<1>1. \A y \in Y : g[y] \in Int
  OBVIOUS
<1>2. SumFunctionOnSet(g, Y) = SumFunctionOnSet(g, X) + g[x]
  BY <1>1, SumWith
<1>3. SumFunctionOnSet(g, X) = SumFunctionOnSet(f, X)
  BY SumEqual
<1> QED BY <1>2, <1>3

(* One element of a finite set may enter or leave a part of it. *)
LEMMA CountOne ==
  ASSUME NEW S, IsFiniteSet(S), NEW t \in S, NEW A \in SUBSET S, NEW B \in SUBSET S,
         \A s \in S \ {t} : s \in A <=> s \in B
  PROVE  /\ Cardinality(A) \in Nat /\ Cardinality(B) \in Nat /\ Cardinality(S) \in Nat
         /\ Cardinality(A) <= Cardinality(S) /\ Cardinality(B) <= Cardinality(S)
         /\ t \in A /\ t \notin B => Cardinality(B) = Cardinality(A) - 1
         /\ t \notin A /\ t \in B => Cardinality(B) = Cardinality(A) + 1
         /\ (t \in A <=> t \in B) => Cardinality(B) = Cardinality(A)
<1>1. IsFiniteSet(A) /\ IsFiniteSet(B)
  BY FS_Subset
<1>2. /\ Cardinality(A) \in Nat /\ Cardinality(B) \in Nat /\ Cardinality(S) \in Nat
      /\ Cardinality(A) <= Cardinality(S) /\ Cardinality(B) <= Cardinality(S)
  BY <1>1, FS_Subset, FS_CardinalityType
<1>3. ASSUME t \in A, t \notin B PROVE Cardinality(B) = Cardinality(A) - 1
  <2>1. A \ {t} = B
    BY <1>3
  <2>2. Cardinality(A \ {t}) = Cardinality(A) - 1
    BY <1>1, <1>3, FS_RemoveElement
  <2> QED BY <2>1, <2>2
<1>4. ASSUME t \notin A, t \in B PROVE Cardinality(B) = Cardinality(A) + 1
  <2>1. A \union {t} = B
    BY <1>4
  <2>2. Cardinality(A \union {t}) = Cardinality(A) + 1
    BY <1>1, <1>4, FS_AddElement
  <2> QED BY <2>1, <2>2
<1>5. ASSUME t \in A <=> t \in B PROVE Cardinality(B) = Cardinality(A)
  <2>1. A = B
    BY <1>5
  <2> QED BY <2>1
<1> QED BY <1>2, <1>3, <1>4, <1>5

(* The smallest of finitely many numbers. *)
LEMMA SmallestOf ==
  ASSUME NEW S, IsFiniteSet(S), S \subseteq Int, S # {}
  PROVE  Min(S) \in S
<1> DEFINE f == [x \in S |-> -x]
           T == {f[x] : x \in S}
<1>1. IsFiniteSet(T)
  BY FiniteImage
<1>2. T \subseteq Int /\ T # {}
  <2>1. \A x \in S : f[x] = -x /\ f[x] \in Int
    OBVIOUS
  <2>2. T # {}
    OBVIOUS
  <2>3. \A n \in T : n \in Int
    <3> HIDE DEF f
    <3> QED BY <2>1
  <2> QED BY <2>2, <2>3
<1>3. Max(T) \in T /\ \A n \in T : n <= Max(T)
  BY <1>1, <1>2, LargestOf
<1>4. PICK x \in S : Max(T) = f[x]
  BY <1>3
<1>5. \A y \in S : x <= y
  <2>1. \A y \in S : f[y] <= f[x] /\ x \in Int /\ y \in Int
    BY <1>3, <1>4
  <2> QED BY <2>1
<1> QED BY <1>5 DEF Min
=============================================================================
