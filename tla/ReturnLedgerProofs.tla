--------------------------- MODULE ReturnLedgerProofs ---------------------------
(***************************************************************************)
(* The properties of ReturnLedger, and of the receipts that SaleReceipts   *)
(* reads from it, for every set of sales, commands, requests and readers.  *)
(***************************************************************************)
EXTENDS SaleReceipts, SequenceTheorems, FiniteSetTheorems, TLAPS

(***************************************************************************)
(* Sums over finite sets.  SumFunctionOnSet is defined by a recursion that *)
(* picks one index after the other; what follows is by induction over the  *)
(* parts of the set, in the form that a set of parts without a smallest    *)
(* one is empty.                                                           *)
(***************************************************************************)

\* A set of parts of a finite set has one that contains no other of them.
LEMMA Smallest ==
  ASSUME NEW S, IsFiniteSet(S), NEW T \in SUBSET SUBSET S, T # {}
  PROVE  \E U \in T : \A V \in T : V \subseteq U => V = U
  <1>1. T \subseteq FiniteSubsetsOf(S)
    BY FS_FiniteSubsetsOfFinite
  <1>2. \E U \in T : \A V \in T : ~(<<V, U>> \in StrictSubsetOrdering(S))
    BY <1>1, FS_StrictSubsetOrderingWellFounded, WFMin
  <1> QED
    BY <1>2 DEF StrictSubsetOrdering

\* The index a sum starts with, and the table of the sums of f over the parts of U.
Pick(s) == CHOOSE x \in s : TRUE
Sums(f, U, g) ==
  g = [s \in SUBSET U |-> IF s = {} THEN 0 ELSE f[Pick(s)] + g[s \ {Pick(s)}]]

\* A sum is looked up in such a table.
LEMMA SumIs == ASSUME NEW f, NEW U
               PROVE  SumFunctionOnSet(f, U) = (CHOOSE g : Sums(f, U, g))[U]
  BY DEF SumFunctionOnSet, FoldFunctionOnSet, MapThenFoldSet, Sums, Pick

\* The index picked is one of the set.
LEMMA PickIn == ASSUME NEW s, s # {} PROVE Pick(s) \in s
  BY DEF Pick

\* The table of a part of the set.
Part(g, V) == [s \in SUBSET V |-> g[s]]

\* What a table says of a part of its set is the table of the part.
LEMMA SumsWithin ==
  ASSUME NEW f, NEW U, NEW V \in SUBSET U, NEW g, Sums(f, U, g)
  PROVE  Sums(f, V, Part(g, V))
  <1> DEFINE h == Part(g, V)
  <1>1. \A s \in SUBSET V : s # {} => s \ {Pick(s)} \in SUBSET V
    OBVIOUS
  <1>2. \A s \in SUBSET V : s # {} => h[s \ {Pick(s)}] = g[s \ {Pick(s)}]
    BY <1>1 DEF Part
  <1>3. \A s \in SUBSET V : g[s] = IF s = {} THEN 0 ELSE f[Pick(s)] + g[s \ {Pick(s)}]
    BY DEF Sums
  <1>4. h = [s \in SUBSET V |-> IF s = {} THEN 0 ELSE f[Pick(s)] + h[s \ {Pick(s)}]]
    BY <1>2, <1>3 DEF Part
  <1> QED
    BY <1>4 DEF Sums

\* A finite set has one table,
LEMMA SumsUnique ==
  ASSUME NEW f, NEW U, IsFiniteSet(U), NEW g, Sums(f, U, g), NEW h, Sums(f, U, h)
  PROVE  g = h
  <1> DEFINE T == {s \in SUBSET U : g[s] # h[s]}
  <1>1. /\ \A s \in SUBSET U : g[s] = IF s = {} THEN 0 ELSE f[Pick(s)] + g[s \ {Pick(s)}]
        /\ \A s \in SUBSET U : h[s] = IF s = {} THEN 0 ELSE f[Pick(s)] + h[s \ {Pick(s)}]
        /\ g = [s \in SUBSET U |-> g[s]]
        /\ h = [s \in SUBSET U |-> h[s]]
    BY DEF Sums
  <1>2. T = {}
    <2>1. SUFFICES ASSUME T # {} PROVE FALSE
      OBVIOUS
    <2>2. PICK s \in T : \A v \in T : v \subseteq s => v = s
      <3>1. T \in SUBSET SUBSET U
        OBVIOUS
      <3> HIDE DEF T
      <3> QED
        BY <2>1, <3>1, Smallest
    <2>3. s # {}
      BY <1>1, <2>2
    <2>4. s \ {Pick(s)} \in SUBSET U /\ s \ {Pick(s)} # s
      BY <2>3, PickIn
    <2>5. g[s \ {Pick(s)}] = h[s \ {Pick(s)}]
      BY <2>2, <2>4
    <2> QED
      BY <1>1, <2>2, <2>3, <2>5
  <1> QED
    BY <1>1, <1>2

\* and it has one: from the tables of its parts, that of the whole is made.
LEMMA SumsExist ==
  ASSUME NEW f, NEW S, IsFiniteSet(S)
  PROVE  \E g : Sums(f, S, g)
  <1> DEFINE T == {s \in SUBSET S : ~ \E g : Sums(f, s, g)}
  <1>1. SUFFICES ASSUME T # {} PROVE FALSE
    OBVIOUS
  <1>2. PICK U \in T : \A V \in T : V \subseteq U => V = U
    <2>1. T \in SUBSET SUBSET S
      OBVIOUS
    <2> HIDE DEF T
    <2> QED
      BY <1>1, <2>1, Smallest
  <1>3. \A s \in SUBSET S : IsFiniteSet(s)
    BY FS_Subset
  <1> DEFINE G(s) == CHOOSE g : Sums(f, s, g)
  <1>4. \A s \in (SUBSET U) \ {U} : Sums(f, s, G(s))
    BY <1>2
  <1> DEFINE v(s) == IF s = {} THEN 0 ELSE f[Pick(s)] + G(s \ {Pick(s)})[s \ {Pick(s)}]
             h == [s \in SUBSET U |-> v(s)]
  <1>5. ASSUME NEW s \in (SUBSET U) \ {U}
        PROVE  G(s)[s] = v(s)
    <2> DEFINE t == s \ {Pick(s)}
    <2>1. G(s)[s] = IF s = {} THEN 0 ELSE f[Pick(s)] + G(s)[t]
      <3>1. Sums(f, s, G(s))
        BY <1>4
      <3> HIDE DEF G
      <3> QED
        BY <3>1 DEF Sums
    <2>2. CASE s = {}
      BY <2>1, <2>2
    <2>3. CASE s # {}
      <3>1. t \in (SUBSET U) \ {U} /\ t \in SUBSET s /\ IsFiniteSet(t)
        BY <1>3, <2>3, PickIn
      <3> HIDE DEF t, G
      <3>2. Sums(f, t, G(t)) /\ Sums(f, s, G(s))
        BY <1>4, <3>1
      <3> DEFINE k == G(s)
      <3>6. Sums(f, s, k)
        BY <3>2
      <3> HIDE DEF k
      <3>5. Sums(f, t, Part(k, t))
        BY <3>1, <3>6, SumsWithin
      <3>3. Part(k, t) = G(t)
        BY <3>1, <3>2, <3>5, SumsUnique
      <3>4. G(s)[t] = G(t)[t]
        <4>1. Part(k, t)[t] = k[t]
          BY DEF Part
        <4> QED
          BY <3>3, <4>1 DEF k
      <3> QED
        BY <2>1, <2>3, <3>4 DEF t
    <2> QED
      BY <2>2, <2>3
  <1> HIDE DEF G
  <1>6. ASSUME NEW s \in SUBSET U
        PROVE  h[s] = IF s = {} THEN 0 ELSE f[Pick(s)] + h[s \ {Pick(s)}]
    <2>1. CASE s = {}
      BY <2>1
    <2>2. CASE s # {}
      <3> DEFINE t == s \ {Pick(s)}
      <3>1. t \in (SUBSET U) \ {U}
        BY <2>2, PickIn
      <3>2. h[t] = G(t)[t]
        BY <1>5, <3>1
      <3>3. h[s] = f[Pick(s)] + G(t)[t]
        BY <2>2
      <3> QED
        BY <2>2, <3>2, <3>3
    <2> QED
      BY <2>1, <2>2
  <1>7. Sums(f, U, h)
    BY <1>6 DEF Sums
  <1> QED
    BY <1>2, <1>7

\* Nothing adds up to 0, and a sum is the value of the picked index and the sum of the rest.
LEMMA SumPicks ==
  ASSUME NEW f, NEW S, IsFiniteSet(S)
  PROVE  SumFunctionOnSet(f, S) =
           IF S = {} THEN 0 ELSE f[Pick(S)] + SumFunctionOnSet(f, S \ {Pick(S)})
  <1> DEFINE g == CHOOSE g : Sums(f, S, g)
             R == S \ {Pick(S)}
             h == CHOOSE h : Sums(f, R, h)
  <1>1. Sums(f, S, g)
    BY SumsExist
  <1>2. R \in SUBSET S /\ IsFiniteSet(R)
    BY FS_Subset
  <1>3. Sums(f, R, h)
    BY <1>2, SumsExist
  <1>4. SumFunctionOnSet(f, S) = g[S] /\ SumFunctionOnSet(f, R) = h[R]
    BY SumIs
  <1> HIDE DEF g, h, R
  <1>5. Part(g, R) = h
    <2>1. Sums(f, R, Part(g, R))
      BY <1>1, <1>2, SumsWithin
    <2> QED
      BY <1>2, <1>3, <2>1, SumsUnique
  <1>6. h[R] = g[R]
    BY <1>5 DEF Part
  <1>7. g[S] = IF S = {} THEN 0 ELSE f[Pick(S)] + g[R]
    BY <1>1 DEF Sums, R
  <1> QED
    BY <1>4, <1>6, <1>7 DEF R

\* A sum of nothing.
LEMMA SumOfNone == ASSUME NEW f PROVE SumFunctionOnSet(f, {}) = 0
  BY SumPicks, FS_EmptySet

\* Sums of natural numbers are natural numbers.
LEMMA SumType ==
  ASSUME NEW S, IsFiniteSet(S), NEW f, \A x \in S : f[x] \in Nat
  PROVE  SumFunctionOnSet(f, S) \in Nat
  <1> DEFINE T == {U \in SUBSET S : SumFunctionOnSet(f, U) \notin Nat}
  <1>1. SUFFICES ASSUME T # {} PROVE FALSE
    OBVIOUS
  <1>2. PICK U \in T : \A V \in T : V \subseteq U => V = U
    <2>1. T \in SUBSET SUBSET S
      OBVIOUS
    <2> HIDE DEF T
    <2> QED
      BY <1>1, <2>1, Smallest
  <1>3. IsFiniteSet(U)
    BY FS_Subset
  <1>4. SumFunctionOnSet(f, U) = IF U = {} THEN 0
                                 ELSE f[Pick(U)] + SumFunctionOnSet(f, U \ {Pick(U)})
    BY <1>3, SumPicks
  <1>5. ASSUME U # {} PROVE SumFunctionOnSet(f, U \ {Pick(U)}) \in Nat /\ f[Pick(U)] \in Nat
    BY <1>2, <1>5, PickIn
  <1> QED
    BY <1>4, <1>5

\* The order does not matter: any index may be taken out of a sum,
LEMMA SumTakesOut ==
  ASSUME NEW S, IsFiniteSet(S), NEW f, \A x \in S : f[x] \in Nat, NEW x \in S
  PROVE  SumFunctionOnSet(f, S) = f[x] + SumFunctionOnSet(f, S \ {x})
  <1> DEFINE Sum(U) == SumFunctionOnSet(f, U)
             T == {U \in SUBSET S : \E y \in U : Sum(U) # f[y] + Sum(U \ {y})}
  <1>1. SUFFICES ASSUME T # {} PROVE FALSE
    OBVIOUS
  <1>2. PICK U \in T : \A V \in T : V \subseteq U => V = U
    <2>1. T \in SUBSET SUBSET S
      OBVIOUS
    <2> HIDE DEF T
    <2> QED
      BY <1>1, <2>1, Smallest
  <1>3. PICK y \in U : Sum(U) # f[y] + Sum(U \ {y})
    OBVIOUS
  <1> DEFINE z == Pick(U)
  <1>4. IsFiniteSet(U) /\ z \in U /\ y \in S /\ z \in S
    BY FS_Subset, PickIn
  <1>5. Sum(U) = f[z] + Sum(U \ {z})
    BY <1>3, <1>4, SumPicks
  <1>6. z # y
    BY <1>3, <1>5
  <1>7. \A V \in SUBSET U : V # U => \A w \in V : Sum(V) = f[w] + Sum(V \ {w})
    BY <1>2
  <1>8. Sum(U \ {z}) = f[y] + Sum((U \ {z}) \ {y})
    BY <1>4, <1>6, <1>7
  <1>9. Sum(U \ {y}) = f[z] + Sum((U \ {z}) \ {y})
    <2>1. (U \ {y}) \ {z} = (U \ {z}) \ {y}
      OBVIOUS
    <2>2. Sum(U \ {y}) = f[z] + Sum((U \ {y}) \ {z})
      BY <1>4, <1>6, <1>7
    <2> QED
      BY <2>1, <2>2
  <1>10. Sum((U \ {z}) \ {y}) \in Nat
    <2>1. (U \ {z}) \ {y} \in SUBSET S
      OBVIOUS
    <2>2. IsFiniteSet((U \ {z}) \ {y})
      BY <2>1, FS_Subset
    <2> QED
      BY <2>1, <2>2, SumType
  <1>11. f[y] \in Nat /\ f[z] \in Nat
    BY <1>4
  <1> HIDE DEF Sum, z, T
  <1> QED
    BY <1>3, <1>5, <1>8, <1>9, <1>10, <1>11

\* and any other put in.
LEMMA SumPuts ==
  ASSUME NEW S, IsFiniteSet(S), NEW x, x \notin S, NEW f, \A y \in S \cup {x} : f[y] \in Nat
  PROVE  SumFunctionOnSet(f, S \cup {x}) = f[x] + SumFunctionOnSet(f, S)
  <1>1. IsFiniteSet(S \cup {x})
    BY FS_AddElement
  <1>2. (S \cup {x}) \ {x} = S
    OBVIOUS
  <1>3. SumFunctionOnSet(f, S \cup {x}) = f[x] + SumFunctionOnSet(f, (S \cup {x}) \ {x})
    BY <1>1, SumTakesOut
  <1> QED
    BY <1>2, <1>3

\* Induction over the parts of a finite set.
LEMMA Grows ==
  ASSUME NEW S, IsFiniteSet(S), NEW T \in SUBSET SUBSET S, {} \in T,
         \A U \in T : \A x \in S \ U : U \cup {x} \in T
  PROVE  S \in T
  <1> SUFFICES ASSUME S \notin T
               PROVE  FALSE
    OBVIOUS
  <1>1. PICK U \in (SUBSET S) \ T : \A V \in (SUBSET S) \ T : V \subseteq U => V = U
    <2> DEFINE B == (SUBSET S) \ T
    <2>1. B \in SUBSET SUBSET S /\ B # {}
      OBVIOUS
    <2> HIDE DEF B
    <2>2. \E U \in B : \A V \in B : V \subseteq U => V = U
      BY <2>1, Smallest
    <2> QED
      BY <2>2 DEF B
  <1>2. PICK x \in U : TRUE
    OBVIOUS
  <1>3. U \ {x} \in T
    BY <1>1, <1>2
  <1>4. (U \ {x}) \cup {x} = U
    BY <1>2
  <1> QED
    BY <1>2, <1>3, <1>4

\* A sum of smaller terms is smaller, and equal only if the terms are.
LEMMA SumLeq ==
  ASSUME NEW S, IsFiniteSet(S), NEW f, NEW g,
         \A x \in S : f[x] \in Nat /\ g[x] \in Nat /\ f[x] <= g[x]
  PROVE  /\ SumFunctionOnSet(f, S) <= SumFunctionOnSet(g, S)
         /\ SumFunctionOnSet(f, S) = SumFunctionOnSet(g, S) => \A x \in S : f[x] = g[x]
  <1> DEFINE Good(U) == /\ SumFunctionOnSet(f, U) <= SumFunctionOnSet(g, U)
                        /\ SumFunctionOnSet(f, U) = SumFunctionOnSet(g, U)
                             => \A x \in U : f[x] = g[x]
             T == {U \in SUBSET S : Good(U)}
  <1>1. {} \in T
    BY SumOfNone
  <1>2. ASSUME NEW U \in T, NEW x \in S \ U
        PROVE  U \cup {x} \in T
    <2>1. IsFiniteSet(U)
      BY FS_Subset
    <2>2. /\ SumFunctionOnSet(f, U \cup {x}) = f[x] + SumFunctionOnSet(f, U)
          /\ SumFunctionOnSet(g, U \cup {x}) = g[x] + SumFunctionOnSet(g, U)
      BY <2>1, SumPuts
    <2>3. SumFunctionOnSet(f, U) \in Nat /\ SumFunctionOnSet(g, U) \in Nat
      BY <2>1, SumType
    <2>4. f[x] \in Nat /\ g[x] \in Nat /\ f[x] <= g[x]
      OBVIOUS
    <2> QED
      BY <2>2, <2>3, <2>4
  <1>3. T \in SUBSET SUBSET S
    OBVIOUS
  <1>4. S \in T
    <2> HIDE DEF T
    <2> QED
      BY <1>1, <1>2, <1>3, Grows
  <1> QED
    BY <1>4

\* Sums of the same terms are the same.
LEMMA SumSame ==
  ASSUME NEW S, IsFiniteSet(S), NEW f, NEW g, \A x \in S : f[x] \in Nat /\ f[x] = g[x]
  PROVE  SumFunctionOnSet(f, S) = SumFunctionOnSet(g, S)
  <1>1. /\ SumFunctionOnSet(f, S) <= SumFunctionOnSet(g, S)
        /\ SumFunctionOnSet(g, S) <= SumFunctionOnSet(f, S)
    BY SumLeq
  <1>2. SumFunctionOnSet(f, S) \in Nat /\ SumFunctionOnSet(g, S) \in Nat
    BY SumType
  <1> QED
    BY <1>1, <1>2

\* A sum is nothing exactly if all its terms are.
LEMMA SumZero ==
  ASSUME NEW S, IsFiniteSet(S), NEW f, \A x \in S : f[x] \in Nat
  PROVE  SumFunctionOnSet(f, S) = 0 <=> \A x \in S : f[x] = 0
  <1> DEFINE z == [x \in S |-> 0]
             T == {U \in SUBSET S : SumFunctionOnSet(z, U) = 0}
  <1>1. {} \in T
    BY SumOfNone
  <1>2. ASSUME NEW U \in T, NEW x \in S \ U
        PROVE  U \cup {x} \in T
    <2>1. IsFiniteSet(U)
      BY FS_Subset
    <2>2. SumFunctionOnSet(z, U \cup {x}) = z[x] + SumFunctionOnSet(z, U)
      <3>1. \A y \in U \cup {x} : z[y] \in Nat
        OBVIOUS
      <3> HIDE DEF z
      <3> QED
        BY <2>1, <3>1, SumPuts
    <2> QED
      BY <2>2
  <1>3. T \in SUBSET SUBSET S
    OBVIOUS
  <1>4. SumFunctionOnSet(z, S) = 0
    <2>1. S \in T
      <3> HIDE DEF T
      <3> QED
        BY <1>1, <1>2, <1>3, Grows
    <2> QED
      BY <2>1
  <1>5. \A x \in S : z[x] \in Nat /\ z[x] = 0
    OBVIOUS
  <1> HIDE DEF z
  <1>6. ASSUME SumFunctionOnSet(f, S) = 0
        PROVE  \A x \in S : f[x] = 0
    <2>1. SumFunctionOnSet(z, S) = SumFunctionOnSet(f, S) => \A x \in S : z[x] = f[x]
      BY <1>5, SumLeq
    <2> QED
      BY <1>4, <1>5, <1>6, <2>1
  <1>7. ASSUME \A x \in S : f[x] = 0
        PROVE  SumFunctionOnSet(f, S) = 0
    BY <1>4, <1>5, <1>7, SumSame
  <1> QED
    BY <1>6, <1>7

\* Sums add up term by term.
LEMMA SumPlus ==
  ASSUME NEW S, IsFiniteSet(S), NEW f, NEW g, NEW h,
         \A x \in S : f[x] \in Nat /\ g[x] \in Nat /\ h[x] = f[x] + g[x]
  PROVE  SumFunctionOnSet(h, S) = SumFunctionOnSet(f, S) + SumFunctionOnSet(g, S)
  <1> DEFINE T == {U \in SUBSET S : SumFunctionOnSet(h, U)
                                      = SumFunctionOnSet(f, U) + SumFunctionOnSet(g, U)}
  <1>1. {} \in T
    BY SumOfNone
  <1>2. ASSUME NEW U \in T, NEW x \in S \ U
        PROVE  U \cup {x} \in T
    <2>1. IsFiniteSet(U)
      BY FS_Subset
    <2>2. /\ SumFunctionOnSet(f, U \cup {x}) = f[x] + SumFunctionOnSet(f, U)
          /\ SumFunctionOnSet(g, U \cup {x}) = g[x] + SumFunctionOnSet(g, U)
          /\ SumFunctionOnSet(h, U \cup {x}) = h[x] + SumFunctionOnSet(h, U)
      <3>1. \A y \in U \cup {x} : f[y] \in Nat /\ g[y] \in Nat /\ h[y] \in Nat
        OBVIOUS
      <3> HIDE DEF T
      <3> QED
        BY <2>1, <3>1, SumPuts
    <2>3. SumFunctionOnSet(f, U) \in Nat /\ SumFunctionOnSet(g, U) \in Nat
      BY <2>1, SumType
    <2>4. f[x] \in Nat /\ g[x] \in Nat /\ h[x] = f[x] + g[x]
      OBVIOUS
    <2> QED
      BY <2>2, <2>3, <2>4
  <1>3. T \in SUBSET SUBSET S
    OBVIOUS
  <1>4. S \in T
    <2> HIDE DEF T
    <2> QED
      BY <1>1, <1>2, <1>3, Grows
  <1> QED
    BY <1>4

\* Each term is within k of its bound, so that the sum is within k for each term.
LEMMA SumWithin ==
  ASSUME NEW S, IsFiniteSet(S), NEW f, NEW g, NEW n \in Nat, NEW k \in Nat,
         \A x \in S : f[x] \in Nat /\ g[x] \in Nat /\ n * f[x] <= 2 * g[x] + k
  PROVE  n * SumFunctionOnSet(f, S) <= 2 * SumFunctionOnSet(g, S) + k * Cardinality(S)
  <1> DEFINE T == {U \in SUBSET S : n * SumFunctionOnSet(f, U)
                                      <= 2 * SumFunctionOnSet(g, U) + k * Cardinality(U)}
  <1>1. {} \in T
    BY SumOfNone, FS_EmptySet
  <1>2. ASSUME NEW U \in T, NEW x \in S \ U
        PROVE  U \cup {x} \in T
    <2>1. IsFiniteSet(U)
      BY FS_Subset
    <2>2. /\ SumFunctionOnSet(f, U \cup {x}) = f[x] + SumFunctionOnSet(f, U)
          /\ SumFunctionOnSet(g, U \cup {x}) = g[x] + SumFunctionOnSet(g, U)
      BY <2>1, SumPuts
    <2>3. SumFunctionOnSet(f, U) \in Nat /\ SumFunctionOnSet(g, U) \in Nat
      BY <2>1, SumType
    <2>4. f[x] \in Nat /\ g[x] \in Nat /\ n * f[x] <= 2 * g[x] + k
      OBVIOUS
    <2>5. Cardinality(U \cup {x}) = Cardinality(U) + 1 /\ Cardinality(U) \in Nat
      BY <2>1, FS_AddElement, FS_CardinalityType
    <2>6. \A a, b \in Nat : n * (a + b) = n * a + n * b
      OBVIOUS
    <2>7. \A a \in Nat : k * (a + 1) = k * a + k /\ k * a \in Nat /\ n * a \in Nat
      OBVIOUS
    <2>8. n * SumFunctionOnSet(f, U) <= 2 * SumFunctionOnSet(g, U) + k * Cardinality(U)
      OBVIOUS
    <2>9. n * SumFunctionOnSet(f, U \cup {x})
            <= 2 * SumFunctionOnSet(g, U \cup {x}) + k * Cardinality(U \cup {x})
      BY <2>2, <2>3, <2>4, <2>5, <2>6, <2>7, <2>8
    <2> QED
      BY <2>9
  <1>3. T \in SUBSET SUBSET S
    OBVIOUS
  <1>4. S \in T
    <2> HIDE DEF T
    <2> QED
      BY <1>1, <1>2, <1>3, Grows
  <1> QED
    BY <1>4

\* A sum over indices is the sum over what they name, when no two name the same and
\* what none of them names adds nothing.
LEMMA SumMapped ==
  ASSUME NEW S, IsFiniteSet(S), NEW R, IsFiniteSet(R), NEW m \in [S -> R],
         \A x, y \in S : m[x] = m[y] => x = y,
         NEW f, NEW g, \A x \in S : f[x] \in Nat /\ g[m[x]] = f[x],
         \A r \in R : g[r] \in Nat /\ (r \notin {m[x] : x \in S} => g[r] = 0)
  PROVE  SumFunctionOnSet(g, R) = SumFunctionOnSet(f, S)
  <1> DEFINE Image(U) == {m[x] : x \in U}
             T == {U \in SUBSET S : SumFunctionOnSet(g, Image(U)) = SumFunctionOnSet(f, U)}
  <1>0. ASSUME NEW U \in SUBSET S
        PROVE  Image(U) \in SUBSET R /\ IsFiniteSet(Image(U))
    <2>1. Image(U) \in SUBSET R
      OBVIOUS
    <2> QED
      BY <2>1, FS_Subset
  <1>1. {} \in T
    <2>1. Image({}) = {}
      OBVIOUS
    <2> QED
      BY <2>1, SumOfNone
  <1>2. ASSUME NEW U \in T, NEW x \in S \ U
        PROVE  U \cup {x} \in T
    <2>1. IsFiniteSet(U)
      BY FS_Subset
    <2>2. Image(U \cup {x}) = Image(U) \cup {m[x]} /\ m[x] \notin Image(U)
      OBVIOUS
    <2>3. SumFunctionOnSet(f, U \cup {x}) = f[x] + SumFunctionOnSet(f, U)
      BY <2>1, SumPuts
    <2>4. /\ Image(U) \in SUBSET R /\ IsFiniteSet(Image(U))
          /\ \A r \in Image(U) \cup {m[x]} : g[r] \in Nat
      <3>1. U \in SUBSET S
        OBVIOUS
      <3>2. Image(U) \in SUBSET R /\ IsFiniteSet(Image(U))
        BY <1>0, <3>1
      <3> QED
        BY <3>2
    <2>5. SumFunctionOnSet(g, Image(U) \cup {m[x]})
            = g[m[x]] + SumFunctionOnSet(g, Image(U))
      <3> HIDE DEF Image
      <3> QED
        BY <2>2, <2>4, SumPuts
    <2>6. SumFunctionOnSet(g, Image(U \cup {x})) = SumFunctionOnSet(f, U \cup {x})
      <3>1. SumFunctionOnSet(g, Image(U)) = SumFunctionOnSet(f, U) /\ g[m[x]] = f[x]
        OBVIOUS
      <3> HIDE DEF Image, T
      <3> QED
        BY <2>2, <2>3, <2>5, <3>1
    <2> QED
      BY <2>6
  <1>3. T \in SUBSET SUBSET S
    OBVIOUS
  <1>4. SumFunctionOnSet(g, Image(S)) = SumFunctionOnSet(f, S)
    <2>1. S \in T
      <3> HIDE DEF T
      <3> QED
        BY <1>1, <1>2, <1>3, Grows
    <2> QED
      BY <2>1
  <1> DEFINE A == {V \in SUBSET (R \ Image(S)) :
                     SumFunctionOnSet(g, Image(S) \cup V) = SumFunctionOnSet(g, Image(S))}
  <1>5. R \ Image(S) \in A
    <2>1. {} \in A
      <3>1. Image(S) \cup {} = Image(S)
        OBVIOUS
      <3> QED
        BY <3>1
    <2>2. ASSUME NEW V \in A, NEW r \in (R \ Image(S)) \ V
          PROVE  V \cup {r} \in A
      <3>1. /\ Image(S) \cup V \in SUBSET R /\ r \notin Image(S) \cup V
            /\ g[r] = 0
            /\ \A q \in (Image(S) \cup V) \cup {r} : g[q] \in Nat
            /\ SumFunctionOnSet(g, Image(S) \cup V) = SumFunctionOnSet(g, Image(S))
        OBVIOUS
      <3>2. IsFiniteSet(Image(S) \cup V)
        BY <3>1, FS_Subset
      <3>3. SumFunctionOnSet(g, Image(S) \cup V) \in Nat
        BY <3>1, <3>2, SumType
      <3>4. SumFunctionOnSet(g, (Image(S) \cup V) \cup {r})
              = g[r] + SumFunctionOnSet(g, Image(S) \cup V)
        <4> HIDE DEF Image
        <4> QED
          BY <3>1, <3>2, SumPuts
      <3>5. (Image(S) \cup V) \cup {r} = Image(S) \cup (V \cup {r})
        OBVIOUS
      <3>6. V \cup {r} \in SUBSET (R \ Image(S))
        OBVIOUS
      <3>7. SumFunctionOnSet(g, Image(S) \cup (V \cup {r})) = SumFunctionOnSet(g, Image(S))
        <4> HIDE DEF Image, A, T
        <4>1. SumFunctionOnSet(g, (Image(S) \cup V) \cup {r}) = SumFunctionOnSet(g, Image(S))
          BY <3>1, <3>3, <3>4
        <4> QED
          BY <3>5, <4>1
      <3> QED
        BY <3>6, <3>7
    <2>3. A \in SUBSET SUBSET (R \ Image(S)) /\ IsFiniteSet(R \ Image(S))
      <3>1. R \ Image(S) \in SUBSET R
        OBVIOUS
      <3>2. IsFiniteSet(R \ Image(S))
        <4> HIDE DEF Image
        <4> QED
          BY <3>1, FS_Subset
      <3> QED
        BY <3>2
    <2> HIDE DEF A, Image
    <2> QED
      BY <2>1, <2>2, <2>3, Grows
  <1>6. Image(S) \cup (R \ Image(S)) = R
    OBVIOUS
  <1>7. SumFunctionOnSet(g, Image(S) \cup (R \ Image(S))) = SumFunctionOnSet(g, Image(S))
    BY <1>5
  <1> HIDE DEF Image
  <1> QED
    BY <1>4, <1>6, <1>7

-------------------------------------------------------------------------------
(* Types *)

\* The lines of an effective command are return lines, each of one cell.
LEMMA LinesType ==
  ASSUME NEW c \in Commands, c.sale \in Sales
  PROVE  /\ EffectiveLines(c) \in Seq(ReturnLine)
         /\ \A i \in DOMAIN EffectiveLines(c) : QuantityOf(c, i) \in Nat /\ CellOf(c, i) \in Cell
  <1>1. /\ c \in Command /\ c.sale \in Sales
        /\ SaleLines[c.sale] \in Seq(SaleLine)
        /\ Shop[c.sale] \in Warehouses
    BY SaleAssumption, ReturnAssumption
  <1>2. EffectiveLines(c) \in Seq(ReturnLine)
    <2>1. CASE c.kind = "VOID"
      <3> DEFINE n == Len(SaleLines[c.sale])
                 f == [i \in 1 .. n |->
                         [product |-> SaleLines[c.sale][i].product,
                          quantity |-> SaleLines[c.sale][i].quantity,
                          disposition |-> "RESTOCK"]]
      <3>1. n \in Nat /\ DOMAIN SaleLines[c.sale] = 1 .. n
        BY <1>1
      <3>2. \A i \in 1 .. n : SaleLines[c.sale][i] \in SaleLine
        BY <1>1
      <3>3. \A i \in 1 .. n : f[i] \in ReturnLine
        BY <3>2 DEF SaleLine, ReturnLine
      <3>4. f \in [1 .. n -> ReturnLine]
        BY <3>3
      <3>5. f \in Seq(ReturnLine)
        BY <3>1, <3>4, SeqDef
      <3> QED
        BY <2>1, <3>1, <3>5 DEF EffectiveLines
    <2>2. CASE c.kind # "VOID"
      BY <1>1, <2>2 DEF EffectiveLines, Command
    <2> QED
      BY <2>1, <2>2
  <1>3. ASSUME NEW i \in DOMAIN EffectiveLines(c)
        PROVE  QuantityOf(c, i) \in Nat /\ CellOf(c, i) \in Cell
    <2>1. EffectiveLines(c)[i] \in ReturnLine
      BY <1>2
    <2> QED
      BY <1>1, <2>1 DEF QuantityOf, CellOf, Cell, ReturnLine
  <1> QED
    BY <1>2, <1>3

\* A command gives back natural numbers.
LEMMA GivenType ==
  ASSUME NEW c \in Commands, c.sale \in Sales, NEW p \in Products
  PROVE  Given(c, p) \in Nat
  BY LinesType DEF Given, GivenLines

\* The amounts a call can be told.
LEMMA AmountsType ==
  ASSUME NEW c, NEW v \in Amounts
  PROVE  \A o \in Outcomes : [outcome |-> o, value |-> v, refunded |-> Refund(c, v)] \in Answer
  <1>1. 0 \in Amounts
    BY DEF Amounts
  <1>2. Refund(c, v) \in Amounts
    BY <1>1 DEF Refund
  <1> QED
    BY <1>1, <1>2 DEF Answer

\* LedgerTypeOK holds before any return.
LEMMA LedgerTypeOKInit == Init => LedgerTypeOK
  <1>1. \A o \in Outcomes : [outcome |-> o, value |-> 0, refunded |-> 0] \in Answer
    BY DEF Answer, Amounts
  <1>2. "pending" \in Outcomes
    BY DEF Outcomes
  <1> QED
    BY <1>1, <1>2, ReturnAssumption DEF Init, LedgerTypeOK, Cell

\* A line of a command that credits cell x.
LEMMA AtLine ==
  ASSUME NEW c, NEW x, LinesAt(c, x) # {}
  PROVE  (CHOOSE i \in LinesAt(c, x) : TRUE) \in LinesAt(c, x)
  OBVIOUS

\* What a cell keeps or gets when an adjustment takes effect.
LEMMA AdjustAppends ==
  ASSUME LedgerTypeOK, NEW t \in Requests, Adjust(t), NEW x \in Cell
  PROVE  \/ /\ LinesAt(cmd[t], x) = {}
            /\ movements'[x] = movements[x]
            /\ stock'[x] = stock[x]
         \/ \E m \in Movement :
              /\ LinesAt(cmd[t], x) # {}
              /\ movements'[x] = Append(movements[x], m)
              /\ stock'[x] = m.after
              /\ m.after = stock[x] + m.quantity
              /\ m.return = cmd[t]
  <1> DEFINE c == cmd[t]
             i == CHOOSE i \in LinesAt(c, x) : TRUE
             m == [return |-> c, quantity |-> QuantityOf(c, i),
                   after |-> stock[x] + QuantityOf(c, i)]
  <1>1. c \in Commands /\ c.sale \in Sales /\ stock[x] \in Nat
    BY DEF LedgerTypeOK, Adjust
  <1>2. CASE LinesAt(c, x) = {}
    BY <1>2 DEF Adjust
  <1>3. CASE LinesAt(c, x) # {}
    <2>1. i \in LinesAt(c, x)
      BY <1>3, AtLine
    <2>2. QuantityOf(c, i) \in Nat
      BY <1>1, <2>1, LinesType DEF LinesAt
    <2>3. m \in Movement
      BY <1>1, <2>2 DEF Movement
    <2>4. movements'[x] = Append(movements[x], m) /\ stock'[x] = m.after
      BY <1>3 DEF Adjust
    <2> QED
      BY <1>3, <2>3, <2>4
  <1> QED
    BY <1>2, <1>3

\* Every step keeps the types: what is added is a natural number.
LEMMA LedgerTypeOKNext == LedgerTypeOK /\ [Next]_ledgerVars => LedgerTypeOK'
  <1> SUFFICES ASSUME LedgerTypeOK, [Next]_ledgerVars
               PROVE  LedgerTypeOK'
    OBVIOUS
  <1>1. ASSUME NEW t \in Requests, NEW o \in Outcomes, NEW v \in Amounts, Tell(t, o, v)
        PROVE  answer' \in [Requests -> Answer]
    <2>1. [outcome |-> o, value |-> v, refunded |-> Refund(cmd[t], v)] \in Answer
      BY AmountsType
    <2> QED
      BY <1>1, <2>1 DEF LedgerTypeOK, Tell
  <1>2. ASSUME NEW t \in Requests, Adjust(t)
        PROVE  LedgerTypeOK'
    <2> DEFINE c == cmd[t]
    <2>1. c \in Commands /\ c.sale \in Sales
      BY <1>2 DEF LedgerTypeOK, Adjust
    <2>2. answer' \in [Requests -> Answer]
      <3>1. ToldFirst(c) \in Amounts /\ 0 \in Amounts
        BY <2>1 DEF Amounts, Priced
      <3> QED
        BY <1>1, <1>2, <3>1 DEF Adjust, Outcomes
    <2>3. ASSUME NEW x \in Cell
          PROVE  stock'[x] \in Nat /\ movements'[x] \in Seq(Movement)
      <3>1. stock[x] \in Nat /\ movements[x] \in Seq(Movement)
        BY DEF LedgerTypeOK
      <3>2. \A m \in Movement : m.after \in Nat /\ Append(movements[x], m) \in Seq(Movement)
        BY <3>1 DEF Movement
      <3> QED
        BY <1>2, <3>1, <3>2, AdjustAppends
    <2>4. stock' \in [Cell -> Nat] /\ movements' \in [Cell -> Seq(Movement)]
      <3>1. stock' = [x \in Cell |-> stock'[x]] /\ movements' = [x \in Cell |-> movements'[x]]
        BY <1>2 DEF Adjust
      <3> QED
        BY <2>3, <3>1
    <2>5. returned' \in [Sales -> [Products -> Nat]]
      <3>1. [p \in Products |-> returned[c.sale][p] + Given(c, p)] \in [Products -> Nat]
        BY <2>1, GivenType DEF LedgerTypeOK
      <3> QED
        BY <1>2, <2>1, <3>1 DEF LedgerTypeOK, Adjust
    <2> QED
      BY <1>2, <2>1, <2>2, <2>4, <2>5 DEF LedgerTypeOK, Adjust, Priced
  <1>3. ASSUME NEW t \in Requests, Replay(t)
        PROVE  LedgerTypeOK'
    <2>1. PICK r \in returns : Tell(t, "replayed", ToldAgain(r))
      BY <1>3 DEF Replay, Repeated, Recorded
    <2>2. ToldAgain(r) \in Amounts
      BY <2>1 DEF LedgerTypeOK, Amounts
    <2>3. answer' \in [Requests -> Answer]
      BY <1>1, <2>1, <2>2 DEF Outcomes
    <2> QED
      BY <1>3, <2>3 DEF LedgerTypeOK, Replay
  <1>4. ASSUME NEW t \in Requests, Refuse(t)
        PROVE  LedgerTypeOK'
    <2>1. 0 \in Amounts /\ \E o \in Outcomes : Tell(t, o, 0)
      BY <1>4 DEF Refuse, Outcomes, Amounts
    <2> QED
      BY <1>1, <1>4, <2>1 DEF LedgerTypeOK, Refuse
  <1>5. CASE UNCHANGED ledgerVars
    BY <1>5 DEF LedgerTypeOK, ledgerVars
  <1> QED
    BY <1>2, <1>3, <1>4, <1>5 DEF Next

\* Every variable of the ledger keeps its type.
THEOREM LedgerTypeCorrect == Spec => []LedgerTypeOK
  BY LedgerTypeOKInit, LedgerTypeOKNext, PTL DEF Spec

-------------------------------------------------------------------------------
(* Quantities *)

\* Steps other than Adjust leave the records alone.
LEMMA OthersKeep ==
  ASSUME [Next]_ledgerVars, \A t \in Requests : ~Adjust(t)
  PROVE  UNCHANGED <<stock, movements, returns, returned>>
  BY DEF Next, ledgerVars, Replay, Refuse

\* What a sale sold of a product.
LEMMA SoldType ==
  ASSUME NEW s \in Sales, NEW p \in Products
  PROVE  Sold(s, p) \in Nat
  <1>1. SaleLines[s] \in Seq(SaleLine)
    BY SaleAssumption
  <1>2. \A j \in DOMAIN SaleLines[s] : SaleLines[s][j] \in SaleLine
    BY <1>1
  <1>3. \A j \in DOMAIN SaleLines[s] : SaleLines[s][j].quantity \in Nat
    BY <1>2 DEF SaleLine
  <1>4. CASE SoldLines(s, p) = {}
    BY <1>4 DEF Sold
  <1>5. CASE SoldLines(s, p) # {}
    <2>1. (CHOOSE i \in SoldLines(s, p) : TRUE) \in DOMAIN SaleLines[s]
      BY <1>5 DEF SoldLines
    <2> QED
      BY <1>3, <1>5, <2>1 DEF Sold
  <1> QED
    BY <1>4, <1>5

\* A void gives back what the sale sold.
LEMMA VoidGivesAll ==
  ASSUME NEW c \in Commands, c.sale \in Sales, c.kind = "VOID", NEW p \in Products
  PROVE  Given(c, p) = Sold(c.sale, p)
  <1> DEFINE s == c.sale
  <1>1. /\ DOMAIN EffectiveLines(c) = DOMAIN SaleLines[s]
        /\ \A i \in DOMAIN SaleLines[s] :
             /\ EffectiveLines(c)[i].product = SaleLines[s][i].product
             /\ EffectiveLines(c)[i].quantity = SaleLines[s][i].quantity
    BY DEF EffectiveLines
  <1>2. GivenLines(c, p) = SoldLines(s, p)
    BY <1>1 DEF GivenLines, SoldLines
  <1>3. CASE SoldLines(s, p) = {}
    BY <1>2, <1>3 DEF Given, Sold
  <1>4. CASE SoldLines(s, p) # {}
    <2>1. (CHOOSE i \in SoldLines(s, p) : TRUE) \in DOMAIN SaleLines[s]
      BY <1>4 DEF SoldLines
    <2> QED
      BY <1>1, <1>2, <1>4, <2>1 DEF Given, Sold, QuantityOf
  <1> QED
    BY <1>3, <1>4

\* A command that does not exceed its sale leaves room for all it gives back.
LEMMA GivenFits ==
  ASSUME LedgerTypeOK, NEW c \in Commands, c.sale \in Sales, ~Exceeds(c, returned),
         NEW p \in Products,
         returned[c.sale][p] <= Sold(c.sale, p)
  PROVE  returned[c.sale][p] + Given(c, p) <= Sold(c.sale, p)
  <1> DEFINE i == CHOOSE i \in GivenLines(c, p) : TRUE
  <1>1. returned[c.sale][p] \in Nat
    BY DEF LedgerTypeOK
  <1>2. Sold(c.sale, p) \in Nat
    BY SoldType
  <1>3. CASE GivenLines(c, p) = {}
    BY <1>1, <1>3 DEF Given
  <1>4. CASE GivenLines(c, p) # {}
    <2>1. i \in DOMAIN EffectiveLines(c) /\ EffectiveLines(c)[i].product = p
      BY <1>4 DEF GivenLines
    <2>2. ~(QuantityOf(c, i) > Sold(c.sale, p) - returned[c.sale][p])
      BY <2>1 DEF Exceeds
    <2>3. Given(c, p) = QuantityOf(c, i) /\ QuantityOf(c, i) \in Nat
      BY <1>4, <2>1, LinesType DEF Given
    <2> QED
      BY <1>1, <1>2, <2>2, <2>3
  <1> QED
    BY <1>3, <1>4

\* What an adjustment does to the returned quantities.
LEMMA AdjustReturns ==
  ASSUME LedgerTypeOK, NEW t \in Requests, Adjust(t), NEW s \in Sales, NEW p \in Products
  PROVE  returned'[s][p] = IF s = cmd[t].sale THEN returned[s][p] + Given(cmd[t], p)
                                              ELSE returned[s][p]
  BY DEF LedgerTypeOK, Adjust

\* Nothing has been returned at first.
LEMMA NeverOverReturnedInit == Init => NeverOverReturned
  BY SoldType DEF Init, NeverOverReturned

\* An adjustment fits in what is left of its sale.
LEMMA NeverOverReturnedNext ==
  LedgerTypeOK /\ NeverOverReturned /\ [Next]_ledgerVars => NeverOverReturned'
  <1> SUFFICES ASSUME LedgerTypeOK, NeverOverReturned, [Next]_ledgerVars,
                      NEW s \in Sales, NEW p \in Products
               PROVE  returned'[s][p] <= Sold(s, p)
    BY DEF NeverOverReturned
  <1>1. ASSUME NEW t \in Requests, Adjust(t)
        PROVE  returned'[s][p] <= Sold(s, p)
    <2>1. /\ cmd[t] \in Commands /\ cmd[t].sale \in Sales /\ ~Exceeds(cmd[t], returned)
          /\ returned[s][p] <= Sold(s, p)
      BY <1>1 DEF LedgerTypeOK, Adjust, NeverOverReturned
    <2> QED
      BY <1>1, <2>1, AdjustReturns, GivenFits
  <1>2. CASE \A t \in Requests : ~Adjust(t)
    BY <1>2, OthersKeep DEF NeverOverReturned
  <1> QED
    BY <1>1, <1>2

\* decisions/0017: no sale gets back more of a product than it sold.
THEOREM NeverOverReturnedHolds == Spec => []NeverOverReturned
  BY NeverOverReturnedInit, NeverOverReturnedNext, LedgerTypeCorrect, PTL DEF Spec

-------------------------------------------------------------------------------
(* Voids *)

\* VoidStandsAlone with what makes it inductive: a sale that nothing has adjusted has
\* nothing back.
VoidInv ==
  /\ VoidStandsAlone
  /\ \A s \in Sales : AdjustmentsOf(s, returns) = {} => \A p \in Products : returned[s][p] = 0

\* There is no void at first.
LEMMA VoidInvInit == Init => VoidInv
  BY DEF Init, VoidInv, VoidStandsAlone

\* A void comes first and shuts the others out.
LEMMA VoidInvNext == LedgerTypeOK /\ VoidInv /\ [Next]_ledgerVars => VoidInv'
  <1> SUFFICES ASSUME LedgerTypeOK, VoidInv, [Next]_ledgerVars
               PROVE  VoidInv'
    OBVIOUS
  <1>1. ASSUME NEW t \in Requests, Adjust(t)
        PROVE  VoidInv'
    <2> DEFINE c == cmd[t]
    <2>1. /\ c \in Commands /\ c.sale \in Sales /\ ~Adjusted(c, returns)
          /\ c.kind \in {"RETURN", "VOID"}
          /\ returns' = returns \cup {c}
          /\ \A r \in returns : r.sale \in Sales
      BY <1>1, ReturnAssumption DEF LedgerTypeOK, Adjust, Command, Priced
    <2>2. \A s \in Sales \ {c.sale}, p \in Products : returned'[s][p] = returned[s][p]
      BY <1>1, AdjustReturns
    <2>3. \A s \in Sales \ {c.sale} : AdjustmentsOf(s, returns') = AdjustmentsOf(s, returns)
      BY <2>1 DEF AdjustmentsOf
    <2>4. c \in AdjustmentsOf(c.sale, returns')
      BY <2>1 DEF AdjustmentsOf
    <2>5. ASSUME NEW r \in returns', r.kind = "VOID"
          PROVE  /\ AdjustmentsOf(r.sale, returns') = {r}
                 /\ \A p \in Products : returned'[r.sale][p] = Sold(r.sale, p)
      <3>1. CASE r.sale # c.sale
        <4>1. r \in returns /\ r.sale \in Sales
          BY <2>1, <3>1
        <4> QED
          BY <2>2, <2>3, <2>5, <3>1, <4>1 DEF VoidInv, VoidStandsAlone
      <3>2. CASE r.sale = c.sale /\ c.kind = "VOID"
        <4>1. AdjustmentsOf(c.sale, returns) = {}
          BY <2>1, <3>2 DEF Adjusted
        <4>2. r = c /\ AdjustmentsOf(c.sale, returns') = {c}
          BY <2>1, <3>2, <4>1 DEF AdjustmentsOf
        <4>3. ASSUME NEW p \in Products
              PROVE  returned'[c.sale][p] = Sold(c.sale, p)
          <5>1. returned[c.sale][p] = 0 /\ Given(c, p) \in Nat
            BY <2>1, <4>1, GivenType DEF VoidInv
          <5> QED
            BY <1>1, <2>1, <3>2, <5>1, AdjustReturns, VoidGivesAll
        <4> QED
          BY <4>2, <4>3
      <3>3. CASE r.sale = c.sale /\ c.kind = "RETURN"
        <4>1. r \in returns
          BY <2>1, <2>5, <3>3
        <4>2. r \in VoidsOf(c.sale, returns)
          BY <2>5, <3>3, <4>1 DEF VoidsOf, AdjustmentsOf
        <4> QED
          BY <2>1, <3>3, <4>2 DEF Adjusted
      <3> QED
        BY <2>1, <3>1, <3>2, <3>3
    <2>6. VoidStandsAlone'
      BY <2>5 DEF VoidStandsAlone
    <2>7. ASSUME NEW s \in Sales, AdjustmentsOf(s, returns') = {}, NEW p \in Products
          PROVE  returned'[s][p] = 0
      <3>1. s # c.sale
        BY <2>4, <2>7
      <3> QED
        BY <2>2, <2>3, <2>7, <3>1 DEF VoidInv
    <2> QED
      BY <2>6, <2>7 DEF VoidInv
  <1>2. CASE \A t \in Requests : ~Adjust(t)
    BY <1>2, OthersKeep DEF VoidInv, VoidStandsAlone
  <1> QED
    BY <1>1, <1>2

\* A void is the only adjustment of its sale and gives all of it back.
THEOREM VoidStandsAloneHolds == Spec => []VoidStandsAlone
  <1>1. VoidInv => VoidStandsAlone
    BY DEF VoidInv
  <1> QED
    BY <1>1, VoidInvInit, VoidInvNext, LedgerTypeCorrect, PTL DEF Spec

-------------------------------------------------------------------------------
(* The chain of credits *)

\* The quantity a cell had before its j-th movement.
Before(x, j) == IF j = 1 THEN Opening[x] ELSE movements[x][j - 1].after

\* The chain starts at the opening stock.
LEMMA CreditChainInit == Init => CreditChain
  BY DEF Init, CreditChain

\* A movement is appended to the balance the last one left.
LEMMA CreditChainNext == LedgerTypeOK /\ CreditChain /\ [Next]_ledgerVars => CreditChain'
  <1> SUFFICES ASSUME LedgerTypeOK, CreditChain, [Next]_ledgerVars
               PROVE  CreditChain'
    OBVIOUS
  <1>0. ASSUME NEW x \in Cell
        PROVE  /\ movements[x] \in Seq(Movement) /\ Len(movements[x]) \in Nat
               /\ \A j \in DOMAIN movements[x] :
                    movements[x][j].after = Before(x, j) + movements[x][j].quantity
               /\ stock[x] = Before(x, Len(movements[x]) + 1)
    BY DEF LedgerTypeOK, CreditChain, Before
  <1>1. ASSUME NEW t \in Requests, Adjust(t), NEW x \in Cell
        PROVE  /\ \A j \in DOMAIN movements'[x] :
                    movements'[x][j].after = Before(x, j)' + movements'[x][j].quantity
               /\ stock'[x] = Before(x, Len(movements[x]) + 1)'
    <2>1. CASE movements'[x] = movements[x] /\ stock'[x] = stock[x]
      BY <1>0, <2>1 DEF Before
    <2>2. ASSUME NEW m \in Movement, movements'[x] = Append(movements[x], m),
                 stock'[x] = m.after, m.after = stock[x] + m.quantity
          PROVE  /\ \A j \in DOMAIN movements'[x] :
                      movements'[x][j].after = Before(x, j)' + movements'[x][j].quantity
                 /\ stock'[x] = Before(x, Len(movements[x]) + 1)'
      <3> DEFINE n == Len(movements[x])
      <3>1. /\ n \in Nat
            /\ DOMAIN movements[x] = 1 .. n
            /\ DOMAIN movements'[x] = 1 .. n + 1
            /\ Len(movements'[x]) = n + 1
            /\ movements'[x][n + 1] = m
            /\ \A j \in 1 .. n : movements'[x][j] = movements[x][j]
        BY <1>0, <2>2
      <3>2. \A j \in 1 .. n + 1 : Before(x, j)' = Before(x, j)
        BY <3>1 DEF Before
      <3>3. stock'[x] = Before(x, Len(movements[x]) + 1)'
        BY <2>2, <3>1 DEF Before
      <3>4. ASSUME NEW j \in 1 .. n + 1
            PROVE  movements'[x][j].after = Before(x, j)' + movements'[x][j].quantity
        <4>1. CASE j = n + 1
          BY <1>0, <2>2, <3>1, <3>2, <4>1
        <4>2. CASE j \in 1 .. n
          BY <1>0, <3>1, <3>2, <4>2
        <4> QED
          BY <3>1, <4>1, <4>2
      <3> QED
        BY <3>1, <3>3, <3>4
    <2> QED
      BY <1>1, <2>1, <2>2, AdjustAppends
  <1>2. CASE \A t \in Requests : ~Adjust(t)
    BY <1>2, OthersKeep DEF CreditChain
  <1> QED
    BY <1>1, <1>2 DEF CreditChain, Before

\* No credit is lost: the movements of a cell chain up to the stored balance.
THEOREM CreditChainHolds == Spec => []CreditChain
  BY CreditChainInit, CreditChainNext, LedgerTypeCorrect, PTL DEF Spec

-------------------------------------------------------------------------------
(* Keys *)

\* There is nothing to be repeated at first.
LEMMA ReturnedOnceInit == Init => ReturnedOnce
  BY DEF Init, ReturnedOnce

\* An adjustment whose key is new is recorded with all its movements and no others.
LEMMA ReturnedOnceNext == LedgerTypeOK /\ ReturnedOnce /\ [Next]_ledgerVars => ReturnedOnce'
  <1> SUFFICES ASSUME LedgerTypeOK, ReturnedOnce, [Next]_ledgerVars
               PROVE  ReturnedOnce'
    OBVIOUS
  <1>1. ASSUME NEW t \in Requests, NEW c \in Commands, c = cmd[t], Adjust(t)
        PROVE  ReturnedOnce'
    <2>1. /\ c.sale \in Sales
          /\ returns' = returns \cup {c}
          /\ Recorded(c, returns) = {}
      BY <1>1 DEF Adjust
    <2>2. c \notin returns /\ \A r \in returns : r.key # c.key
      BY <2>1 DEF Recorded
    <2>3. ASSUME NEW x \in Cell
          PROVE  /\ DOMAIN movements[x] \subseteq DOMAIN movements'[x]
                 /\ \A j \in DOMAIN movements[x] : movements'[x][j] = movements[x][j]
                 /\ \A j \in DOMAIN movements'[x] \ DOMAIN movements[x] :
                      /\ j = Len(movements[x]) + 1
                      /\ movements'[x][j].return = c
                      /\ LinesAt(c, x) # {}
                 /\ LinesAt(c, x) # {} =>
                      \E j \in DOMAIN movements'[x] : movements'[x][j].return = c
      <3>1. movements[x] \in Seq(Movement)
        BY DEF LedgerTypeOK
      <3>2. Len(movements[x]) \in Nat /\ DOMAIN movements[x] = 1 .. Len(movements[x])
        BY <3>1
      <3>3. CASE LinesAt(c, x) = {} /\ movements'[x] = movements[x]
        BY <3>3
      <3>4. ASSUME NEW m \in Movement, LinesAt(c, x) # {},
                   movements'[x] = Append(movements[x], m), m.return = c
            PROVE  /\ DOMAIN movements[x] \subseteq DOMAIN movements'[x]
                   /\ \A j \in DOMAIN movements[x] : movements'[x][j] = movements[x][j]
                   /\ \A j \in DOMAIN movements'[x] \ DOMAIN movements[x] :
                        j = Len(movements[x]) + 1 /\ movements'[x][j].return = c
                   /\ \E j \in DOMAIN movements'[x] : movements'[x][j].return = c
        <4>1. /\ DOMAIN movements'[x] = 1 .. Len(movements[x]) + 1
              /\ \A j \in 1 .. Len(movements[x]) : movements'[x][j] = movements[x][j]
              /\ movements'[x][Len(movements[x]) + 1] = m
          BY <3>1, <3>4
        <4> QED
          BY <3>2, <3>4, <4>1
      <3> QED
        BY <1>1, <3>3, <3>4, AdjustAppends
    <2>4. \A r, q \in returns' : r.key = q.key => r = q
      BY <2>1, <2>2 DEF ReturnedOnce
    <2>5. ASSUME NEW r \in returns', NEW i \in DOMAIN EffectiveLines(r)
          PROVE  \E j \in DOMAIN movements'[CellOf(r, i)] :
                   movements'[CellOf(r, i)][j].return = r
      <3>1. r \in Commands /\ r.sale \in Sales
        BY <2>1 DEF LedgerTypeOK, Priced
      <3>2. PICK x \in Cell : x = CellOf(r, i)
        BY <3>1, LinesType
      <3>3. CASE r = c
        <4>1. i \in LinesAt(c, x)
          BY <3>2, <3>3 DEF LinesAt
        <4> QED
          BY <2>3, <3>2, <3>3, <4>1
      <3>4. CASE r \in returns
        <4>1. \E j \in DOMAIN movements[x] : movements[x][j].return = r
          BY <3>2, <3>4 DEF ReturnedOnce
        <4> QED
          BY <2>3, <3>2, <4>1
      <3> QED
        BY <2>1, <3>3, <3>4
    <2>6. ASSUME NEW x \in Cell, NEW j \in DOMAIN movements'[x]
          PROVE  /\ movements'[x][j].return \in returns'
                 /\ LinesAt(movements'[x][j].return, x) # {}
                 /\ \A k \in DOMAIN movements'[x] :
                      movements'[x][j].return = movements'[x][k].return => j = k
      <3>1. \A k \in DOMAIN movements[x] :
              /\ movements[x][k].return \in returns /\ movements[x][k].return # c
              /\ movements'[x][k] = movements[x][k]
              /\ LinesAt(movements[x][k].return, x) # {}
        BY <2>2, <2>3 DEF ReturnedOnce
      <3>2. \A k, l \in DOMAIN movements[x] :
              movements[x][k].return = movements[x][l].return => k = l
        BY DEF ReturnedOnce
      <3>3. CASE j \in DOMAIN movements[x]
        BY <2>1, <2>3, <3>1, <3>2, <3>3
      <3>4. CASE j \notin DOMAIN movements[x]
        <4>1. movements'[x][j].return = c /\ j = Len(movements[x]) + 1 /\ LinesAt(c, x) # {}
          BY <2>3, <3>4
        <4>2. ASSUME NEW k \in DOMAIN movements'[x], movements'[x][k].return = c
              PROVE  k = j
          BY <2>3, <3>1, <4>1, <4>2
        <4> QED
          BY <2>1, <4>1, <4>2
      <3> QED
        BY <3>3, <3>4
    <2> QED
      BY <2>4, <2>5, <2>6 DEF ReturnedOnce, LinesAt
  <1>2. CASE \A t \in Requests : ~Adjust(t)
    BY <1>2, OthersKeep DEF ReturnedOnce
  <1> QED
    BY <1>1, <1>2 DEF LedgerTypeOK

\* A key names one adjustment, whose movements are there once each and no others.
THEOREM ReturnedOnceHolds == Spec => []ReturnedOnce
  BY ReturnedOnceInit, ReturnedOnceNext, LedgerTypeCorrect, PTL DEF Spec

-------------------------------------------------------------------------------
(* Answers *)

\* What a caller has been told was carried out is recorded, by its own command or by one
\* with the same digest; it was told what the recorded one is worth and refunds.
AnswerInv ==
  \A t \in Requests :
    /\ answer[t].outcome \in {"created", "replayed"} =>
         answer[t].refunded = Refund(cmd[t], answer[t].value)
    /\ answer[t].outcome = "created" =>
         /\ cmd[t] \in returns
         /\ answer[t].value = ToldFirst(cmd[t])
         /\ \A u \in Requests :
              answer[u].outcome = "created" /\ cmd[t].key = cmd[u].key => t = u
    /\ answer[t].outcome = "replayed" =>
         \E r \in Repeated(cmd[t], returns) : answer[t].value = ToldAgain(r)

\* What repeats a command goes on doing so as more is recorded.
LEMMA RepeatedGrows ==
  ASSUME NEW c, NEW rs, NEW qs, rs \subseteq qs
  PROVE  Repeated(c, rs) \subseteq Repeated(c, qs)
  BY DEF Repeated, Recorded

\* Nobody has been told anything at first.
LEMMA AnswerInvInit == Init => AnswerInv
  BY DEF Init, AnswerInv

\* A key is adjusted once, and what is recorded stays.
LEMMA AnswerInvNext ==
  LedgerTypeOK /\ AnswerInv /\ [Next]_ledgerVars => AnswerInv'
  <1> SUFFICES ASSUME LedgerTypeOK, AnswerInv, [Next]_ledgerVars
               PROVE  AnswerInv'
    OBVIOUS
  <1>1. ASSUME NEW t \in Requests, Adjust(t)
        PROVE  AnswerInv'
    <2>1. /\ cmd' = cmd /\ returns' = returns \cup {cmd[t]}
          /\ Recorded(cmd[t], returns) = {}
          /\ Tell(t, "created", ToldFirst(cmd[t])) \/ Tell(t, "unavailable", 0)
      BY <1>1 DEF Adjust
    <2>2. /\ answer'[t].outcome \in {"created", "unavailable"}
          /\ answer'[t].outcome = "created" =>
               /\ answer'[t].value = ToldFirst(cmd[t])
               /\ answer'[t].refunded = Refund(cmd[t], answer'[t].value)
          /\ \A u \in Requests \ {t} : answer'[u] = answer[u]
      BY <2>1 DEF Tell, LedgerTypeOK
    <2>3. ASSUME NEW u \in Requests, answer[u].outcome = "created"
          PROVE  cmd[u].key # cmd[t].key
      BY <2>1, <2>3 DEF AnswerInv, Recorded
    <2>4. ASSUME NEW u \in Requests, answer'[u].outcome = "replayed"
          PROVE  \E r \in Repeated(cmd[u], returns') : answer'[u].value = ToldAgain(r)
      <3>1. u # t /\ answer'[u] = answer[u]
        BY <2>2, <2>4
      <3>2. \E r \in Repeated(cmd[u], returns) : answer[u].value = ToldAgain(r)
        BY <2>4, <3>1 DEF AnswerInv
      <3>3. Repeated(cmd[u], returns) \subseteq Repeated(cmd[u], returns')
        BY <2>1, RepeatedGrows
      <3> QED
        BY <3>1, <3>2, <3>3
    <2>5. ASSUME NEW u \in Requests, answer'[u].outcome \in {"created", "replayed"}
          PROVE  answer'[u].refunded = Refund(cmd[u], answer'[u].value)
      BY <2>2, <2>5 DEF AnswerInv
    <2>6. ASSUME NEW u \in Requests, answer'[u].outcome = "created"
          PROVE  /\ cmd[u] \in returns' /\ answer'[u].value = ToldFirst(cmd[u])
                 /\ \A q \in Requests :
                      answer'[q].outcome = "created" /\ cmd[u].key = cmd[q].key => u = q
      BY <2>1, <2>2, <2>3, <2>6 DEF AnswerInv
    <2> QED
      BY <2>1, <2>4, <2>5, <2>6 DEF AnswerInv
  <1>2. ASSUME NEW t \in Requests, Replay(t) \/ Refuse(t)
        PROVE  AnswerInv'
    <2>1. /\ cmd' = cmd /\ returns' = returns
          /\ \E o \in Outcomes \ {"created"} : \E v :
               /\ Tell(t, o, v)
               /\ o = "replayed" =>
                    \E r \in Repeated(cmd[t], returns) : v = ToldAgain(r)
      BY <1>2 DEF Replay, Refuse, Outcomes
    <2>2. /\ answer'[t].outcome # "created"
          /\ answer'[t].outcome = "replayed" =>
               /\ \E r \in Repeated(cmd[t], returns) : answer'[t].value = ToldAgain(r)
               /\ answer'[t].refunded = Refund(cmd[t], answer'[t].value)
          /\ \A u \in Requests \ {t} : answer'[u] = answer[u]
      BY <2>1 DEF Tell, LedgerTypeOK
    <2> QED
      BY <2>1, <2>2 DEF AnswerInv
  <1>3. CASE UNCHANGED ledgerVars
    BY <1>3 DEF ledgerVars, AnswerInv
  <1> QED
    BY <1>1, <1>2, <1>3 DEF Next

-------------------------------------------------------------------------------
(* Refunds *)

\* The price of a product in a sale.
LEMMA PriceType ==
  ASSUME NEW s \in Sales, NEW p \in Products
  PROVE  Price(s, p) \in Nat
  <1>1. SaleLines[s] \in Seq(SaleLine)
    BY SaleAssumption
  <1>2. \A j \in DOMAIN SaleLines[s] : SaleLines[s][j] \in SaleLine
    BY <1>1
  <1>3. \A j \in DOMAIN SaleLines[s] : SaleLines[s][j].price \in Nat
    BY <1>2 DEF SaleLine
  <1>4. CASE SoldLines(s, p) = {}
    BY <1>4 DEF Price
  <1>5. CASE SoldLines(s, p) # {}
    <2>1. (CHOOSE i \in SoldLines(s, p) : TRUE) \in DOMAIN SaleLines[s]
      BY <1>5 DEF SoldLines
    <2> QED
      BY <1>3, <1>5, <2>1 DEF Price
  <1> QED
    BY <1>4, <1>5

\* An amount is a natural number.
LEMMA TimesNat == \A a, b \in Nat : a * b \in Nat
  OBVIOUS

\* The lines of a command have a product each.
LEMMA LinesApart ==
  ASSUME NEW c \in Commands, c.sale \in Sales, Valid(c),
         NEW i \in DOMAIN EffectiveLines(c), NEW j \in DOMAIN EffectiveLines(c),
         EffectiveLines(c)[i].product = EffectiveLines(c)[j].product
  PROVE  i = j
  <1>1. c.kind \in {"RETURN", "VOID"}
    BY ReturnAssumption DEF Command
  <1>2. CASE c.kind = "VOID"
    <2>1. /\ DOMAIN EffectiveLines(c) = DOMAIN SaleLines[c.sale]
          /\ \A k \in DOMAIN SaleLines[c.sale] :
               EffectiveLines(c)[k].product = SaleLines[c.sale][k].product
      BY <1>2 DEF EffectiveLines
    <2> QED
      BY <2>1, SaleAssumption
  <1>3. CASE c.kind = "RETURN"
    BY <1>3 DEF EffectiveLines, Valid
  <1> QED
    BY <1>1, <1>2, <1>3

\* The worth of a command is a sum over the products, too.
LEMMA WorthByProduct ==
  ASSUME NEW c \in Commands, c.sale \in Sales, Valid(c)
  PROVE  /\ Worth(c) = SumFunctionOnSet([p \in Products |-> Price(c.sale, p) * Given(c, p)],
                                        Products)
         /\ Worth(c) \in Nat
  <1> DEFINE s == c.sale
             S == DOMAIN EffectiveLines(c)
             m == [i \in S |-> EffectiveLines(c)[i].product]
             f == [i \in S |-> Price(s, EffectiveLines(c)[i].product) * QuantityOf(c, i)]
             g == [p \in Products |-> Price(s, p) * Given(c, p)]
  <1>1. /\ EffectiveLines(c) \in Seq(ReturnLine)
        /\ \A i \in S : QuantityOf(c, i) \in Nat
    BY LinesType
  <1>2. IsFiniteSet(S)
    <2>1. S = 1 .. Len(EffectiveLines(c)) /\ Len(EffectiveLines(c)) \in Nat
      BY <1>1
    <2> QED
      BY <2>1, FS_Interval
  <1>3. \A i \in S : EffectiveLines(c)[i].product \in Products
    <2>1. \A i \in S : EffectiveLines(c)[i] \in ReturnLine
      BY <1>1
    <2> QED
      BY <2>1 DEF ReturnLine
  <1>4. m \in [S -> Products] /\ \A i, j \in S : m[i] = m[j] => i = j
    BY <1>3, LinesApart
  <1>5. ASSUME NEW i \in S
        PROVE  f[i] \in Nat /\ g[m[i]] = f[i]
    <2> DEFINE p == EffectiveLines(c)[i].product
    <2>1. p \in Products /\ Price(s, p) \in Nat /\ QuantityOf(c, i) \in Nat
      BY <1>1, <1>3, PriceType
    <2>2. GivenLines(c, p) = {i}
      BY LinesApart DEF GivenLines
    <2>3. Given(c, p) = QuantityOf(c, i)
      BY <2>2 DEF Given
    <2> QED
      BY <2>1, <2>3, TimesNat
  <1>6. ASSUME NEW p \in Products
        PROVE  g[p] \in Nat /\ (p \notin {m[i] : i \in S} => g[p] = 0)
    <2>1. Price(s, p) \in Nat /\ Given(c, p) \in Nat
      BY PriceType, GivenType
    <2>2. ASSUME p \notin {m[i] : i \in S}
          PROVE  Given(c, p) = 0
      <3>1. GivenLines(c, p) = {}
        BY <2>2 DEF GivenLines
      <3> QED
        BY <3>1 DEF Given
    <2>3. \A a \in Nat : a * 0 = 0
      OBVIOUS
    <2> QED
      BY <2>1, <2>2, <2>3, TimesNat
  <1>7. Worth(c) = SumFunctionOnSet(f, S)
    BY DEF Worth, SumFunction
  <1>8. SumFunctionOnSet(f, S) \in Nat
    <2> HIDE DEF f, g, m, S
    <2> QED
      BY <1>2, <1>5, SumType
  <1>9. SumFunctionOnSet(g, Products) = SumFunctionOnSet(f, S)
    <2>1. \A i \in S : f[i] \in Nat /\ g[m[i]] = f[i]
      BY <1>5
    <2>2. \A p \in Products : g[p] \in Nat /\ (p \notin {m[i] : i \in S} => g[p] = 0)
      BY <1>6
    <2> HIDE DEF f, g, m, S
    <2> QED
      BY <1>2, <1>4, <2>1, <2>2, SumMapped, SaleAssumption, SMTT(30)
  <1> QED
    BY <1>7, <1>8, <1>9

\* So is what the sale sold its goods for.
LEMMA SoldByProduct ==
  ASSUME NEW s \in Sales
  PROVE  SumFunction([i \in DOMAIN SaleLines[s] |->
                        SaleLines[s][i].price * SaleLines[s][i].quantity])
           = SumFunctionOnSet([p \in Products |-> Price(s, p) * Sold(s, p)], Products)
  <1> DEFINE S == DOMAIN SaleLines[s]
             m == [i \in S |-> SaleLines[s][i].product]
             f == [i \in S |-> SaleLines[s][i].price * SaleLines[s][i].quantity]
             g == [p \in Products |-> Price(s, p) * Sold(s, p)]
  <1>1. SaleLines[s] \in Seq(SaleLine)
    BY SaleAssumption
  <1>2. IsFiniteSet(S)
    <2>1. S = 1 .. Len(SaleLines[s]) /\ Len(SaleLines[s]) \in Nat
      BY <1>1
    <2> QED
      BY <2>1, FS_Interval
  <1>3. \A i \in S : /\ SaleLines[s][i].product \in Products
                     /\ SaleLines[s][i].price \in Nat
                     /\ SaleLines[s][i].quantity \in Nat
    <2>1. \A i \in S : SaleLines[s][i] \in SaleLine
      BY <1>1
    <2> QED
      BY <2>1 DEF SaleLine
  <1>4. m \in [S -> Products] /\ \A i, j \in S : m[i] = m[j] => i = j
    BY <1>3, SaleAssumption
  <1>5. ASSUME NEW i \in S
        PROVE  f[i] \in Nat /\ g[m[i]] = f[i]
    <2> DEFINE p == SaleLines[s][i].product
    <2>1. SoldLines(s, p) = {i}
      BY SaleAssumption DEF SoldLines
    <2>2. Sold(s, p) = SaleLines[s][i].quantity /\ Price(s, p) = SaleLines[s][i].price
      BY <2>1 DEF Sold, Price
    <2> QED
      BY <1>3, <2>2, TimesNat
  <1>6. ASSUME NEW p \in Products
        PROVE  g[p] \in Nat /\ (p \notin {m[i] : i \in S} => g[p] = 0)
    <2>1. Price(s, p) \in Nat /\ Sold(s, p) \in Nat
      BY PriceType, SoldType
    <2>2. ASSUME p \notin {m[i] : i \in S}
          PROVE  Sold(s, p) = 0
      <3>1. SoldLines(s, p) = {}
        BY <2>2 DEF SoldLines
      <3> QED
        BY <3>1 DEF Sold
    <2>3. \A a \in Nat : a * 0 = 0
      OBVIOUS
    <2> QED
      BY <2>1, <2>2, <2>3, TimesNat
  <1>7. SumFunction(f) = SumFunctionOnSet(f, S)
    BY DEF SumFunction
  <1>8. SumFunctionOnSet(g, Products) = SumFunctionOnSet(f, S)
    <2>1. \A i \in S : f[i] \in Nat /\ g[m[i]] = f[i]
      BY <1>5
    <2>2. \A p \in Products : g[p] \in Nat /\ (p \notin {m[i] : i \in S} => g[p] = 0)
      BY <1>6
    <2> HIDE DEF f, g, m, S
    <2> QED
      BY <1>2, <1>4, <2>1, <2>2, SumMapped, SaleAssumption, SMTT(30)
  <1> QED
    BY <1>7, <1>8

\* The adjustments of a sale are worth what its returned goods were sold for.
WorthOf(s) == [r \in AdjustmentsOf(s, returns) |-> Worth(r)]
BackOf(s) == [p \in Products |-> Price(s, p) * returned[s][p]]
AccountInv ==
  /\ \A r \in returns : Valid(r)
  /\ \A s \in Sales :
       /\ IsFiniteSet(AdjustmentsOf(s, returns))
       /\ SumFunctionOnSet(WorthOf(s), AdjustmentsOf(s, returns))
            = SumFunctionOnSet(BackOf(s), Products)

\* Nothing is worth nothing.
LEMMA AccountInvInit == Init => AccountInv
  <1> SUFFICES ASSUME Init, NEW s \in Sales
               PROVE  /\ IsFiniteSet(AdjustmentsOf(s, returns))
                      /\ SumFunctionOnSet(WorthOf(s), AdjustmentsOf(s, returns))
                           = SumFunctionOnSet(BackOf(s), Products)
    BY DEF Init, AccountInv
  <1>1. AdjustmentsOf(s, returns) = {}
    BY DEF Init, AdjustmentsOf
  <1>2. \A p \in Products : BackOf(s)[p] \in Nat /\ BackOf(s)[p] = 0
    <2>1. \A a \in Nat : a * 0 = 0
      OBVIOUS
    <2> QED
      BY <2>1, PriceType DEF Init, BackOf
  <1>3. SumFunctionOnSet(BackOf(s), Products) = 0
    BY <1>2, SumZero, SaleAssumption
  <1> QED
    BY <1>1, <1>3, SumOfNone, FS_EmptySet

\* An adjustment is worth what it adds to the returned goods of its sale.
LEMMA AccountInvNext == LedgerTypeOK /\ AccountInv /\ [Next]_ledgerVars => AccountInv'
  <1> SUFFICES ASSUME LedgerTypeOK, AccountInv, [Next]_ledgerVars
               PROVE  AccountInv'
    OBVIOUS
  <1>1. ASSUME NEW t \in Requests, NEW c \in Commands, c = cmd[t], Adjust(t)
        PROVE  AccountInv'
    <2>1. /\ c.sale \in Sales /\ Valid(c) /\ returns' = returns \cup {c}
          /\ c \notin returns
      BY <1>1 DEF Adjust, Recorded
    <2>2. \A r \in returns' : Valid(r)
      BY <2>1 DEF AccountInv
    <2>3. ASSUME NEW s \in Sales
          PROVE  /\ IsFiniteSet(AdjustmentsOf(s, returns'))
                 /\ SumFunctionOnSet(WorthOf(s)', AdjustmentsOf(s, returns'))
                      = SumFunctionOnSet(BackOf(s)', Products)
      <3> DEFINE rs == AdjustmentsOf(s, returns)
                 w == WorthOf(s)
                 v == WorthOf(s)'
                 b == BackOf(s)
                 d == BackOf(s)'
      <3>1. IsFiniteSet(rs) /\ SumFunctionOnSet(w, rs) = SumFunctionOnSet(b, Products)
        BY DEF AccountInv
      <3>2. ASSUME s # c.sale
            PROVE  AdjustmentsOf(s, returns') = rs /\ v = w /\ d = b
        <4>1. AdjustmentsOf(s, returns') = rs
          BY <2>1, <3>2 DEF AdjustmentsOf
        <4>2. \A p \in Products : returned'[s][p] = returned[s][p]
          BY <1>1, <3>2, AdjustReturns
        <4>3. v = w
          BY <4>1 DEF WorthOf
        <4>4. d = b
          BY <4>2 DEF BackOf
        <4> QED
          BY <4>1, <4>3, <4>4
      <3>3. ASSUME s = c.sale
            PROVE  /\ IsFiniteSet(AdjustmentsOf(s, returns'))
                   /\ SumFunctionOnSet(v, AdjustmentsOf(s, returns'))
                        = SumFunctionOnSet(d, Products)
        <4> DEFINE g == [p \in Products |-> Price(s, p) * Given(c, p)]
        <4>1. AdjustmentsOf(s, returns') = rs \cup {c} /\ c \notin rs
          BY <2>1, <3>3 DEF AdjustmentsOf
        <4>2. \A r \in rs \cup {c} : v[r] = Worth(r) /\ Worth(r) \in Nat
          <5>1. \A r \in rs \cup {c} : r \in Commands /\ r.sale \in Sales /\ Valid(r)
            BY <2>1 DEF LedgerTypeOK, Priced, AccountInv, AdjustmentsOf
          <5> QED
            BY <4>1, <5>1, WorthByProduct DEF WorthOf
        <4>3. \A r \in rs : w[r] = Worth(r)
          BY DEF WorthOf
        <4>4. \A p \in Products : b[p] \in Nat /\ g[p] \in Nat /\ d[p] = b[p] + g[p]
          <5> SUFFICES ASSUME NEW p \in Products
                       PROVE  b[p] \in Nat /\ g[p] \in Nat /\ d[p] = b[p] + g[p]
            OBVIOUS
          <5>1. Price(s, p) \in Nat /\ Given(c, p) \in Nat /\ returned[s][p] \in Nat
            BY <2>1, PriceType, GivenType DEF LedgerTypeOK
          <5>2. returned'[s][p] = returned[s][p] + Given(c, p)
            BY <1>1, <3>3, AdjustReturns
          <5>3. \A x, y, z \in Nat : x * (y + z) = x * y + x * z
            OBVIOUS
          <5> QED
            BY <5>1, <5>2, <5>3, TimesNat DEF BackOf
        <4>5. SumFunctionOnSet(g, Products) = Worth(c)
          BY <2>1, <3>3, WorthByProduct
        <4> HIDE DEF rs, w, v, b, d, g
        <4>6. SumFunctionOnSet(d, Products)
                = SumFunctionOnSet(b, Products) + SumFunctionOnSet(g, Products)
          BY <4>4, SumPlus, SaleAssumption
        <4>7. SumFunctionOnSet(v, rs \cup {c}) = v[c] + SumFunctionOnSet(v, rs)
          <5>1. \A r \in rs \cup {c} : v[r] \in Nat
            BY <4>2
          <5> QED
            BY <3>1, <4>1, <5>1, SumPuts
        <4>8. SumFunctionOnSet(v, rs) = SumFunctionOnSet(w, rs)
          BY <3>1, <4>2, <4>3, SumSame
        <4>9. SumFunctionOnSet(b, Products) \in Nat /\ Worth(c) \in Nat /\ v[c] = Worth(c)
          BY <4>2, <4>4, SumType, SaleAssumption
        <4> QED
          BY <3>1, <4>1, <4>5, <4>6, <4>7, <4>8, <4>9, FS_AddElement
      <3> QED
        BY <3>1, <3>2, <3>3
    <2> QED
      BY <2>2, <2>3 DEF AccountInv, WorthOf, BackOf
  <1>2. CASE \A t \in Requests : ~Adjust(t)
    BY <1>2, OthersKeep DEF AccountInv, WorthOf, BackOf
  <1> QED
    BY <1>1, <1>2 DEF LedgerTypeOK

\* Storing an amount changes it by half of the last decimal at most.
LEMMA StoredNear ==
  ASSUME NEW v \in Nat
  PROVE  /\ Stored(v) \in Nat
         /\ 2 * Scale * Stored(v) <= 2 * v + Scale
         /\ 2 * v <= 2 * Scale * Stored(v) + Scale
  <1> DEFINE n == 2 * Scale
             m == 2 * v + Scale
  <1>1. n \in Nat \ {0} /\ m \in Nat
    BY ReturnAssumption
  <1>2. Stored(v) = m \div n
    BY DEF Stored
  <1> HIDE DEF n, m
  <1>3. m \div n \in Nat /\ n * (m \div n) <= m /\ m <= n * (m \div n) + n
    BY <1>1
  <1>4. n * (m \div n) \in Nat
    BY <1>1, <1>3, TimesNat
  <1> QED
    BY <1>2, <1>3, <1>4, ReturnAssumption DEF n, m

\* The answers that callers of one command can get are near one another.
LEMMA ToldNear ==
  ASSUME NEW c \in Commands, c.sale \in Sales, Valid(c),
         NEW v \in {ToldFirst(c), ToldAgain(c)}, NEW w \in {ToldFirst(c), ToldAgain(c)}
  PROVE  2 * v <= 2 * w + Scale /\ 2 * Refund(c, v) <= 2 * Refund(c, w) + Scale
  <1>1. Worth(c) \in Nat
    BY WorthByProduct
  <1> DEFINE a == Worth(c)
             b == Stored(a)
             e == b * Scale
  <1>2. /\ b \in Nat
        /\ 2 * Scale * b <= 2 * a + Scale
        /\ 2 * a <= 2 * Scale * b + Scale
    BY <1>1, StoredNear
  <1>3. v \in {a, e} /\ w \in {a, e}
    BY DEF ToldFirst, ToldAgain
  <1>4. a \in Nat
    BY <1>1
  <1> HIDE DEF a, b
  <1>5. e \in Nat /\ 2 * Scale * b = 2 * e
    BY <1>2, TimesNat, ReturnAssumption
  <1> HIDE DEF e
  <1>6. 2 * v <= 2 * w + Scale
    BY <1>2, <1>3, <1>4, <1>5, ReturnAssumption
  <1> QED
    BY <1>6, ReturnAssumption DEF Refund

\* So are those of one key, for one adjustment is recorded under it.
LEMMA AnswersNear ==
  ASSUME LedgerTypeOK, ReturnedOnce, AccountInv, AnswerInv
  PROVE  ReturnsDurable
  <1> DEFINE told == {t \in Requests : answer[t].outcome \in {"created", "replayed"}}
  <1>0. \A t \in told : \E r \in Repeated(cmd[t], returns) :
          answer[t].value \in {ToldFirst(r), ToldAgain(r)}
    BY DEF AnswerInv, Repeated, Recorded
  <1>1. ASSUME NEW t \in told, NEW u \in told, cmd[t].key = cmd[u].key
        PROVE  /\ answer[t].outcome = "created" /\ answer[u].outcome = "created" => t = u
               /\ 2 * answer[t].value <= 2 * answer[u].value + Scale
               /\ 2 * answer[t].refunded <= 2 * answer[u].refunded + Scale
    <2>1. PICK r \in Repeated(cmd[t], returns) : answer[t].value \in {ToldFirst(r), ToldAgain(r)}
      BY <1>0
    <2>2. PICK q \in Repeated(cmd[u], returns) : answer[u].value \in {ToldFirst(q), ToldAgain(q)}
      BY <1>0
    <2>3. r \in returns /\ q \in returns /\ r.key = cmd[t].key /\ q.key = cmd[u].key
      BY <2>1, <2>2 DEF Repeated, Recorded
    <2>4. q = r
      BY <1>1, <2>3 DEF ReturnedOnce
    <2>5. r \in Commands /\ r.sale \in Sales /\ Valid(r)
      BY <2>3 DEF LedgerTypeOK, Priced, AccountInv
    <2>6. r.resolution = cmd[t].resolution /\ r.resolution = cmd[u].resolution
      BY <2>1, <2>2, <2>4 DEF Repeated, Digest
    <2>7. /\ answer[t].refunded = Refund(r, answer[t].value)
          /\ answer[u].refunded = Refund(r, answer[u].value)
      BY <2>6 DEF AnswerInv, Refund
    <2>8. answer[t].outcome = "created" /\ answer[u].outcome = "created" => t = u
      BY <1>1 DEF AnswerInv
    <2> QED
      BY <2>1, <2>2, <2>4, <2>5, <2>7, <2>8, ToldNear
  <1>2. \A t \in told : Repeated(cmd[t], returns) # {}
    BY <1>0
  <1> QED
    BY <1>1, <1>2 DEF ReturnsDurable

\* What a caller was told was carried out is recorded and stays so, and all callers of
\* its key are told the same but for what storing rounds.
THEOREM ReturnsDurableHolds == Spec => []ReturnsDurable
  BY AnswersNear, AnswerInvInit, AnswerInvNext, AccountInvInit, AccountInvNext,
     ReturnedOnceHolds, LedgerTypeCorrect, PTL DEF Spec

\* The bound on the refunds of a sale.
LEMMA AccountGivesRounding ==
  ASSUME LedgerTypeOK, NeverOverReturned, AccountInv
  PROVE  RefundsWithinRounding
  <1> SUFFICES ASSUME NEW s \in Sales
               PROVE  LET rs == AdjustmentsOf(s, returns)
                          paid == SumFunction([r \in rs |-> Refund(r, Stored(Worth(r)))])
                          worth == SumFunction([i \in DOMAIN SaleLines[s] |->
                                     SaleLines[s][i].price * SaleLines[s][i].quantity])
                      IN  2 * Scale * paid <= 2 * worth + Scale * Cardinality(rs)
    BY DEF RefundsWithinRounding
  <1> DEFINE rs == AdjustmentsOf(s, returns)
             f == [r \in rs |-> Refund(r, Stored(Worth(r)))]
             w == WorthOf(s)
             b == BackOf(s)
             g == [p \in Products |-> Price(s, p) * Sold(s, p)]
             lines == [i \in DOMAIN SaleLines[s] |->
                         SaleLines[s][i].price * SaleLines[s][i].quantity]
  <1>1. IsFiniteSet(rs) /\ SumFunctionOnSet(w, rs) = SumFunctionOnSet(b, Products)
    BY DEF AccountInv
  <1>2. ASSUME NEW r \in rs
        PROVE  f[r] \in Nat /\ w[r] \in Nat /\ (2 * Scale) * f[r] <= 2 * w[r] + Scale
    <2>1. r \in Commands /\ r.sale \in Sales /\ Valid(r)
      BY DEF LedgerTypeOK, Priced, AccountInv, AdjustmentsOf
    <2>2. w[r] = Worth(r) /\ Worth(r) \in Nat
      BY <2>1, WorthByProduct DEF WorthOf
    <2>3. /\ Stored(Worth(r)) \in Nat
          /\ (2 * Scale) * Stored(Worth(r)) <= 2 * Worth(r) + Scale
      BY <2>2, StoredNear
    <2>4. f[r] = Stored(Worth(r)) \/ f[r] = 0
      BY DEF Refund
    <2>5. (2 * Scale) * 0 = 0 /\ Scale \in Nat
      BY ReturnAssumption
    <2> HIDE DEF f, w
    <2> QED
      BY <2>2, <2>3, <2>4, <2>5
  <1>3. ASSUME NEW p \in Products
        PROVE  b[p] \in Nat /\ g[p] \in Nat /\ b[p] <= g[p]
    <2>1. /\ Price(s, p) \in Nat /\ Sold(s, p) \in Nat /\ returned[s][p] \in Nat
          /\ returned[s][p] <= Sold(s, p)
      BY PriceType, SoldType DEF LedgerTypeOK, NeverOverReturned
    <2>2. \A x, y, z \in Nat : y <= z => x * y <= x * z
      OBVIOUS
    <2> QED
      BY <2>1, <2>2, TimesNat DEF BackOf
  <1>4. SumFunction(f) = SumFunctionOnSet(f, rs)
    BY DEF SumFunction
  <1>5. SumFunction(lines) = SumFunctionOnSet(g, Products)
    BY SoldByProduct
  <1> HIDE DEF rs, f, w, b, g, lines
  <1>6. SumFunctionOnSet(b, Products) <= SumFunctionOnSet(g, Products)
    BY <1>3, SumLeq, SaleAssumption
  <1>7. 2 * Scale \in Nat /\ Scale \in Nat
    BY ReturnAssumption
  <1>8. (2 * Scale) * SumFunctionOnSet(f, rs)
          <= 2 * SumFunctionOnSet(w, rs) + Scale * Cardinality(rs)
    <2> DEFINE n == 2 * Scale
    <2>1. n \in Nat /\ \A r \in rs : n * f[r] <= 2 * w[r] + Scale
      BY <1>2, <1>7
    <2> HIDE DEF n
    <2>2. n * SumFunctionOnSet(f, rs) <= 2 * SumFunctionOnSet(w, rs) + Scale * Cardinality(rs)
      BY <1>1, <1>2, <1>7, <2>1, SumWithin
    <2> QED
      BY <2>2 DEF n
  <1>9. /\ SumFunctionOnSet(b, Products) \in Nat /\ SumFunctionOnSet(g, Products) \in Nat
        /\ SumFunctionOnSet(f, rs) \in Nat
        /\ Cardinality(rs) \in Nat
    BY <1>1, <1>2, <1>3, SumType, SaleAssumption, FS_CardinalityType
  <1>10. (2 * Scale) * SumFunctionOnSet(f, rs) \in Nat /\ Scale * Cardinality(rs) \in Nat
    BY <1>7, <1>9, TimesNat
  <1>11. (2 * Scale) * SumFunctionOnSet(f, rs)
           <= 2 * SumFunctionOnSet(g, Products) + Scale * Cardinality(rs)
    BY <1>1, <1>6, <1>8, <1>9, <1>10
  <1> QED
    BY <1>4, <1>5, <1>11 DEF rs, f, lines

\* What a sale has refunded in parts is what its goods were sold for, but for the rounding.
THEOREM RefundsWithinRoundingHolds == Spec => []RefundsWithinRounding
  BY AccountGivesRounding, AccountInvInit, AccountInvNext, NeverOverReturnedHolds,
     LedgerTypeCorrect, PTL DEF Spec

-------------------------------------------------------------------------------
(* What an adjustment gives back *)

\* Every sale sold something.
LEMMA SoldSomething ==
  ASSUME NEW s \in Sales
  PROVE  \E p \in Products : Sold(s, p) > 0
  <1>1. SaleLines[s] \in Seq(SaleLine) /\ SaleLines[s] # << >>
    BY SaleAssumption
  <1>2. 1 \in DOMAIN SaleLines[s]
    BY <1>1
  <1> DEFINE p == SaleLines[s][1].product
             i == CHOOSE i \in SoldLines(s, p) : TRUE
  <1>3. \A j \in DOMAIN SaleLines[s] : SaleLines[s][j] \in SaleLine
    BY <1>1
  <1>4. p \in Products /\ 1 \in SoldLines(s, p)
    BY <1>2, <1>3 DEF SaleLine, SoldLines
  <1>5. i \in SoldLines(s, p)
    BY <1>4
  <1> HIDE DEF i
  <1>6. SaleLines[s][i].quantity > 0
    <2>1. SaleLines[s][i] \in SaleLine
      BY <1>3, <1>5 DEF SoldLines
    <2> QED
      BY <2>1 DEF SaleLine
  <1>7. Sold(s, p) = SaleLines[s][i].quantity
    BY <1>4 DEF Sold, i
  <1> QED
    BY <1>4, <1>6, <1>7

\* Every adjustment that can be carried out gives something back.
LEMMA GivesSomething ==
  ASSUME NEW c \in Commands, c.sale \in Sales, Valid(c)
  PROVE  \E p \in Products : Given(c, p) > 0
  <1>1. c.kind \in {"RETURN", "VOID"}
    BY ReturnAssumption DEF Command
  <1>2. CASE c.kind = "VOID"
    <2>1. PICK p \in Products : Sold(c.sale, p) > 0
      BY SoldSomething
    <2> QED
      BY <1>2, <2>1, VoidGivesAll
  <1>3. CASE c.kind = "RETURN"
    <2>1. /\ EffectiveLines(c) = c.lines /\ c.lines \in Seq(ReturnLine) /\ c.lines # << >>
          /\ \A i \in DOMAIN c.lines : c.lines[i].quantity > 0
      BY <1>3, ReturnAssumption DEF EffectiveLines, Valid, Command
    <2>2. \A i \in DOMAIN c.lines : c.lines[i] \in ReturnLine
      BY <2>1
    <2> DEFINE p == c.lines[1].product
               i == CHOOSE i \in GivenLines(c, p) : TRUE
    <2>3. 1 \in DOMAIN c.lines
      BY <2>1
    <2>4. p \in Products /\ 1 \in GivenLines(c, p)
      BY <2>1, <2>2, <2>3 DEF ReturnLine, GivenLines
    <2>5. i \in GivenLines(c, p)
      BY <2>4
    <2>6. QuantityOf(c, i) > 0
      BY <2>1, <2>5 DEF QuantityOf, GivenLines
    <2>7. Given(c, p) = QuantityOf(c, i)
      BY <2>4 DEF Given
    <2> QED
      BY <2>4, <2>6, <2>7
  <1> QED
    BY <1>1, <1>2, <1>3

\* Each recorded adjustment has given something of its sale back.
GaveBack == \A a \in returns : \E p \in Products : returned[a.sale][p] > 0

\* Nothing has adjusted anything at first.
LEMMA GaveBackInit == Init => GaveBack
  BY DEF Init, GaveBack

\* An adjustment gives something back, and nothing takes it away again.
LEMMA GaveBackNext == LedgerTypeOK /\ GaveBack /\ [Next]_ledgerVars => GaveBack'
  <1> SUFFICES ASSUME LedgerTypeOK, GaveBack, [Next]_ledgerVars
               PROVE  GaveBack'
    OBVIOUS
  <1>1. ASSUME NEW t \in Requests, Adjust(t)
        PROVE  GaveBack'
    <2> DEFINE c == cmd[t]
    <2>1. c \in Commands /\ c.sale \in Sales /\ Valid(c) /\ returns' = returns \cup {c}
      BY <1>1 DEF LedgerTypeOK, Adjust
    <2>2. ASSUME NEW s \in Sales, NEW p \in Products
          PROVE  returned'[s][p] >= returned[s][p]
      <3>1. Given(c, p) \in Nat /\ returned[s][p] \in Nat
        BY <2>1, GivenType DEF LedgerTypeOK
      <3> QED
        BY <1>1, <3>1, AdjustReturns
    <2>3. \A a \in returns : a.sale \in Sales /\ \E p \in Products : returned[a.sale][p] > 0
      BY DEF LedgerTypeOK, Priced, GaveBack
    <2>4. \E p \in Products : returned'[c.sale][p] > 0
      <3>1. PICK p \in Products : Given(c, p) > 0
        BY <2>1, GivesSomething
      <3>2. returned[c.sale][p] \in Nat /\ Given(c, p) \in Nat
        BY <2>1, GivenType DEF LedgerTypeOK
      <3> QED
        BY <1>1, <2>1, <3>1, <3>2, AdjustReturns
    <2>5. ASSUME NEW a \in returns
          PROVE  \E p \in Products : returned'[a.sale][p] > 0
      <3>1. a.sale \in Sales
        BY <2>3
      <3>2. PICK p \in Products : returned[a.sale][p] > 0
        BY <2>3
      <3>3. returned[a.sale][p] \in Nat /\ returned'[a.sale][p] >= returned[a.sale][p]
        BY <2>2, <3>1 DEF LedgerTypeOK
      <3>4. returned'[a.sale][p] \in Nat
        BY <3>1, LedgerTypeOKNext DEF LedgerTypeOK
      <3> QED
        BY <3>2, <3>3, <3>4
    <2> QED
      BY <2>1, <2>4, <2>5 DEF GaveBack
  <1>2. CASE \A t \in Requests : ~Adjust(t)
    BY <1>2, OthersKeep DEF GaveBack
  <1> QED
    BY <1>1, <1>2

-------------------------------------------------------------------------------
\* The invariants together, as a refinement of this module needs them.
LedgerInv ==
  /\ LedgerTypeOK /\ NeverOverReturned /\ VoidInv /\ CreditChain /\ ReturnedOnce
  /\ AnswerInv /\ AccountInv /\ GaveBack

\* They hold at first.
LEMMA LedgerInvInit ==
  ASSUME Init
  PROVE  LedgerInv
  BY LedgerTypeOKInit, NeverOverReturnedInit, VoidInvInit, CreditChainInit,
     ReturnedOnceInit, AnswerInvInit, AccountInvInit, GaveBackInit
  DEF LedgerInv

\* Every step keeps them.
LEMMA LedgerInvNext ==
  ASSUME LedgerInv, [Next]_ledgerVars
  PROVE  LedgerInv'
  BY LedgerTypeOKNext, NeverOverReturnedNext, VoidInvNext, CreditChainNext,
     ReturnedOnceNext, AnswerInvNext, AccountInvNext, GaveBackNext
  DEF LedgerInv

-------------------------------------------------------------------------------
(* Receipts *)

\* The returned quantity is 0 exactly if nothing has come back,
LEMMA QuantityNone ==
  ASSUME NEW q \in [Products -> Nat]
  PROVE  SumFunction(q) = 0 <=> \A p \in Products : q[p] = 0
  BY SumZero, SaleAssumption DEF SumFunction

\* and that of the sale exactly if all has.
LEMMA QuantityAll ==
  ASSUME NEW q \in [Products -> Nat], NEW s \in Sales, \A p \in Products : q[p] <= Sold(s, p)
  PROVE  SumFunction(q) = SoldQuantity(s) <=> \A p \in Products : q[p] = Sold(s, p)
  <1> DEFINE all == [p \in Products |-> Sold(s, p)]
  <1>1. \A p \in Products : q[p] \in Nat /\ all[p] \in Nat /\ q[p] <= all[p]
    BY SoldType
  <1>2. SoldQuantity(s) = SumFunctionOnSet(all, Products)
    BY DEF SoldQuantity, SumFunction
  <1>3. SumFunction(q) = SumFunctionOnSet(q, Products)
    BY DEF SumFunction
  <1>4. \A p \in Products : all[p] = Sold(s, p)
    OBVIOUS
  <1> HIDE DEF all
  <1>5. SumFunctionOnSet(q, Products) = SumFunctionOnSet(all, Products)
          => \A p \in Products : q[p] = all[p]
    BY <1>1, SumLeq, SaleAssumption
  <1>6. (\A p \in Products : q[p] = all[p])
          => SumFunctionOnSet(q, Products) = SumFunctionOnSet(all, Products)
    BY <1>1, SumSame, SaleAssumption
  <1> QED
    BY <1>2, <1>3, <1>4, <1>5, <1>6

\* What a receipt can say.
Statuses == {"CONFIRMED", "PARTIALLY_RETURNED", "RETURNED", "VOIDED"}

\* What the status that a receipt shows says of its sale from then on.
TellsTrue(m) ==
  /\ m.status \in Statuses
  /\ m.status = "CONFIRMED" => m.adjustments = {}
  /\ m.status = "VOIDED" <=> VoidsOf(m.sale, m.adjustments) # {}
  /\ m.status = "PARTIALLY_RETURNED" =>
       /\ VoidsOf(m.sale, returns) = {}
       /\ \E p \in Products : returned[m.sale][p] > 0
  /\ m.status = "RETURNED" => \A p \in Products : returned[m.sale][p] = Sold(m.sale, p)

\* What a call knows at each of its steps.
ReadsTrue(m) ==
  /\ m.step # "sale" => m.sale \in Sales
  /\ m.adjustments \subseteq AdjustmentsOf(m.sale, returns)
  /\ m.step = "done" => TellsTrue(m)

\* A call of get_sale_receipt.
Call == [step : {"sale", "adjustments", "quantity", "done"}, sale : Sales \cup {NoSale},
         adjustments : SUBSET Commands, status : Statuses \cup {"unknown"}]

\* The inductive invariant of the receipts.
ReceiptInv ==
  /\ receipt \in [Readers -> Call]
  /\ LedgerInv
  /\ \A r \in Readers : ReadsTrue(receipt[r])

\* Nobody has read anything at first.
LEMMA ReceiptInvInit == ReceiptInit => ReceiptInv
  <1> SUFFICES ASSUME ReceiptInit
               PROVE  ReceiptInv
    OBVIOUS
  <1>1. LedgerInv
    BY LedgerInvInit DEF ReceiptInit
  <1>2. receipt \in [Readers -> Call]
    BY DEF ReceiptInit, Call
  <1>3. \A r \in Readers : ReadsTrue(receipt[r])
    BY DEF ReceiptInit, ReadsTrue
  <1> QED
    BY <1>1, <1>2, <1>3 DEF ReceiptInv

\* What the returns may still do to a sale takes nothing back from what a call has read.
LEMMA ReadsStayTrue ==
  ASSUME LedgerInv, [Next]_ledgerVars, NEW m \in Call, ReadsTrue(m)
  PROVE  ReadsTrue(m)'
  <1>1. ASSUME NEW t \in Requests, Adjust(t)
        PROVE  ReadsTrue(m)'
    <2> DEFINE c == cmd[t]
    <2>1. c \in Commands /\ c.sale \in Sales /\ ~Adjusted(c, returns) /\ returns' = returns \cup {c}
      BY <1>1 DEF LedgerInv, LedgerTypeOK, Adjust
    <2>2. m.adjustments \subseteq AdjustmentsOf(m.sale, returns')
      BY <2>1 DEF ReadsTrue, AdjustmentsOf
    <2>3. LedgerInv'
      BY LedgerInvNext
    <2>4. ASSUME m.step = "done"
          PROVE  TellsTrue(m)'
      <3> DEFINE s == m.sale
      <3>1. TellsTrue(m) /\ s \in Sales
        BY <2>4 DEF ReadsTrue
      <3>2. \A p \in Products : /\ returned[s][p] \in Nat /\ returned'[s][p] \in Nat
                                /\ returned'[s][p] >= returned[s][p]
        <4>1. \A p \in Products : Given(c, p) \in Nat
          BY <2>1, GivenType
        <4>2. \A p \in Products : returned[s][p] \in Nat
          BY <3>1 DEF LedgerInv, LedgerTypeOK
        <4> QED
          BY <1>1, <3>1, <4>1, <4>2, AdjustReturns DEF LedgerInv
      <3>3. ASSUME m.status = "PARTIALLY_RETURNED"
            PROVE  /\ VoidsOf(s, returns') = {}
                   /\ \E p \in Products : returned'[s][p] > 0
        <4>1. PICK p \in Products : returned[s][p] > 0
          BY <3>1, <3>3 DEF TellsTrue
        <4>2. AdjustmentsOf(s, returns) # {}
          BY <3>1, <4>1 DEF LedgerInv, VoidInv
        <4>3. c.sale = s => c.kind # "VOID"
          BY <2>1, <4>2 DEF Adjusted
        <4>4. VoidsOf(s, returns') = {}
          BY <2>1, <3>1, <3>3, <4>3 DEF TellsTrue, VoidsOf, AdjustmentsOf
        <4>5. returned'[s][p] > 0
          BY <3>2, <4>1
        <4> QED
          BY <4>4, <4>5
      <3>4. ASSUME m.status = "RETURNED", NEW p \in Products
            PROVE  returned'[s][p] = Sold(s, p)
        <4>1. returned[s][p] = Sold(s, p)
          BY <3>1, <3>4 DEF TellsTrue
        <4>2. returned'[s][p] <= Sold(s, p)
          BY <2>3, <3>1 DEF LedgerInv, NeverOverReturned
        <4> QED
          BY <3>2, <4>1, <4>2
      <3> QED
        BY <3>1, <3>3, <3>4 DEF TellsTrue
    <2> QED
      BY <2>2, <2>4 DEF ReadsTrue
  <1>2. CASE \A t \in Requests : ~Adjust(t)
    BY <1>2, OthersKeep DEF ReadsTrue, TellsTrue
  <1> QED
    BY <1>1, <1>2

\* What a call that reads the returned quantity can say.
LEMMA StatusTells ==
  ASSUME LedgerInv, NEW s \in Sales, NEW adjs, adjs \subseteq AdjustmentsOf(s, returns)
  PROVE  LET st == StatusOf(s, adjs, SumFunction(returned[s])) IN
         /\ st \in Statuses
         /\ st = "CONFIRMED" <=> \A p \in Products : returned[s][p] = 0
         /\ st = "CONFIRMED" => adjs = {}
         /\ st = "VOIDED" <=> VoidsOf(s, adjs) # {}
         /\ st = "PARTIALLY_RETURNED" => VoidsOf(s, returns) = {}
         /\ st = "RETURNED" => \A p \in Products : returned[s][p] = Sold(s, p)
         /\ (\A p \in Products : returned[s][p] = Sold(s, p)) => st \in {"RETURNED", "VOIDED"}
  <1> DEFINE q == SumFunction(returned[s])
             st == StatusOf(s, adjs, q)
             none == \A p \in Products : returned[s][p] = 0
             all == \A p \in Products : returned[s][p] = Sold(s, p)
  <1>1. /\ returned[s] \in [Products -> Nat]
        /\ \A p \in Products : returned[s][p] <= Sold(s, p)
    BY DEF LedgerInv, LedgerTypeOK, NeverOverReturned
  <1>2. q = 0 <=> none
    BY <1>1, QuantityNone
  <1>3. q = SoldQuantity(s) <=> all
    BY <1>1, QuantityAll
  <1>4. ~(none /\ all)
    <2>1. PICK p \in Products : Sold(s, p) > 0
      BY SoldSomething
    <2> QED
      BY <2>1
  <1>5. ASSUME NEW a \in adjs
        PROVE  a \in returns /\ a.sale = s /\ ~none
    <2>1. a \in returns /\ a.sale = s
      BY DEF AdjustmentsOf
    <2> QED
      BY <1>1, <2>1 DEF LedgerInv, GaveBack
  <1>6. VoidsOf(s, returns) # {} => all
    BY DEF VoidsOf, AdjustmentsOf, LedgerInv, VoidInv, VoidStandsAlone
  <1>7. VoidsOf(s, adjs) # {} <=> \E a \in adjs : a.kind = "VOID"
    BY <1>5 DEF VoidsOf, AdjustmentsOf
  <1>8. VoidsOf(s, adjs) # {} => all
    BY <1>5, <1>6 DEF VoidsOf, AdjustmentsOf
  <1> HIDE DEF q, none, all
  <1>9. /\ st \in Statuses
        /\ st = "CONFIRMED" <=> none
        /\ st = "VOIDED" <=> VoidsOf(s, adjs) # {}
        /\ st = "RETURNED" => all
        /\ st = "PARTIALLY_RETURNED" => ~all
        /\ all => st \in {"RETURNED", "VOIDED"}
    BY <1>2, <1>3, <1>4, <1>7, <1>8 DEF StatusOf, Statuses
  <1> HIDE DEF st
  <1> QED
    BY <1>5, <1>6, <1>9 DEF none, all, st, q

\* Neither a return nor a read makes a receipt untrue.
LEMMA ReceiptInvNext == ReceiptInv /\ [ReceiptNext]_receiptVars => ReceiptInv'
  <1> SUFFICES ASSUME ReceiptInv, [ReceiptNext]_receiptVars
               PROVE  ReceiptInv'
    OBVIOUS
  <1>1. CASE (Next /\ UNCHANGED receipt) \/ UNCHANGED receiptVars
    <2>1. [Next]_ledgerVars /\ receipt' = receipt
      BY <1>1 DEF receiptVars
    <2>2. LedgerInv'
      BY <2>1, LedgerInvNext DEF ReceiptInv
    <2>3. ASSUME NEW r \in Readers
          PROVE  ReadsTrue(receipt[r])'
      <3>1. \A m \in Call : ReadsTrue(m) => ReadsTrue(m)'
        BY <2>1, ReadsStayTrue DEF ReceiptInv
      <3>2. receipt[r] \in Call /\ ReadsTrue(receipt[r]) /\ receipt'[r] = receipt[r]
        BY <2>1 DEF ReceiptInv
      <3> QED
        BY <3>1, <3>2 DEF ReadsTrue, TellsTrue
    <2> QED
      BY <2>1, <2>2, <2>3 DEF ReceiptInv
  <1>2. ASSUME NEW r \in Readers,
               \/ \E s \in Sales \cup {NoSale} : ReadSale(r, s)
               \/ ReadAdjustments(r)
               \/ ReadQuantity(r)
        PROVE  ReceiptInv'
    <2>1. UNCHANGED ledgerVars
      BY <1>2 DEF ReadSale, ReadAdjustments, ReadQuantity
    <2>2. LedgerInv'
      BY <2>1, LedgerInvNext DEF ReceiptInv
    <2>3. \A m : ReadsTrue(m)' <=> ReadsTrue(m)
      BY <2>1 DEF ReadsTrue, TellsTrue, ledgerVars
    <2>4. receipt[r] \in Call /\ ReadsTrue(receipt[r])
      BY DEF ReceiptInv
    <2>5. ASSUME NEW m \in Call, ReadsTrue(m), receipt' = [receipt EXCEPT ![r] = m]
          PROVE  ReceiptInv'
      BY <2>2, <2>3, <2>5 DEF ReceiptInv
    <2>6. ASSUME NEW s \in Sales \cup {NoSale}, ReadSale(r, s)
          PROVE  ReceiptInv'
      <3> DEFINE m == [step |-> IF Exists(s) THEN "adjustments" ELSE "sale", sale |-> s,
                       adjustments |-> {}, status |-> "unknown"]
      <3>1. m \in Call /\ ReadsTrue(m) /\ receipt' = [receipt EXCEPT ![r] = m]
        BY <2>6 DEF ReadSale, Exists, Call, ReadsTrue
      <3> QED
        BY <2>5, <3>1
    <2>7. CASE ReadAdjustments(r)
      <3> DEFINE m == [receipt[r] EXCEPT !.step = "quantity",
                                         !.adjustments = AdjustmentsOf(receipt[r].sale, returns)]
      <3>1. AdjustmentsOf(receipt[r].sale, returns) \in SUBSET Commands
        BY DEF ReceiptInv, LedgerInv, LedgerTypeOK, Priced, AdjustmentsOf
      <3>2. m \in Call /\ m.sale = receipt[r].sale /\ m.step = "quantity"
            /\ m.adjustments = AdjustmentsOf(receipt[r].sale, returns)
        BY <2>4, <3>1 DEF Call
      <3>3. receipt[r].sale \in Sales
        BY <2>4, <2>7 DEF ReadAdjustments, ReadsTrue
      <3>4. receipt' = [receipt EXCEPT ![r] = m]
        BY <2>7 DEF ReadAdjustments
      <3> HIDE DEF m
      <3>5. ReadsTrue(m)
        BY <3>2, <3>3 DEF ReadsTrue
      <3> QED
        BY <2>5, <3>2, <3>4, <3>5
    <2>8. CASE ReadQuantity(r)
      <3> DEFINE s == receipt[r].sale
                 st == StatusOf(s, receipt[r].adjustments, SumFunction(returned[s]))
                 m == [receipt[r] EXCEPT !.step = "done", !.status = st]
      <3>1. s \in Sales /\ receipt[r].adjustments \subseteq AdjustmentsOf(s, returns)
        BY <2>4, <2>8 DEF ReadQuantity, ReadsTrue
      <3>2. receipt' = [receipt EXCEPT ![r] = m]
        BY <2>8 DEF ReadQuantity, ReturnedQuantity
      <3>3. /\ st \in Statuses
            /\ st = "CONFIRMED" <=> \A p \in Products : returned[s][p] = 0
            /\ st = "CONFIRMED" => receipt[r].adjustments = {}
            /\ st = "VOIDED" <=> VoidsOf(s, receipt[r].adjustments) # {}
            /\ st = "PARTIALLY_RETURNED" => VoidsOf(s, returns) = {}
            /\ st = "RETURNED" => \A p \in Products : returned[s][p] = Sold(s, p)
        BY <3>1, StatusTells DEF ReceiptInv
      <3> HIDE DEF st
      <3>4. m \in Call /\ m.sale = s /\ m.adjustments = receipt[r].adjustments /\ m.status = st
        BY <2>4, <3>3 DEF Call
      <3> HIDE DEF m, s
      <3>5. \A p \in Products : returned[s][p] \in Nat
        BY <3>1 DEF ReceiptInv, LedgerInv, LedgerTypeOK
      <3>6. TellsTrue(m)
        BY <3>3, <3>4, <3>5 DEF TellsTrue
      <3>7. ReadsTrue(m)
        BY <3>1, <3>4, <3>6 DEF ReadsTrue
      <3> QED
        BY <2>5, <3>2, <3>4, <3>7
    <2> QED
      BY <1>2, <2>6, <2>7, <2>8
  <1> QED
    BY <1>1, <1>2 DEF ReceiptNext

\* The status of a receipt agrees with its list and with the sale.
THEOREM ReceiptsAreTrue == ReceiptSpec => []ReceiptTrue
  <1>1. ReceiptInv => ReceiptTrue
    BY DEF ReceiptInv, ReadsTrue, TellsTrue, ReceiptTrue, Shown, Call
  <1> QED
    BY <1>1, ReceiptInvInit, ReceiptInvNext, PTL DEF ReceiptSpec

\* No receipt shows an earlier stage of its sale than one that was shown before.
THEOREM ReceiptsOnlyAdvance == ReceiptSpec => ReceiptsAdvance
  <1> DEFINE Advance == \A r \in Readers, u \in Shown :
               /\ receipt'[r].step = "done"
               /\ receipt[r].step # "done"
               /\ receipt'[r].sale = receipt[u].sale
               => Stage(receipt'[r].status) >= Stage(receipt[u].status)
  <1>1. ReceiptInv /\ [ReceiptNext]_receiptVars => [Advance]_receiptVars
    <2> SUFFICES ASSUME ReceiptInv, ReceiptNext, NEW r \in Readers, NEW u \in Shown,
                        receipt'[r].step = "done", receipt[r].step # "done",
                        receipt'[r].sale = receipt[u].sale
                 PROVE  Stage(receipt'[r].status) >= Stage(receipt[u].status)
      OBVIOUS
    <2>1. ReadQuantity(r)
      <3>1. \A v \in Readers, s \in Sales \cup {NoSale} :
              ReadSale(v, s) => receipt'[v].step # "done" /\ (v # r => receipt'[r] = receipt[r])
        BY DEF ReadSale, ReceiptInv
      <3>2. \A v \in Readers :
              ReadAdjustments(v) => receipt'[v].step # "done" /\ (v # r => receipt'[r] = receipt[r])
        BY DEF ReadAdjustments, ReceiptInv, Call
      <3>3. \A v \in Readers : ReadQuantity(v) => (v # r => receipt'[r] = receipt[r])
        BY DEF ReadQuantity, ReceiptInv
      <3> QED
        BY <3>1, <3>2, <3>3 DEF ReceiptNext
    <2> DEFINE s == receipt[r].sale
               st == StatusOf(s, receipt[r].adjustments, SumFunction(returned[s]))
    <2>2. /\ s \in Sales /\ receipt[r].adjustments \subseteq AdjustmentsOf(s, returns)
          /\ receipt'[r].sale = s /\ receipt'[r].status = st
      BY <2>1 DEF ReadQuantity, ReturnedQuantity, ReceiptInv, ReadsTrue, Call
    <2>3. /\ st \in Statuses
          /\ st = "CONFIRMED" <=> \A p \in Products : returned[s][p] = 0
          /\ (\A p \in Products : returned[s][p] = Sold(s, p)) => st \in {"RETURNED", "VOIDED"}
      BY <2>2, StatusTells DEF ReceiptInv
    <2>4. TellsTrue(receipt[u]) /\ receipt[u].sale = s
          /\ receipt[u].adjustments \subseteq AdjustmentsOf(s, returns)
      BY <2>2 DEF ReceiptInv, ReadsTrue, Shown
    <2> HIDE DEF st, s
    <2>5. CASE receipt[u].status = "CONFIRMED"
      BY <2>2, <2>3, <2>5 DEF Stage, Statuses
    <2>6. CASE receipt[u].status = "PARTIALLY_RETURNED"
      <3>1. \E p \in Products : returned[s][p] > 0
        BY <2>4, <2>6 DEF TellsTrue
      <3>2. st # "CONFIRMED"
        BY <2>3, <3>1
      <3> QED
        BY <2>2, <2>3, <2>6, <3>2 DEF Stage, Statuses
    <2>7. CASE receipt[u].status \in {"RETURNED", "VOIDED"}
      <3>1. \A p \in Products : returned[s][p] = Sold(s, p)
        <4>1. CASE receipt[u].status = "RETURNED"
          BY <2>4, <4>1 DEF TellsTrue
        <4>2. CASE receipt[u].status = "VOIDED"
          <5>1. PICK a \in receipt[u].adjustments : a.kind = "VOID"
            BY <2>4, <4>2 DEF TellsTrue, VoidsOf, AdjustmentsOf
          <5>2. a \in returns /\ a.sale = s
            BY <2>4, <5>1 DEF AdjustmentsOf
          <5> QED
            BY <5>1, <5>2 DEF ReceiptInv, LedgerInv, VoidInv, VoidStandsAlone
        <4> QED
          BY <2>7, <4>1, <4>2
      <3>2. st \in {"RETURNED", "VOIDED"}
        BY <2>3, <3>1
      <3> QED
        BY <2>2, <2>7, <3>2 DEF Stage
    <2> QED
      BY <2>4, <2>5, <2>6, <2>7 DEF TellsTrue, Statuses
  <1> QED
    BY <1>1, ReceiptInvInit, ReceiptInvNext, PTL DEF ReceiptSpec, ReceiptsAdvance
===============================================================================
