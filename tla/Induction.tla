------------------------------ MODULE Induction ------------------------------
(***************************************************************************)
(* Induction over the numbers and over finite sets, functions defined by   *)
(* iteration and sums over finite sets, stated of sets and functions and   *)
(* not of operators, so that every prover can use them. All rests on the   *)
(* numbers being well-founded.                                             *)
(***************************************************************************)
EXTENDS Integers, FiniteSets, Functions, WellFoundedInduction, FiniteSetTheorems, TLAPS

LEMMA LeastNumber ==
  ASSUME NEW T \in SUBSET Nat, T # {}
  PROVE  \E x \in T : \A y \in T : x <= y
<1>1. IsWellFoundedOn(OpToRel(<, Nat), Nat)
  BY NatLessThanWellFounded
<1>2. PICK x \in T : \A y \in T : ~(<< y, x >> \in OpToRel(<, Nat))
  BY <1>1, WFMin
<1>3. \A y \in Nat : << y, x >> \in OpToRel(<, Nat) <=> y < x
  BY DEF OpToRel
<1>4. \A y \in T : y \in Nat
  OBVIOUS
<1>5. \A y \in T : ~(y < x)
  BY <1>2, <1>3, <1>4
<1>6. \A y \in T : x <= y
  BY <1>4, <1>5
<1> QED BY <1>6

LEMMA NumbersByInduction ==
  ASSUME NEW T \in SUBSET Nat, 0 \in T, \A n \in T : n + 1 \in T
  PROVE  T = Nat
<1> SUFFICES ASSUME Nat \ T # {} PROVE FALSE
  OBVIOUS
<1>1. PICK x \in Nat \ T : \A y \in Nat \ T : x <= y
  BY LeastNumber
<1>2. x - 1 \in T
  BY <1>1
<1> QED BY <1>1, <1>2

\* A function may be defined on the numbers by its first value and what follows each value.
Iterates(f, g, a, S) == f \in [Nat -> S] /\ f[0] = a /\ \A n \in Nat : f[n + 1] = g[f[n]]

LEMMA Iteration ==
  ASSUME NEW S, NEW a \in S, NEW g \in [S -> S]
  PROVE  \E f : Iterates(f, g, a, S)
<1> DEFINE Starts(h, n) == h \in [0 .. n -> S] /\ h[0] = a /\ \A i \in 0 .. n - 1 : h[i + 1] = g[h[i]]
           T == {n \in Nat : \E h : Starts(h, n)}
           H(n) == CHOOSE h : Starts(h, n)
<1>1. T = Nat
  <2>1. 0 \in T
    <3>1. Starts([i \in 0 .. 0 |-> a], 0)
      OBVIOUS
    <3> QED BY <3>1
  <2>2. ASSUME NEW n \in T PROVE n + 1 \in T
    <3>1. PICK h : Starts(h, n)
      OBVIOUS
    <3> DEFINE k == [i \in 0 .. n + 1 |-> IF i = n + 1 THEN g[h[n]] ELSE h[i]]
    <3>2. Starts(k, n + 1)
      <4>1. n \in Nat /\ \A i \in 0 .. n : i \in 0 .. n + 1 /\ i # n + 1
        OBVIOUS
      <4>2. \A i \in 0 .. n + 1 : i = n + 1 \/ i \in 0 .. n
        BY <4>1
      <4>3. h[n] \in S /\ g[h[n]] \in S
        BY <3>1, <4>1
      <4>4. k \in [0 .. n + 1 -> S] /\ k[0] = a
        BY <3>1, <4>1, <4>2, <4>3
      <4>5. ASSUME NEW i \in 0 .. (n + 1) - 1 PROVE k[i + 1] = g[k[i]]
        <5>1. i \in 0 .. n /\ k[i] = h[i] /\ i + 1 \in 0 .. n + 1
          BY <4>1
        <5>2. CASE i = n
          BY <5>1, <5>2
        <5>3. CASE i # n
          <6>1. i \in 0 .. n - 1 /\ i + 1 \in 0 .. n /\ i + 1 # n + 1
            BY <4>1, <5>1, <5>3
          <6> QED BY <3>1, <5>1, <6>1
        <5> QED BY <5>2, <5>3
      <4> QED BY <4>4, <4>5
    <3> HIDE DEF k
    <3> QED BY <3>2
  <2> HIDE DEF T
  <2>3. T \in SUBSET Nat
    BY DEF T
  <2> QED BY <2>1, <2>2, <2>3, NumbersByInduction
<1>2. \A n \in Nat : Starts(H(n), n)
  BY <1>1
<1> HIDE DEF H
\* They agree where they are both defined.
<1>3. ASSUME NEW n \in Nat PROVE \A i \in 0 .. n : H(n + 1)[i] = H(n)[i]
  <2> DEFINE U == {i \in Nat : i <= n => H(n + 1)[i] = H(n)[i]}
  <2>1. Starts(H(n), n) /\ Starts(H(n + 1), n + 1)
    BY <1>2
  <2>2. 0 \in U
    BY <2>1
  <2>3. ASSUME NEW i \in U PROVE i + 1 \in U
    <3> SUFFICES ASSUME i + 1 <= n PROVE H(n + 1)[i + 1] = H(n)[i + 1]
      OBVIOUS
    <3>1. i \in 0 .. n - 1 /\ i \in 0 .. (n + 1) - 1 /\ H(n + 1)[i] = H(n)[i]
      OBVIOUS
    <3> QED BY <2>1, <3>1
  <2> HIDE DEF U
  <2>4. U = Nat
    <3>1. U \in SUBSET Nat
      BY DEF U
    <3> QED BY <2>2, <2>3, <3>1, NumbersByInduction
  <2> QED BY <2>4 DEF U
<1> DEFINE f == [n \in Nat |-> H(n)[n]]
<1>4. f \in [Nat -> S] /\ f[0] = a
  <2>1. \A n \in Nat : H(n)[n] \in S
    BY <1>2
  <2>2. H(0)[0] = a
    BY <1>2
  <2> QED BY <2>1, <2>2
<1>5. ASSUME NEW n \in Nat PROVE f[n + 1] = g[f[n]]
  <2>1. H(n + 1)[n + 1] = g[H(n + 1)[n]]
    BY <1>2
  <2>2. H(n + 1)[n] = H(n)[n]
    BY <1>3
  <2> QED BY <2>1, <2>2
<1> HIDE DEF f
<1> QED BY <1>4, <1>5 DEF Iterates

-----------------------------------------------------------------------------
(* Finite sets, and sums over them. *)

LEMMA SubsetsByInduction ==
  ASSUME NEW U, IsFiniteSet(U), NEW F \in SUBSET (SUBSET U), {} \in F,
         \A T \in F : \A x \in U \ T : T \cup {x} \in F
  PROVE  F = SUBSET U
<1> DEFINE K == {n \in Nat : \A T \in SUBSET U : Cardinality(T) = n => T \in F}
<1>1. \A T \in SUBSET U : IsFiniteSet(T) /\ Cardinality(T) \in Nat
  BY FS_Subset, FS_CardinalityType
<1>2. 0 \in K
  BY <1>1, FS_EmptySet
<1>3. ASSUME NEW n \in K PROVE n + 1 \in K
  <2> SUFFICES ASSUME NEW T \in SUBSET U, Cardinality(T) = n + 1 PROVE T \in F
    OBVIOUS
  <2>1. T # {}
    <3>1. n + 1 # 0
      OBVIOUS
    <3> QED BY <3>1, FS_EmptySet
  <2>2. PICK x \in T : TRUE
    BY <2>1
  <2>3. Cardinality(T \ {x}) = n
    <3>1. Cardinality(T \ {x}) = Cardinality(T) - 1
      BY <1>1, FS_RemoveElement
    <3> QED BY <3>1
  <2>4. T \ {x} \in F /\ x \in U \ (T \ {x}) /\ T = (T \ {x}) \cup {x}
    BY <2>3
  <2> QED BY <2>4
<1> HIDE DEF K
<1>4. K = Nat
  <2>1. K \in SUBSET Nat
    BY DEF K
  <2> QED BY <2>1, <1>2, <1>3, NumbersByInduction
<1> QED BY <1>1, <1>4 DEF K

\* What the definition of a sum asks for: it takes any element away and adds it to the rest.
Adds(g, f, U) ==
  g = [s \in SUBSET U |-> IF s = {} THEN 0
                          ELSE f[CHOOSE x \in s : TRUE] + g[s \ {CHOOSE x \in s : TRUE}]]

LEMMA SumExists ==
  ASSUME NEW U, IsFiniteSet(U), NEW f, \A x \in U : f[x] \in Int
  PROVE  \E g \in [SUBSET U -> Int] : Adds(g, f, U)
<1> DEFINE c(s) == CHOOSE x \in s : TRUE
           Step(g, s) == g[s] = IF s = {} THEN 0 ELSE f[c(s)] + g[s \ {c(s)}]
           K == {n \in Nat : \E g \in [SUBSET U -> Int] :
                               \A s \in SUBSET U : Cardinality(s) <= n => Step(g, s)}
<1>1. \A s \in SUBSET U : IsFiniteSet(s) /\ Cardinality(s) \in Nat
  BY FS_Subset, FS_CardinalityType
<1>2. \A s \in SUBSET U : s # {} => c(s) \in s
  OBVIOUS
<1>3. \A s \in SUBSET U : s # {} => /\ Cardinality(s \ {c(s)}) = Cardinality(s) - 1
                                   /\ s \ {c(s)} \in SUBSET U
                                   /\ f[c(s)] \in Int
  BY <1>1, <1>2, FS_RemoveElement
<1>4. \A s \in SUBSET U : Cardinality(s) = 0 <=> s = {}
  BY <1>1, FS_EmptySet
<1> HIDE DEF c
<1>5. 0 \in K
  <2> DEFINE g == [s \in SUBSET U |-> 0]
  <2>1. \A s \in SUBSET U : Cardinality(s) <= 0 => s = {}
    BY <1>1, <1>4
  <2>2. \A s \in SUBSET U : s = {} => Step(g, s)
    OBVIOUS
  <2>3. g \in [SUBSET U -> Int]
    OBVIOUS
  <2> HIDE DEF g
  <2> QED BY <2>1, <2>2, <2>3
<1>6. ASSUME NEW n \in K PROVE n + 1 \in K
  <2>1. PICK g \in [SUBSET U -> Int] :
               \A s \in SUBSET U : Cardinality(s) <= n => Step(g, s)
    OBVIOUS
  <2> DEFINE h == [s \in SUBSET U |-> IF Cardinality(s) <= n \/ s = {} THEN g[s]
                                      ELSE f[c(s)] + g[s \ {c(s)}]]
  <2>2. h \in [SUBSET U -> Int]
    BY <1>3
  <2>3. ASSUME NEW s \in SUBSET U, Cardinality(s) <= n + 1 PROVE Step(h, s)
    <3>1. CASE s = {}
      <4>1. Cardinality(s) <= n
        BY <1>4, <3>1
      <4>2. g[s] = 0
        BY <2>1, <3>1, <4>1
      <4> QED BY <3>1, <4>2
    <3>2. CASE s # {}
      <4>1. /\ Cardinality(s \ {c(s)}) <= n
            /\ s \ {c(s)} \in SUBSET U
        BY <1>1, <1>3, <2>3, <3>2
      <4>2. h[s \ {c(s)}] = g[s \ {c(s)}]
        BY <4>1
      <4>3. CASE Cardinality(s) <= n
        <5>1. h[s] = g[s]
          BY <4>3
        <5>2. g[s] = f[c(s)] + g[s \ {c(s)}]
          BY <2>1, <3>2, <4>3
        <5> QED BY <3>2, <4>2, <5>1, <5>2
      <4>4. CASE ~(Cardinality(s) <= n)
        <5>1. h[s] = f[c(s)] + g[s \ {c(s)}]
          BY <3>2, <4>4
        <5> QED BY <3>2, <4>2, <5>1
      <4> QED BY <4>3, <4>4
    <3> QED BY <3>1, <3>2
  <2> HIDE DEF h
  <2>4. n + 1 \in Nat
    OBVIOUS
  <2> QED BY <2>2, <2>3, <2>4
<1> HIDE DEF K
<1>7. Cardinality(U) \in K
  <2>1. K \in SUBSET Nat
    BY DEF K
  <2> QED BY <2>1, <1>1, <1>5, <1>6, NumbersByInduction
<1>8. PICK g \in [SUBSET U -> Int] :
             \A s \in SUBSET U : Cardinality(s) <= Cardinality(U) => Step(g, s)
  BY <1>7 DEF K
<1>9. \A s \in SUBSET U : Cardinality(s) <= Cardinality(U)
  BY FS_Subset
<1>10. \A s \in SUBSET U : Step(g, s)
  BY <1>8, <1>9
<1>11. Adds(g, f, U)
  BY <1>8, <1>10 DEF Adds, c
<1> QED BY <1>11

\* There is one way to do it, which does not depend on what else could have been summed up.
LEMMA SumsAgree ==
  ASSUME NEW U, IsFiniteSet(U), NEW V \in SUBSET U, NEW f, NEW g, NEW h,
         Adds(g, f, U), Adds(h, f, V)
  PROVE  \A s \in SUBSET V : g[s] = h[s]
<1> DEFINE K == {n \in Nat : \A s \in SUBSET V : Cardinality(s) = n => g[s] = h[s]}
<1>1. \A s \in SUBSET V : s \in SUBSET U /\ IsFiniteSet(s) /\ Cardinality(s) \in Nat
  BY FS_Subset, FS_CardinalityType
<1>2. g[{}] = 0 /\ h[{}] = 0
  BY DEF Adds
<1>3. 0 \in K
  BY <1>1, <1>2, FS_EmptySet
<1>4. ASSUME NEW n \in K PROVE n + 1 \in K
  <2> SUFFICES ASSUME NEW s \in SUBSET V, Cardinality(s) = n + 1 PROVE g[s] = h[s]
    OBVIOUS
  <2> DEFINE x == CHOOSE y \in s : TRUE
  <2>1. s # {}
    <3>1. n + 1 # 0
      OBVIOUS
    <3> QED BY <3>1, FS_EmptySet
  <2>2. x \in s
    BY <2>1
  <2>3. Cardinality(s \ {x}) = Cardinality(s) - 1
    BY <1>1, <2>2, FS_RemoveElement
  <2>4. g[s \ {x}] = h[s \ {x}]
    <3>1. Cardinality(s \ {x}) = n
      BY <2>3
    <3> QED BY <3>1
  <2>5. g[s] = f[x] + g[s \ {x}] /\ h[s] = f[x] + h[s \ {x}]
    BY <1>1, <2>1 DEF Adds
  <2> HIDE DEF x
  <2> QED BY <2>4, <2>5
<1> HIDE DEF K
<1>5. K = Nat
  <2>1. K \in SUBSET Nat
    BY DEF K
  <2> QED BY <2>1, <1>3, <1>4, NumbersByInduction
<1> QED BY <1>1, <1>5 DEF K

SumsUp(g, f, U) ==
  /\ g \in [SUBSET U -> Int]
  /\ Adds(g, f, U)
  /\ \A T \in SUBSET U : SumFunctionOnSet(f, T) = g[T]

LEMMA SumUnfolds ==
  ASSUME NEW U, IsFiniteSet(U), NEW f, \A x \in U : f[x] \in Int
  PROVE  \E g : SumsUp(g, f, U)
<1>1. PICK g \in [SUBSET U -> Int] : Adds(g, f, U)
  BY SumExists
<1>2. ASSUME NEW T \in SUBSET U PROVE SumFunctionOnSet(f, T) = g[T]
  <2> DEFINE G == CHOOSE h : Adds(h, f, T)
  <2>1. Adds(G, f, T)
    <3>1. IsFiniteSet(T) /\ \A x \in T : f[x] \in Int
      BY FS_Subset
    <3> QED BY <3>1, SumExists
  <2>2. SumFunctionOnSet(f, T) = G[T]
    BY DEF SumFunctionOnSet, FoldFunctionOnSet, MapThenFoldSet, Adds
  <2> HIDE DEF G
  <2>3. \A s \in SUBSET T : g[s] = G[s]
    BY <1>1, <2>1, SumsAgree
  <2> QED BY <2>2, <2>3
<1> QED BY <1>1, <1>2 DEF SumsUp

LEMMA SumOfNothing ==
  ASSUME NEW f
  PROVE  SumFunctionOnSet(f, {}) = 0
<1>1. IsFiniteSet({}) /\ \A x \in {} : f[x] \in Int
  BY FS_EmptySet
<1>2. PICK g : SumsUp(g, f, {})
  BY <1>1, SumUnfolds
<1>3. g[{}] = 0
  BY <1>2 DEF SumsUp, Adds
<1> QED BY <1>2, <1>3 DEF SumsUp

LEMMA SumIsInteger ==
  ASSUME NEW U, IsFiniteSet(U), NEW f, \A x \in U : f[x] \in Int
  PROVE  SumFunctionOnSet(f, U) \in Int
<1>1. PICK g : SumsUp(g, f, U)
  BY SumUnfolds
<1> QED BY <1>1 DEF SumsUp

\* Any element may be taken away first.
LEMMA SumWithout ==
  ASSUME NEW U, IsFiniteSet(U), NEW f, \A x \in U : f[x] \in Int, NEW x \in U
  PROVE  SumFunctionOnSet(f, U) = f[x] + SumFunctionOnSet(f, U \ {x})
<1>0. PICK g : SumsUp(g, f, U)
  BY SumUnfolds
<1>1. g \in [SUBSET U -> Int] /\ Adds(g, f, U)
  BY <1>0 DEF SumsUp
<1> DEFINE K == {n \in Nat : \A s \in SUBSET U : Cardinality(s) = n =>
                               \A y \in s : g[s] = f[y] + g[s \ {y}]}
<1>2. \A s \in SUBSET U : IsFiniteSet(s) /\ Cardinality(s) \in Nat
  BY FS_Subset, FS_CardinalityType
<1>3. 0 \in K
  BY <1>2, FS_EmptySet
<1>4. ASSUME NEW n \in K PROVE n + 1 \in K
  <2> SUFFICES ASSUME NEW s \in SUBSET U, Cardinality(s) = n + 1, NEW y \in s
               PROVE  g[s] = f[y] + g[s \ {y}]
    OBVIOUS
  <2> DEFINE z == CHOOSE w \in s : TRUE
  <2>1. z \in s
    OBVIOUS
  <2>2. g[s] = f[z] + g[s \ {z}]
    BY <1>1 DEF Adds
  <2> HIDE DEF z
  <2>3. CASE y = z
    BY <2>2, <2>3
  <2>4. CASE y # z
    <3>1. /\ Cardinality(s \ {z}) = n /\ s \ {z} \in SUBSET U
          /\ Cardinality(s \ {y}) = n /\ s \ {y} \in SUBSET U
      <4>1. /\ Cardinality(s \ {z}) = Cardinality(s) - 1
            /\ Cardinality(s \ {y}) = Cardinality(s) - 1
        BY <1>2, <2>1, FS_RemoveElement
      <4> QED BY <4>1
    <3>2. y \in s \ {z} /\ z \in s \ {y}
      BY <2>1, <2>4
    <3>3. g[s \ {z}] = f[y] + g[(s \ {z}) \ {y}]
      BY <3>1, <3>2
    <3>4. g[s \ {y}] = f[z] + g[(s \ {y}) \ {z}]
      BY <3>1, <3>2
    <3> DEFINE rest == g[(s \ {z}) \ {y}]
    <3>5. (s \ {z}) \ {y} = (s \ {y}) \ {z} /\ (s \ {z}) \ {y} \in SUBSET U
      OBVIOUS
    <3>6. f[y] \in Int /\ f[z] \in Int /\ rest \in Int
      BY <1>1, <2>1, <3>5
    <3>7. g[s \ {z}] = f[y] + rest /\ g[s \ {y}] = f[z] + rest
      BY <3>3, <3>4, <3>5
    <3> HIDE DEF rest
    <3>8. f[z] + (f[y] + rest) = f[y] + (f[z] + rest)
      BY <3>6
    <3> QED BY <2>2, <3>7, <3>8
  <2> QED BY <2>3, <2>4
<1> HIDE DEF K
<1>5. K = Nat
  <2>1. K \in SUBSET Nat
    BY DEF K
  <2> QED BY <2>1, <1>3, <1>4, NumbersByInduction
<1>6. g[U] = f[x] + g[U \ {x}]
  BY <1>2, <1>5 DEF K
<1>7. SumFunctionOnSet(f, U) = g[U] /\ SumFunctionOnSet(f, U \ {x}) = g[U \ {x}]
  <2>1. U \in SUBSET U /\ U \ {x} \in SUBSET U
    OBVIOUS
  <2> QED BY <1>0, <2>1 DEF SumsUp
<1> QED BY <1>6, <1>7

LEMMA SumsCompare ==
  ASSUME NEW U, IsFiniteSet(U), NEW f, NEW g,
         \A x \in U : f[x] \in Int /\ g[x] \in Int /\ f[x] <= g[x]
  PROVE  SumFunctionOnSet(f, U) <= SumFunctionOnSet(g, U)
<1> DEFINE Holds(T) == SumFunctionOnSet(f, T) <= SumFunctionOnSet(g, T)
           F == {T \in SUBSET U : Holds(T)}
<1>1. Holds({})
  BY SumOfNothing
<1>2. ASSUME NEW T \in SUBSET U, NEW x \in U \ T, Holds(T) PROVE Holds(T \cup {x})
  <2>1. IsFiniteSet(T) /\ IsFiniteSet(T \cup {x}) /\ (T \cup {x}) \ {x} = T
    BY FS_Subset, FS_AddElement
  <2>2. /\ SumFunctionOnSet(f, T) \in Int
        /\ SumFunctionOnSet(g, T) \in Int
    BY <2>1, SumIsInteger
  <2>3. /\ SumFunctionOnSet(f, T \cup {x}) = f[x] + SumFunctionOnSet(f, T)
        /\ SumFunctionOnSet(g, T \cup {x}) = g[x] + SumFunctionOnSet(g, T)
    <3>1. x \in T \cup {x} /\ \A y \in T \cup {x} : f[y] \in Int /\ g[y] \in Int
      OBVIOUS
    <3>2. /\ SumFunctionOnSet(f, T \cup {x}) = f[x] + SumFunctionOnSet(f, (T \cup {x}) \ {x})
          /\ SumFunctionOnSet(g, T \cup {x}) = g[x] + SumFunctionOnSet(g, (T \cup {x}) \ {x})
      BY <2>1, <3>1, SumWithout
    <3> QED BY <2>1, <3>2
  <2> QED BY <1>2, <2>2, <2>3
<1> HIDE DEF Holds
<1>3. F = SUBSET U
  <2>1. {} \in F
    BY <1>1
  <2>2. \A T \in F : \A x \in U \ T : T \cup {x} \in F
    BY <1>2
  <2> HIDE DEF F
  <2>3. F \in SUBSET (SUBSET U)
    BY DEF F
  <2> QED BY <2>1, <2>2, <2>3, SubsetsByInduction
<1> QED BY <1>3 DEF Holds

LEMMA SumsAreEqual ==
  ASSUME NEW U, IsFiniteSet(U), NEW f, NEW g, \A x \in U : f[x] \in Int /\ g[x] = f[x]
  PROVE  SumFunctionOnSet(g, U) = SumFunctionOnSet(f, U)
<1>1. /\ SumFunctionOnSet(f, U) \in Int
      /\ SumFunctionOnSet(g, U) \in Int
  BY SumIsInteger
<1>2. \A x \in U : f[x] \in Int /\ g[x] \in Int /\ f[x] <= g[x] /\ g[x] <= f[x]
  OBVIOUS
<1>3. SumFunctionOnSet(f, U) <= SumFunctionOnSet(g, U)
  BY <1>2, SumsCompare
<1>4. SumFunctionOnSet(g, U) <= SumFunctionOnSet(f, U)
  BY <1>2, SumsCompare
<1> QED BY <1>1, <1>3, <1>4

LEMMA SumWith ==
  ASSUME NEW U, IsFiniteSet(U), NEW x, x \notin U,
         NEW f, \A y \in U \cup {x} : f[y] \in Int
  PROVE  SumFunctionOnSet(f, U \cup {x}) = f[x] + SumFunctionOnSet(f, U)
<1>1. IsFiniteSet(U \cup {x}) /\ (U \cup {x}) \ {x} = U /\ x \in U \cup {x}
  BY FS_AddElement
<1>2. SumFunctionOnSet(f, U \cup {x}) = f[x] + SumFunctionOnSet(f, (U \cup {x}) \ {x})
  BY <1>1, SumWithout
<1> QED BY <1>1, <1>2

\* One value changes.
LEMMA SumChanges ==
  ASSUME NEW U, IsFiniteSet(U), NEW x \in U, NEW f, NEW g,
         \A y \in U : f[y] \in Int /\ g[y] \in Int /\ (y # x => g[y] = f[y])
  PROVE  SumFunctionOnSet(g, U) = SumFunctionOnSet(f, U) - f[x] + g[x]
<1>1. IsFiniteSet(U \ {x}) /\ f[x] \in Int /\ g[x] \in Int
  BY FS_RemoveElement
<1>2. /\ SumFunctionOnSet(f, U) = f[x] + SumFunctionOnSet(f, U \ {x})
      /\ SumFunctionOnSet(g, U) = g[x] + SumFunctionOnSet(g, U \ {x})
  BY SumWithout
<1>3. \A y \in U \ {x} : f[y] \in Int /\ g[y] = f[y]
  OBVIOUS
<1>4. SumFunctionOnSet(g, U \ {x}) = SumFunctionOnSet(f, U \ {x})
  BY <1>1, <1>3, SumsAreEqual
<1>5. SumFunctionOnSet(f, U \ {x}) \in Int
  BY <1>1, <1>3, SumIsInteger
<1> QED BY <1>1, <1>2, <1>4, <1>5

LEMMA SumOfSubset ==
  ASSUME NEW U, IsFiniteSet(U), NEW f, \A x \in U : f[x] \in Nat, NEW V \in SUBSET U
  PROVE  SumFunctionOnSet(f, V) <= SumFunctionOnSet(f, U)
<1> DEFINE W == U \ V
           Holds(T) == SumFunctionOnSet(f, V) <= SumFunctionOnSet(f, V \cup T)
           F == {T \in SUBSET W : Holds(T)}
<1>1. IsFiniteSet(V) /\ IsFiniteSet(W) /\ SumFunctionOnSet(f, V) \in Int
  <2>1. IsFiniteSet(V) /\ IsFiniteSet(W)
    BY FS_Subset
  <2>2. \A x \in V : f[x] \in Int
    OBVIOUS
  <2> QED BY <2>1, <2>2, SumIsInteger
<1>2. Holds({})
  <2>1. V \cup {} = V
    OBVIOUS
  <2> QED BY <1>1, <2>1
<1>3. ASSUME NEW T \in SUBSET W, NEW x \in W \ T, Holds(T) PROVE Holds(T \cup {x})
  <2>1. IsFiniteSet(V \cup T) /\ x \notin V \cup T
    <3>1. V \cup T \in SUBSET U
      OBVIOUS
    <3> QED BY <3>1, FS_Subset
  <2>2. \A y \in (V \cup T) \cup {x} : f[y] \in Int
    OBVIOUS
  <2>3. SumFunctionOnSet(f, (V \cup T) \cup {x}) = f[x] + SumFunctionOnSet(f, V \cup T)
    BY <2>1, <2>2, SumWith
  <2>4. SumFunctionOnSet(f, V \cup T) \in Int /\ f[x] \in Nat
    BY <2>1, <2>2, SumIsInteger
  <2>5. V \cup (T \cup {x}) = (V \cup T) \cup {x}
    OBVIOUS
  <2> DEFINE a == SumFunctionOnSet(f, V)
             b == SumFunctionOnSet(f, V \cup T)
             c == SumFunctionOnSet(f, V \cup (T \cup {x}))
  <2>6. a \in Int /\ b \in Int /\ a <= b /\ c = f[x] + b /\ f[x] \in Nat
    BY <1>1, <1>3, <2>3, <2>4, <2>5
  <2>7. a <= c
    <3> HIDE DEF a, b, c
    <3> QED BY <2>6
  <2> QED BY <2>7
<1> HIDE DEF Holds
<1>4. F = SUBSET W
  <2>1. {} \in F
    BY <1>2
  <2>2. \A T \in F : \A x \in W \ T : T \cup {x} \in F
    BY <1>3
  <2> HIDE DEF F, W
  <2>3. F \in SUBSET (SUBSET W)
    BY DEF F
  <2> QED BY <1>1, <2>1, <2>2, <2>3, SubsetsByInduction
<1>5. Holds(W) /\ V \cup W = U
  BY <1>4
<1> QED BY <1>5 DEF Holds
\* A bound on each value, higher for some, is a bound on the sum.
LEMMA SumBounded ==
  ASSUME NEW U, IsFiniteSet(U), NEW R, NEW a \in Nat, NEW b \in Nat,
         NEW f, \A x \in U : f[x] \in Int /\ f[x] <= IF x \in R THEN a + b ELSE a
  PROVE  SumFunctionOnSet(f, U) <= a * Cardinality(U) + b * Cardinality(U \cap R)
<1> DEFINE Most(T) == a * Cardinality(T) + b * Cardinality(T \cap R)
           Holds(T) == SumFunctionOnSet(f, T) <= Most(T)
           F == {T \in SUBSET U : Holds(T)}
<1>1. Holds({})
  <2>1. {} \cap R = {} /\ Cardinality({}) = 0
    BY FS_EmptySet
  <2> QED BY <2>1, SumOfNothing
<1>2. ASSUME NEW T \in SUBSET U, NEW x \in U \ T, Holds(T) PROVE Holds(T \cup {x})
  <2>1. IsFiniteSet(T) /\ IsFiniteSet(T \cap R) /\ x \notin T /\ x \notin T \cap R
    BY FS_Subset
  <2> DEFINE n == Cardinality(T)
             m == Cardinality(T \cap R)
             old == SumFunctionOnSet(f, T)
             new == SumFunctionOnSet(f, T \cup {x})
  <2>2. n \in Nat /\ m \in Nat
    BY <2>1, FS_CardinalityType
  <2>3. Cardinality(T \cup {x}) = n + 1
    BY <2>1, FS_AddElement
  <2>4. old \in Int /\ new = f[x] + old
    <3>1. \A y \in T \cup {x} : f[y] \in Int
      OBVIOUS
    <3> QED BY <2>1, <3>1, SumIsInteger, SumWith
  <2>5. Most(T \cup {x}) = Most(T) + IF x \in R THEN a + b ELSE a
    <3>1. a * (n + 1) = a * n + a /\ b * (m + 1) = b * m + b
      BY <2>2
    <3>2. CASE x \in R
      <4>1. (T \cup {x}) \cap R = (T \cap R) \cup {x}
        BY <3>2
      <4>2. Cardinality((T \cup {x}) \cap R) = m + 1
        BY <2>1, <4>1, FS_AddElement
      <4>3. Most(T \cup {x}) = a * (n + 1) + b * (m + 1)
        BY <2>3, <4>2
      <4> HIDE DEF n, m
      <4>4. a * n \in Int /\ b * m \in Int
        BY <2>2
      <4>5. Most(T) = a * n + b * m
        BY DEF n, m
      <4> HIDE DEF Most
      <4> QED BY <3>1, <3>2, <4>3, <4>4, <4>5
    <3>3. CASE x \notin R
      <4>1. (T \cup {x}) \cap R = T \cap R
        BY <3>3
      <4>3. Most(T \cup {x}) = a * (n + 1) + b * m
        BY <2>3, <4>1
      <4> HIDE DEF n, m
      <4>4. a * n \in Int /\ b * m \in Int
        BY <2>2
      <4>5. Most(T) = a * n + b * m
        BY DEF n, m
      <4> HIDE DEF Most
      <4> QED BY <3>1, <3>3, <4>3, <4>4, <4>5
    <3> QED BY <3>2, <3>3
  <2>6. Most(T) \in Int
    <3> HIDE DEF n, m
    <3>1. a * n \in Int /\ b * m \in Int
      BY <2>2
    <3> QED BY <3>1 DEF n, m
  <2>7. f[x] \in Int /\ f[x] <= IF x \in R THEN a + b ELSE a
    OBVIOUS
  <2>8. old <= Most(T)
    BY <1>2
  <2> HIDE DEF Most, old, new
  <2>9. new <= Most(T \cup {x})
    BY <2>4, <2>5, <2>6, <2>7, <2>8
  <2> QED BY <2>9 DEF new
<1> HIDE DEF Holds
<1>3. F = SUBSET U
  <2>1. {} \in F
    BY <1>1
  <2>2. \A T \in F : \A x \in U \ T : T \cup {x} \in F
    BY <1>2
  <2> HIDE DEF F
  <2>3. F \in SUBSET (SUBSET U)
    BY DEF F
  <2> QED BY <2>1, <2>2, <2>3, SubsetsByInduction
<1> QED BY <1>3 DEF Holds
\* Each value is reduced for the part of R that belongs to it: the sum is reduced for all of R.
LEMMA SumOfParts ==
  ASSUME NEW U, IsFiniteSet(U), NEW R, IsFiniteSet(R), NEW k \in [R -> U],
         NEW a \in Nat, NEW b \in Nat, NEW f,
         \A x \in U : f[x] \in Int /\ f[x] <= a - b * Cardinality({r \in R : k[r] = x})
  PROVE  SumFunctionOnSet(f, U) <= a * Cardinality(U) - b * Cardinality(R)
<1> DEFINE Of(x) == {r \in R : k[r] = x}
           In(T) == {r \in R : k[r] \in T}
           Most(T) == a * Cardinality(T) - b * Cardinality(In(T))
           Holds(T) == SumFunctionOnSet(f, T) <= Most(T)
           F == {T \in SUBSET U : Holds(T)}
<1>1. Holds({})
  <2>1. In({}) = {} /\ Cardinality({}) = 0
    BY FS_EmptySet
  <2> QED BY <2>1, SumOfNothing
<1>2. ASSUME NEW T \in SUBSET U, NEW x \in U \ T, Holds(T) PROVE Holds(T \cup {x})
  <2>1. IsFiniteSet(T) /\ IsFiniteSet(In(T)) /\ IsFiniteSet(Of(x)) /\ x \notin T
    BY FS_Subset
  <2> DEFINE n == Cardinality(T)
             m == Cardinality(In(T))
             l == Cardinality(Of(x))
             old == SumFunctionOnSet(f, T)
             new == SumFunctionOnSet(f, T \cup {x})
  <2>2. n \in Nat /\ m \in Nat /\ l \in Nat
    BY <2>1, FS_CardinalityType
  <2>3. Cardinality(T \cup {x}) = n + 1
    BY <2>1, FS_AddElement
  <2>4. Cardinality(In(T \cup {x})) = m + l
    <3>1. In(T \cup {x}) = In(T) \cup Of(x) /\ In(T) \cap Of(x) = {}
      OBVIOUS
    <3> HIDE DEF In, Of
    <3>2. Cardinality(In(T) \cup Of(x)) = m + l - Cardinality({})
      BY <2>1, <3>1, FS_Union
    <3>3. Cardinality(In(T \cup {x})) = m + l - 0
      BY <3>1, <3>2, FS_EmptySet
    <3> HIDE DEF m, l
    <3> QED BY <2>2, <3>3
  <2>5. old \in Int /\ new = f[x] + old
    <3>1. \A y \in T \cup {x} : f[y] \in Int
      OBVIOUS
    <3> QED BY <2>1, <3>1, SumIsInteger, SumWith
  <2>6. Most(T) = a * n - b * m /\ Most(T \cup {x}) = a * (n + 1) - b * (m + l)
    BY <2>3, <2>4
  <2>7. f[x] \in Int /\ f[x] <= a - b * l
    OBVIOUS
  <2>8. old <= Most(T)
    BY <1>2
  <2> HIDE DEF Most, old, new, n, m, l
  <2>9. new <= Most(T \cup {x})
    <3>1. a * (n + 1) = a * n + a /\ b * (m + l) = b * m + b * l
      BY <2>2
    <3>2. a * n \in Int /\ b * m \in Int /\ b * l \in Int
      BY <2>2
    <3> QED BY <2>5, <2>6, <2>7, <2>8, <3>1, <3>2
  <2> QED BY <2>9 DEF new
<1>3. F = SUBSET U
  <2> HIDE DEF Holds
  <2>1. {} \in F
    BY <1>1
  <2>2. \A T \in F : \A x \in U \ T : T \cup {x} \in F
    BY <1>2
  <2> HIDE DEF F
  <2>3. F \in SUBSET (SUBSET U)
    BY DEF F
  <2> QED BY <2>1, <2>2, <2>3, SubsetsByInduction
<1>4. Holds(U) /\ In(U) = R
  BY <1>3
<1> QED BY <1>4
=============================================================================
