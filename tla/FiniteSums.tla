---------------------------- MODULE FiniteSums ------------------------------
(***************************************************************************)
(* Sums over finite sets, by the SumFunction of the community modules, for *)
(* any set and any integers. The provers have no induction over data; the  *)
(* lemmas go by least counterexamples instead, with the well-founded order *)
(* of the natural numbers.                                                 *)
(***************************************************************************)
EXTENDS Integers, FiniteSets, Functions, FiniteSetTheorems, WellFoundedInduction, TLAPS

\* What holds 0, and with every number the next one, holds every natural
\* number: of the numbers outside it there would be a least one.
LEMMA NaturalsGrow ==
    ASSUME NEW N \in SUBSET Nat, 0 \in N, \A n \in N : n + 1 \in N
    PROVE  N = Nat
  <1> DEFINE T == Nat \ N
             R == {ss \in Nat \X Nat : ss[1] < ss[2]}
  <1>1. SUFFICES ASSUME T # {} PROVE FALSE
    OBVIOUS
  <1>2. IsWellFoundedOn(R, Nat)
    BY NatLessThanWellFounded DEF OpToRel
  <1>3. PICK n \in T : \A m \in T : <<m, n>> \notin R
    <2>1. T \subseteq Nat
      OBVIOUS
    <2> HIDE DEF T, R
    <2>2. QED
      BY <1>1, <1>2, <2>1, WFMin
  <1>4. n # 0 /\ n \in Nat /\ n - 1 \in Nat /\ n - 1 < n
    BY <1>3
  <1>5. <<n - 1, n>> \in R
    BY <1>4
  <1>6. n - 1 \in N
    BY <1>3, <1>4, <1>5
  <1>7. n = (n - 1) + 1
    BY <1>4
  <1>8. QED
    BY <1>3, <1>6, <1>7

\* What holds the empty set, and a set whose subsets with one element less it
\* holds.
Grows(D, Q) ==
    /\ {} \in Q
    /\ \A s \in SUBSET D : s # {} /\ (\A x \in s : s \ {x} \in Q) => s \in Q

\* It holds every subset of a finite set.
LEMMA SubsetsGrow ==
    ASSUME NEW D, IsFiniteSet(D), NEW Q, Grows(D, Q)
    PROVE  \A s \in SUBSET D : s \in Q
  <1> USE DEF Grows
  <1> DEFINE N == {n \in Nat : \A s \in SUBSET D : Cardinality(s) <= n => s \in Q}
  <1>1. \A s \in SUBSET D : IsFiniteSet(s) /\ Cardinality(s) \in Nat /\ (Cardinality(s) = 0 <=> s = {})
    BY FS_Subset, FS_CardinalityType, FS_EmptySet
  <1>2. 0 \in N
    BY <1>1
  <1>3. ASSUME NEW n \in N PROVE n + 1 \in N
    <2>1. ASSUME NEW s \in SUBSET D, Cardinality(s) <= n + 1, s # {} PROVE s \in Q
      <3>1. \A x \in s : Cardinality(s \ {x}) = Cardinality(s) - 1 /\ s \ {x} \in SUBSET D
        BY <1>1, FS_RemoveElement
      <3>2. \A x \in s : s \ {x} \in Q
        BY <1>1, <2>1, <3>1
      <3>3. QED
        BY <2>1, <3>2
    <2>2. n + 1 \in Nat
      OBVIOUS
    <2> HIDE DEF N
    <2>3. \A s \in SUBSET D : Cardinality(s) <= n + 1 => s \in Q
      BY <2>1
    <2>4. QED
      BY <2>2, <2>3 DEF N
  <1>4. N = Nat
    <2> HIDE DEF N
    <2>1. N \in SUBSET Nat
      BY DEF N
    <2>2. QED
      BY <1>2, <1>3, <2>1, NaturalsGrow
  <1>5. QED
    BY <1>1, <1>4

\* The functions that are summed.
Numbers(D) == [D -> Int]

\* The element that the folds of the community modules take first, and the
\* function that they fold with.
One(s) == CHOOSE x \in s : TRUE
Iter(f) == CHOOSE g : g = [s \in SUBSET DOMAIN f |->
                             IF s = {} THEN 0 ELSE f[One(s)] + g[s \ {One(s)}]]

\* The sum, as the library defines it.
LEMMA SumIsIter ==
    ASSUME NEW f PROVE SumFunction(f) = Iter(f)[DOMAIN f]
  BY DEF SumFunction, SumFunctionOnSet, FoldFunctionOnSet, MapThenFoldSet, Iter, One

\* The fold of a finite set exists: a function that is right up to some number
\* of elements can be extended to one more.
LEMMA IterExists ==
    ASSUME NEW D, IsFiniteSet(D), NEW f \in Numbers(D)
    PROVE  /\ Iter(f) \in Numbers(SUBSET D)
           /\ \A s \in SUBSET D : Iter(f)[s] = IF s = {} THEN 0 ELSE f[One(s)] + Iter(f)[s \ {One(s)}]
  <1> USE DEF Numbers
  <1> DEFINE Sums(g, s) == g[s] = IF s = {} THEN 0 ELSE f[One(s)] + g[s \ {One(s)}]
             N == {n \in Nat : \E g \in [SUBSET D -> Int] :
                                  \A s \in SUBSET D : Cardinality(s) <= n => Sums(g, s)}
  <1>1. \A s \in SUBSET D : IsFiniteSet(s) /\ Cardinality(s) \in Nat /\ (Cardinality(s) = 0 <=> s = {})
    BY FS_Subset, FS_CardinalityType, FS_EmptySet
  <1>2. \A s \in SUBSET D : s # {} => /\ One(s) \in s /\ f[One(s)] \in Int
                                      /\ s \ {One(s)} \in SUBSET D
                                      /\ Cardinality(s \ {One(s)}) = Cardinality(s) - 1
    BY <1>1, FS_RemoveElement DEF One
  <1>3. 0 \in N
    <2>1. [s \in SUBSET D |-> 0] \in [SUBSET D -> Int]
      OBVIOUS
    <2>2. \A s \in SUBSET D : Cardinality(s) <= 0 => Sums([t \in SUBSET D |-> 0], s)
      BY <1>1
    <2>3. QED
      BY <2>1, <2>2
  <1>4. ASSUME NEW n \in N PROVE n + 1 \in N
    <2>1. PICK g \in [SUBSET D -> Int] : \A s \in SUBSET D : Cardinality(s) <= n => Sums(g, s)
      OBVIOUS
    <2> DEFINE h == [s \in SUBSET D |-> IF Cardinality(s) <= n THEN g[s]
                                        ELSE f[One(s)] + g[s \ {One(s)}]]
    <2>2. h \in [SUBSET D -> Int]
      <3>1. ASSUME NEW s \in SUBSET D PROVE h[s] \in Int
        BY <1>1, <1>2, <2>1
      <3>2. QED
        BY <3>1
    <2>3. ASSUME NEW s \in SUBSET D, Cardinality(s) <= n + 1 PROVE Sums(h, s)
      <3>1. CASE s = {}
        BY <1>1, <2>1, <3>1
      <3>2. CASE s # {}
        <4>1. Cardinality(s \ {One(s)}) <= n /\ s \ {One(s)} \in SUBSET D
          BY <1>1, <1>2, <2>3, <3>2
        <4>2. h[s \ {One(s)}] = g[s \ {One(s)}]
          BY <4>1
        <4>3. h[s] = f[One(s)] + g[s \ {One(s)}]
          BY <2>1, <3>2
        <4>4. QED
          BY <3>2, <4>2, <4>3
      <3>3. QED
        BY <3>1, <3>2
    <2>4. QED
      <3> HIDE DEF h, Sums
      <3>1. \E gg \in [SUBSET D -> Int] :
               \A s \in SUBSET D : Cardinality(s) <= n + 1 => Sums(gg, s)
        BY <2>2, <2>3
      <3>2. QED
        BY <3>1
  <1>5. N = Nat
    <2> HIDE DEF N
    <2>1. N \in SUBSET Nat
      BY DEF N
    <2>2. QED
      BY <1>3, <1>4, <2>1, NaturalsGrow
  <1>6. PICK g \in [SUBSET D -> Int] : \A s \in SUBSET D : Sums(g, s)
    <2>1. Cardinality(D) \in N /\ \A s \in SUBSET D : Cardinality(s) <= Cardinality(D)
      BY <1>1, <1>5, FS_Subset
    <2> HIDE DEF Sums
    <2>2. QED
      BY <2>1
  <1>7. g = [s \in SUBSET DOMAIN f |-> IF s = {} THEN 0 ELSE f[One(s)] + g[s \ {One(s)}]]
    BY <1>6
  <1>8. Iter(f) = [s \in SUBSET DOMAIN f |->
                     IF s = {} THEN 0 ELSE f[One(s)] + Iter(f)[s \ {One(s)}]]
    BY <1>7 DEF Iter
  <1> DEFINE k == Iter(f)
  <1>9. k = [s \in SUBSET D |-> IF s = {} THEN 0 ELSE f[One(s)] + k[s \ {One(s)}]]
    BY <1>8
  <1> HIDE DEF k
  <1>10. \A s \in SUBSET D : k[s] = IF s = {} THEN 0 ELSE f[One(s)] + k[s \ {One(s)}]
    BY <1>9
  <1>11. \A s \in SUBSET D : k[s] \in Int
    <2> DEFINE Q == {s \in SUBSET D : k[s] \in Int}
    <2>1. {} \in Q
      <3>1. {} \in SUBSET D
        OBVIOUS
      <3>2. k[{}] = 0
        BY <1>10, <3>1
      <3>3. QED
        BY <3>1, <3>2
    <2>2. ASSUME NEW s \in SUBSET D, s # {}, \A x \in s : s \ {x} \in Q PROVE s \in Q
      <3>1. One(s) \in s /\ f[One(s)] \in Int
        BY <1>2, <2>2
      <3>2. s \ {One(s)} \in Q
        BY <2>2, <3>1
      <3>3. k[s] = f[One(s)] + k[s \ {One(s)}]
        BY <1>10, <2>2
      <3>4. QED
        BY <3>1, <3>2, <3>3
    <2>3. \A s \in SUBSET D : s \in Q
      <3> HIDE DEF Q
      <3>1. Grows(D, Q)
        BY <2>1, <2>2 DEF Grows
      <3>2. QED
        BY <3>1, SubsetsGrow
    <2>4. QED
      BY <2>3
  <1>12. QED
    BY <1>9, <1>10, <1>11 DEF k

\* A function k of the subsets of D that adds f up, whichever element is taken
\* out first.
Adds(k, f, D) ==
    /\ k \in [SUBSET D -> Int] /\ SumFunction(f) = k[D] /\ k[{}] = 0
    /\ \A s \in SUBSET D : \A y \in s : k[s] = f[y] + k[s \ {y}]

\* The sum of a part of D does not depend on the order in which it is taken.
LEMMA SumByParts ==
    ASSUME NEW D, IsFiniteSet(D), NEW f \in Numbers(D)
    PROVE  Adds(Iter(f), f, D)
  <1> USE DEF Numbers
  <1> DEFINE k == Iter(f)
             Q == {s \in SUBSET D : \A y \in s : k[s] = f[y] + k[s \ {y}]}
  <1>1. k \in [SUBSET D -> Int] /\ \A s \in SUBSET D : k[s] =
        IF s = {} THEN 0 ELSE f[One(s)] + k[s \ {One(s)}]
    BY IterExists
  <1>2. SumFunction(f) = k[D]
    BY SumIsIter
  <1> HIDE DEF k
  <1>3. {} \in Q
    OBVIOUS
  <1>4. ASSUME NEW s \in SUBSET D, s # {}, \A x \in s : s \ {x} \in Q PROVE s \in Q
    <2>1. One(s) \in s /\ k[s] = f[One(s)] + k[s \ {One(s)}]
      BY <1>1, <1>4 DEF One
    <2> DEFINE o == One(s)
    <2> HIDE DEF o
    <2>2. ASSUME NEW y \in s, y # o PROVE k[s] = f[y] + k[s \ {y}]
      <3> DEFINE r == (s \ {o}) \ {y}
      <3>1. r = (s \ {y}) \ {o} /\ r \in SUBSET D
        OBVIOUS
      <3>2. k[s \ {o}] = f[y] + k[r]
        BY <1>4, <2>1, <2>2 DEF o
      <3>3. k[s \ {y}] = f[o] + k[r]
        BY <1>4, <2>1, <2>2, <3>1 DEF o
      <3>4. k[r] \in Int /\ f[o] \in Int /\ f[y] \in Int
        BY <1>1, <2>1, <3>1 DEF o
      <3> HIDE DEF r
      <3>5. QED
        BY <2>1, <3>2, <3>3, <3>4 DEF o
    <2>3. QED
      BY <2>1, <2>2 DEF o
  <1>5. \A s \in SUBSET D : s \in Q
    <2> HIDE DEF Q
    <2>1. Grows(D, Q)
      BY <1>3, <1>4 DEF Grows
    <2>2. QED
      BY <2>1, SubsetsGrow
  <1>6. k[{}] = 0
    BY <1>1
  <1>7. Adds(k, f, D)
    BY <1>1, <1>2, <1>5, <1>6 DEF Adds
  <1>8. QED
    BY <1>7 DEF k

\* A sum of integers is an integer.
LEMMA SumIsInteger ==
    ASSUME NEW D, IsFiniteSet(D), NEW f \in Numbers(D)
    PROVE  SumFunction(f) \in Int
  <1>1. Adds(Iter(f), f, D)
    BY SumByParts
  <1>2. QED
    BY <1>1 DEF Adds

\* When one number changes the sum changes by as much.
LEMMA SumChanges ==
    ASSUME NEW D, IsFiniteSet(D), NEW f \in Numbers(D), NEW h \in Numbers(D), NEW x \in D,
           \A y \in D \ {x} : h[y] = f[y]
    PROVE  SumFunction(h) = SumFunction(f) + (h[x] - f[x])
  <1> DEFINE k == Iter(f)
  <1>1. /\ k \in [SUBSET D -> Int] /\ SumFunction(f) = k[D] /\ k[{}] = 0
        /\ \A s \in SUBSET D : \A y \in s : k[s] = f[y] + k[s \ {y}]
    <2>1. Adds(Iter(f), f, D)
      BY SumByParts
    <2>2. QED
      BY <2>1 DEF Adds
  <1> HIDE DEF k
  <1> DEFINE m == Iter(h)
  <1>2. /\ m \in [SUBSET D -> Int] /\ SumFunction(h) = m[D] /\ m[{}] = 0
        /\ \A s \in SUBSET D : \A y \in s : m[s] = h[y] + m[s \ {y}]
    <2>1. Adds(Iter(h), h, D)
      BY SumByParts
    <2>2. QED
      BY <2>1 DEF Adds
  <1> HIDE DEF m
  <1> USE DEF Numbers
  <1> DEFINE Delta(s) == IF x \in s THEN h[x] - f[x] ELSE 0
             Q == {s \in SUBSET D : m[s] = k[s] + Delta(s)}
  <1>3. {} \in Q
    <2>1. m[{}] = k[{}] + Delta({})
      BY <1>1, <1>2
    <2>2. QED
      BY <2>1
  <1>4. ASSUME NEW s \in SUBSET D, s # {}, \A y \in s : s \ {y} \in Q PROVE s \in Q
    <2>1. PICK y \in s : TRUE
      BY <1>4
    <2>2. m[s \ {y}] = k[s \ {y}] + Delta(s \ {y})
      BY <1>4
    <2>3. k[s] = f[y] + k[s \ {y}] /\ m[s] = h[y] + m[s \ {y}]
      BY <1>1, <1>2
    <2>4. k[s \ {y}] \in Int /\ h[y] \in Int /\ f[y] \in Int /\ h[x] \in Int /\ f[x] \in Int
      BY <1>1
    <2>5. m[s] = k[s] + Delta(s)
      <3>1. CASE y = x
        BY <2>2, <2>3, <2>4, <3>1
      <3>2. CASE y # x
        BY <2>2, <2>3, <2>4, <3>2
      <3>3. QED
        BY <3>1, <3>2
    <2>6. QED
      BY <2>5
  <1>5. \A s \in SUBSET D : s \in Q
    <2> HIDE DEF Q
    <2>1. Grows(D, Q)
      BY <1>3, <1>4 DEF Grows
    <2>2. QED
      BY <2>1, SubsetsGrow
  <1>6. D \in Q
    BY <1>5
  <1>7. QED
    BY <1>1, <1>2, <1>6

\* None of the numbers is above the sum, if none is negative.
LEMMA SumOfNaturals ==
    ASSUME NEW D, IsFiniteSet(D), NEW f \in Numbers(D), \A x \in D : f[x] >= 0
    PROVE  SumFunction(f) >= 0 /\ \A x \in D : f[x] <= SumFunction(f)
  <1> DEFINE k == Iter(f)
  <1>1. /\ k \in [SUBSET D -> Int] /\ SumFunction(f) = k[D] /\ k[{}] = 0
        /\ \A s \in SUBSET D : \A y \in s : k[s] = f[y] + k[s \ {y}]
    <2>1. Adds(Iter(f), f, D)
      BY SumByParts
    <2>2. QED
      BY <2>1 DEF Adds
  <1> HIDE DEF k
  <1> USE DEF Numbers
  <1> DEFINE Q == {s \in SUBSET D : k[s] >= 0}
  <1>2. {} \in Q
    BY <1>1
  <1>3. ASSUME NEW s \in SUBSET D, s # {}, \A y \in s : s \ {y} \in Q PROVE s \in Q
    <2>1. PICK y \in s : TRUE
      BY <1>3
    <2>2. k[s \ {y}] >= 0 /\ k[s] = f[y] + k[s \ {y}] /\ k[s \ {y}] \in Int /\ f[y] \in Int
      BY <1>1, <1>3
    <2>3. QED
      BY <2>2
  <1>4. \A s \in SUBSET D : s \in Q
    <2> HIDE DEF Q
    <2>1. Grows(D, Q)
      BY <1>2, <1>3 DEF Grows
    <2>2. QED
      BY <2>1, SubsetsGrow
  <1>5. ASSUME NEW x \in D PROVE f[x] <= k[D]
    <2>1. k[D] = f[x] + k[D \ {x}] /\ D \ {x} \in Q
      BY <1>1, <1>4
    <2>2. QED
      BY <1>1, <2>1
  <1>6. D \in Q
    BY <1>4
  <1>7. QED
    BY <1>1, <1>5, <1>6

\* The sum of zeros.
LEMMA SumOfNothing ==
    ASSUME NEW D, IsFiniteSet(D), NEW f \in Numbers(D), \A x \in D : f[x] = 0
    PROVE  SumFunction(f) = 0
  <1> DEFINE k == Iter(f)
  <1>1. /\ k \in [SUBSET D -> Int] /\ SumFunction(f) = k[D] /\ k[{}] = 0
        /\ \A s \in SUBSET D : \A y \in s : k[s] = f[y] + k[s \ {y}]
    <2>1. Adds(Iter(f), f, D)
      BY SumByParts
    <2>2. QED
      BY <2>1 DEF Adds
  <1> HIDE DEF k
  <1> USE DEF Numbers
  <1> DEFINE Q == {s \in SUBSET D : k[s] = 0}
  <1>2. {} \in Q
    BY <1>1
  <1>3. ASSUME NEW s \in SUBSET D, s # {}, \A y \in s : s \ {y} \in Q PROVE s \in Q
    <2>1. PICK y \in s : TRUE
      BY <1>3
    <2>2. k[s \ {y}] = 0 /\ k[s] = f[y] + k[s \ {y}] /\ f[y] = 0
      BY <1>1, <1>3
    <2>3. QED
      BY <2>2
  <1>4. \A s \in SUBSET D : s \in Q
    <2> HIDE DEF Q
    <2>1. Grows(D, Q)
      BY <1>2, <1>3 DEF Grows
    <2>2. QED
      BY <2>1, SubsetsGrow
  <1>5. D \in Q
    BY <1>4
  <1>6. QED
    BY <1>1, <1>5

\* The same numbers, under other names and without zeros, have the same sum.
LEMMA SumRenamed ==
    ASSUME NEW D, IsFiniteSet(D), NEW f \in Numbers(D),
           NEW A \in SUBSET D, \A x \in D \ A : f[x] = 0,
           NEW E, NEW h \in Numbers(E), NEW p \in [A -> E],
           \A e \in E : \E a \in A : p[a] = e,
           \A a, b \in A : p[a] = p[b] => a = b,
           \A a \in A : h[p[a]] = f[a]
    PROVE  SumFunction(f) = SumFunction(h)
  <1> DEFINE k == Iter(f)
  <1>1. /\ k \in [SUBSET D -> Int] /\ SumFunction(f) = k[D] /\ k[{}] = 0
        /\ \A s \in SUBSET D : \A y \in s : k[s] = f[y] + k[s \ {y}]
    <2>1. Adds(Iter(f), f, D)
      BY SumByParts
    <2>2. QED
      BY <2>1 DEF Adds
  <1> HIDE DEF k
  <1>2. IsFiniteSet(E)
    <2>1. p \in Surjection(A, E) /\ IsFiniteSet(A)
      BY FS_Subset DEF Surjection
    <2>2. QED
      BY <2>1, FS_Surjection
  <1> DEFINE m == Iter(h)
  <1>3. /\ m \in [SUBSET E -> Int] /\ SumFunction(h) = m[E] /\ m[{}] = 0
        /\ \A s \in SUBSET E : \A y \in s : m[s] = h[y] + m[s \ {y}]
    <2>1. Adds(Iter(h), h, E)
      BY <1>2, SumByParts
    <2>2. QED
      BY <2>1 DEF Adds
  <1> HIDE DEF m
  <1> USE DEF Numbers
  <1> DEFINE Image(s) == {p[a] : a \in s \cap A}
             Q == {s \in SUBSET D : k[s] = m[Image(s)]}
  <1>4. {} \in Q
    <2>1. Image({}) = {}
      OBVIOUS
    <2>2. QED
      BY <1>1, <1>3, <2>1
  <1>5. ASSUME NEW s \in SUBSET D, s # {}, \A y \in s : s \ {y} \in Q PROVE s \in Q
    <2>1. PICK y \in s : TRUE
      BY <1>5
    <2>2. k[s] = f[y] + m[Image(s \ {y})]
      <3>1. s \ {y} \in Q
        BY <1>5
      <3>2. k[s \ {y}] = m[Image(s \ {y})]
        BY <3>1
      <3>3. k[s] = f[y] + k[s \ {y}]
        BY <1>1
      <3> HIDE DEF Image
      <3>4. QED
        BY <3>2, <3>3
    <2>3. CASE y \notin A
      <3>1. Image(s \ {y}) = Image(s) /\ f[y] = 0
        BY <2>3
      <3>2. m[Image(s)] \in Int
        BY <1>3
      <3> HIDE DEF Image
      <3>3. k[s] = m[Image(s)]
        BY <2>2, <3>1, <3>2
      <3>4. QED
        BY <3>3
    <2>4. CASE y \in A
      <3>1. Image(s \ {y}) = Image(s) \ {p[y]}
        BY <2>4
      <3>2. Image(s) \in SUBSET E /\ p[y] \in Image(s) /\ h[p[y]] = f[y]
        BY <2>4
      <3> HIDE DEF Image
      <3>3. m[Image(s)] = h[p[y]] + m[Image(s) \ {p[y]}]
        BY <1>3, <3>2
      <3>4. k[s] = m[Image(s)]
        BY <2>2, <3>1, <3>2, <3>3
      <3>5. QED
        BY <3>4
    <2>5. QED
      BY <2>3, <2>4
  <1>6. \A s \in SUBSET D : s \in Q
    <2> HIDE DEF Q
    <2>1. Grows(D, Q)
      BY <1>4, <1>5 DEF Grows
    <2>2. QED
      BY <2>1, SubsetsGrow
  <1>7. Image(D) = E
    OBVIOUS
  <1>8. D \in Q
    BY <1>6
  <1>9. QED
    BY <1>1, <1>3, <1>7, <1>8
=============================================================================
