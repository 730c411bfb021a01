---------------------------- MODULE VendorProofs ----------------------------
(***************************************************************************)
(* Shops of any size: the types, the level of the stock, the queues of the *)
(* restock manager and the balance of an order.                            *)
(*                                                                         *)
(* The sums of a bill and of a player's goods are folds and the lines of a *)
(* sell order a recursion.  Both are reached without an induction rule for *)
(* formulas, by the least element of a set: Upto (numbers up to n) and     *)
(* SubsetInduction (subsets of a finite set) say when a set holds all of   *)
(* them, and the formula to be proved is the definition of that set.       *)
(***************************************************************************)
EXTENDS Vendor, FiniteSetTheorems, SequenceTheorems, TLAPS

-----------------------------------------------------------------------------
(* Induction, over a set instead of a formula.                             *)

\* A set of numbers has a least one.
LEMMA Least ==
    ASSUME NEW T, T \subseteq Nat, T # {}
    PROVE  \E m \in T : \A k \in T : m <= k
<1> DEFINE R == OpToRel(<, Nat)
<1>1. IsWellFoundedOn(R, Nat)
  BY NatLessThanWellFounded
<1>2. PICK m \in T : \A y \in T : ~(<<y, m>> \in R)
  <2> HIDE DEF R
  <2> QED  BY <1>1, WFMin
<1>3. \A y \in T : ~(y < m)
  BY <1>2 DEF OpToRel
<1> QED  BY <1>3

\* On a number: from 0, and from each to the next.
LEMMA Upto ==
    ASSUME NEW n \in Nat, NEW T, 0 \in T, \A i \in 0 .. n - 1 : i \in T => i + 1 \in T
    PROVE  0 .. n \subseteq T
<1> DEFINE V == (0 .. n) \ T
<1> SUFFICES ASSUME V # {}
             PROVE  FALSE
  OBVIOUS
<1>1. PICK m \in V : \A k \in V : m <= k
  <2>1. V \subseteq Nat
    OBVIOUS
  <2> HIDE DEF V
  <2> QED  BY <2>1, Least
<1>2. m # 0 /\ m - 1 \in 0 .. n - 1 /\ m - 1 \in T
  BY <1>1
<1> QED  BY <1>1, <1>2

\* On a finite set: from none, and from any subset to one element more.
LEMMA SubsetInduction ==
    ASSUME NEW S, IsFiniteSet(S), NEW U, {} \in U,
           \A T \in SUBSET S : \A x \in S \ T : T \in U => T \cup {x} \in U
    PROVE  SUBSET S \subseteq U
<1> SUFFICES ASSUME (SUBSET S) \ U # {}
             PROVE  FALSE
  OBVIOUS
<1> DEFINE R == StrictSubsetOrdering(S)
<1>1. IsWellFoundedOn(R, SUBSET S)
  BY FS_StrictSubsetOrderingWellFounded, FS_FiniteSubsetsOfFinite
<1>2. PICK T \in (SUBSET S) \ U : \A V \in (SUBSET S) \ U : ~(<<V, T>> \in R)
  <2> HIDE DEF R
  <2> QED  BY <1>1, WFMin
<1>3. PICK x \in T : TRUE
  OBVIOUS
<1>4. T \ {x} \in SUBSET S /\ <<T \ {x}, T>> \in R
  BY <1>3 DEF StrictSubsetOrdering
<1>5. T \ {x} \in U
  BY <1>2, <1>4
<1>6. T = (T \ {x}) \cup {x} /\ x \in S \ (T \ {x})
  BY <1>3
<1> QED  BY <1>4, <1>5, <1>6

-----------------------------------------------------------------------------
(* Sums.                                                                   *)

Chosen(s) == CHOOSE x \in s : TRUE

\* The function FoldFunction() evaluates: the sum over each subset.
Sums(f) ==
    CHOOSE g : g = [s \in SUBSET DOMAIN f |->
                      IF s = {} THEN 0 ELSE f[Chosen(s)] + g[s \ {Chosen(s)}]]

\* SumOf() is the part of all elements.
LEMMA SumOfAll == \A f : SumOf(f) = Sums(f)[DOMAIN f]
BY DEF SumOf, Sums, Chosen, FoldFunction, FoldFunctionOnSet, MapThenFoldSet

\* A set with an element has a chosen one.
LEMMA ChosenIn == \A s : s # {} => Chosen(s) \in s
BY DEF Chosen

\* The function of partial sums exists on a finite domain, and is recursive.
LEMMA SumsDefined ==
    ASSUME NEW D, IsFiniteSet(D), NEW f \in [D -> Int]
    PROVE  /\ Sums(f) \in [SUBSET D -> Int]
           /\ \A s \in SUBSET D : Sums(f)[s] =
                IF s = {} THEN 0 ELSE f[Chosen(s)] + Sums(f)[s \ {Chosen(s)}]
<1> DEFINE N == Cardinality(D)
           Rec(g, s) == g[s] = IF s = {} THEN 0 ELSE f[Chosen(s)] + g[s \ {Chosen(s)}]
           T == {n \in 0 .. N : \E g \in [SUBSET D -> Int] :
                                  \A s \in SUBSET D : Cardinality(s) <= n => Rec(g, s)}
<1>1. N \in Nat /\ \A s \in SUBSET D : IsFiniteSet(s) /\ Cardinality(s) \in 0 .. N
  <2>1. N \in Nat
    BY FS_CardinalityType
  <2>2. \A s \in SUBSET D : IsFiniteSet(s) /\ Cardinality(s) <= N
    BY FS_Subset
  <2> QED  BY <2>1, <2>2, FS_CardinalityType
<1> HIDE DEF N
<1>2. 0 \in T
  <2>1. [s \in SUBSET D |-> 0] \in [SUBSET D -> Int]
    OBVIOUS
  <2>2. \A s \in SUBSET D : Cardinality(s) <= 0 => s = {}
    BY <1>1, FS_EmptySet
  <2>3. 0 \in 0 .. N
    BY <1>1
  <2>4. ASSUME NEW s \in SUBSET D, Cardinality(s) <= 0
        PROVE  [t \in SUBSET D |-> 0][s] = IF s = {} THEN 0 ELSE f[Chosen(s)] + [t \in SUBSET D |-> 0][s \ {Chosen(s)}]
    BY <2>2, <2>4
  <2> DEFINE z == [t \in SUBSET D |-> 0]
  <2>5. z \in [SUBSET D -> Int] /\ \A s \in SUBSET D : Cardinality(s) <= 0 => Rec(z, s)
    BY <2>1, <2>4
  <2> HIDE DEF z
  <2> QED  BY <2>3, <2>5
<1>3. ASSUME NEW n \in 0 .. N - 1, n \in T
      PROVE  n + 1 \in T
  <2>1. PICK g \in [SUBSET D -> Int] : \A s \in SUBSET D : Cardinality(s) <= n => Rec(g, s)
    BY <1>3
  <2> DEFINE h == [s \in SUBSET D |-> IF s = {} THEN 0
                      ELSE IF Cardinality(s) <= n THEN g[s] ELSE f[Chosen(s)] + g[s \ {Chosen(s)}]]
  <2>2. h \in [SUBSET D -> Int]
    <3>1. \A s \in SUBSET D : s # {} => Chosen(s) \in D /\ s \ {Chosen(s)} \in SUBSET D
      BY ChosenIn
    <3> QED  BY <3>1
  <2>3. ASSUME NEW s \in SUBSET D, Cardinality(s) <= n + 1, s # {}
        PROVE  Rec(h, s)
    <3> DEFINE t == s \ {Chosen(s)}
    <3>1. t \in SUBSET D /\ Cardinality(t) = Cardinality(s) - 1 /\ Cardinality(s) \in Nat
      BY <1>1, <2>3, ChosenIn, FS_RemoveElement
    <3>2. h[t] = g[t]
      <4>1. CASE t = {}
        <5>1. g[t] = 0
          <6>1. {} \in SUBSET D /\ Cardinality({}) = 0 /\ n >= 0
            BY <1>1, <1>3, FS_EmptySet
          <6> QED  BY <2>1, <4>1, <6>1
        <5> QED  BY <5>1, <4>1
      <4>2. CASE t # {}
        BY <3>1, <4>2, <2>3
      <4> QED  BY <4>1, <4>2
    <3>3. CASE Cardinality(s) <= n
      <4>1. g[s] = f[Chosen(s)] + g[t]
        BY <2>1, <2>3, <3>3
      <4>2. h[s] = g[s]
        BY <2>3, <3>3
      <4> QED  BY <4>1, <4>2, <3>2, <2>3
    <3>4. CASE ~(Cardinality(s) <= n)
      <4>1. h[s] = f[Chosen(s)] + g[t]
        BY <2>3, <3>4
      <4> QED  BY <4>1, <3>2, <2>3
    <3> QED  BY <3>3, <3>4
  <2>4. \A s \in SUBSET D : Cardinality(s) <= n + 1 => Rec(h, s)
    <3>1. Rec(h, {})
      OBVIOUS
    <3> HIDE DEF h
    <3> QED  BY <3>1, <2>3
  <2> HIDE DEF h
  <2> QED  BY <2>2, <2>4, <1>1
<1>4. N \in T
  <2> HIDE DEF T
  <2> QED  BY <1>1, <1>2, <1>3, Upto
<1>5. PICK g \in [SUBSET D -> Int] : \A s \in SUBSET D : Rec(g, s)
  <2>1. PICK g \in [SUBSET D -> Int] : \A s \in SUBSET D : Cardinality(s) <= N => Rec(g, s)
    BY <1>4
  <2>2. \A s \in SUBSET D : Cardinality(s) <= N
    BY <1>1
  <2>3. \A s \in SUBSET D : Rec(g, s)
    BY <2>1, <2>2
  <2> QED  BY <2>3
<1>6. g = [s \in SUBSET D |-> IF s = {} THEN 0 ELSE f[Chosen(s)] + g[s \ {Chosen(s)}]]
  BY <1>5
<1>7. DOMAIN f = D
  OBVIOUS
<1> DEFINE c == Sums(f)
<1>8. c = [s \in SUBSET D |-> IF s = {} THEN 0 ELSE f[Chosen(s)] + c[s \ {Chosen(s)}]]
  BY <1>6, <1>7 DEF Sums
<1> HIDE DEF c
<1>9. \A s \in SUBSET D : Rec(c, s)
  BY <1>8
<1>10. SUBSET D \subseteq {s \in SUBSET D : c[s] = g[s]}
  <2> DEFINE U == {n \in 0 .. N : \A s \in SUBSET D : Cardinality(s) <= n => c[s] = g[s]}
  <2>1. 0 \in U
    <3>1. \A s \in SUBSET D : Cardinality(s) <= 0 => s = {}
      BY <1>1, FS_EmptySet
    <3> QED  BY <1>1, <1>5, <1>9, <3>1
  <2>2. ASSUME NEW n \in 0 .. N - 1, n \in U
        PROVE  n + 1 \in U
    <3>1. ASSUME NEW s \in SUBSET D, Cardinality(s) <= n + 1
          PROVE  c[s] = g[s]
      <4>1. CASE s = {}
        BY <4>1, <1>5, <1>9
      <4>2. CASE s # {}
        <5> DEFINE t == s \ {Chosen(s)}
        <5>1. t \in SUBSET D /\ Cardinality(t) <= n
          BY <1>1, <3>1, <4>2, ChosenIn, FS_RemoveElement
        <5>2. c[t] = g[t]
          BY <5>1, <2>2
        <5>3. c[s] = f[Chosen(s)] + c[t] /\ g[s] = f[Chosen(s)] + g[t]
          BY <4>2, <1>5, <1>9
        <5> QED  BY <5>2, <5>3
      <4> QED  BY <4>1, <4>2
    <3> QED  BY <3>1, <1>1
  <2>3. N \in U
    <3> HIDE DEF U
    <3> QED  BY <1>1, <2>1, <2>2, Upto
  <2> QED  BY <2>3, <1>1
<1>11. c = g
  BY <1>8, <1>10
<1> QED  BY <1>5, <1>11 DEF c

\* A part of a sum, of the elements of s.
Part(f, s) == Sums(f)[s]

\* A sum does not depend on the element it begins with.
LEMMA AnyFirst ==
    ASSUME NEW D, IsFiniteSet(D), NEW f \in [D -> Int], NEW s \in SUBSET D, NEW x \in s
    PROVE  Sums(f)[s] = f[x] + Sums(f)[s \ {x}]
<1> DEFINE g == Sums(f)
           N == Cardinality(D)
           U == {n \in 0 .. N : \A t \in SUBSET D : \A y \in t :
                                  Cardinality(t) <= n => g[t] = f[y] + g[t \ {y}]}
<1>1. g \in [SUBSET D -> Int] /\ \A t \in SUBSET D : t # {} => g[t] = f[Chosen(t)] + g[t \ {Chosen(t)}]
  BY SumsDefined
<1>2. N \in Nat /\ \A t \in SUBSET D : IsFiniteSet(t) /\ Cardinality(t) \in 0 .. N
  <2>1. N \in Nat
    BY FS_CardinalityType
  <2>2. \A t \in SUBSET D : IsFiniteSet(t) /\ Cardinality(t) <= N
    BY FS_Subset
  <2> QED  BY <2>1, <2>2, FS_CardinalityType
<1> HIDE DEF g, N
<1>3. 0 \in U
  <2>1. \A t \in SUBSET D : Cardinality(t) <= 0 => t = {}
    BY <1>2, FS_EmptySet
  <2> QED  BY <1>2, <2>1
<1>4. ASSUME NEW n \in 0 .. N - 1, n \in U
      PROVE  n + 1 \in U
  <2>1. ASSUME NEW t \in SUBSET D, NEW y \in t, Cardinality(t) <= n + 1
        PROVE  g[t] = f[y] + g[t \ {y}]
    <3> DEFINE c == Chosen(t)
    <3>1. c \in t /\ g[t] = f[c] + g[t \ {c}]
      BY <1>1, ChosenIn
    <3> HIDE DEF c
    <3>2. CASE c = y
      BY <3>1, <3>2
    <3>3. CASE c # y
      <4>1. Cardinality(t \ {c}) <= n /\ Cardinality(t \ {y}) <= n
        <5>1. IsFiniteSet(t) /\ Cardinality(t) \in Nat
          BY <1>2
        <5>2. Cardinality(t \ {c}) = Cardinality(t) - 1
          BY <5>1, <3>1, FS_RemoveElement
        <5>3. Cardinality(t \ {y}) = Cardinality(t) - 1
          BY <5>1, FS_RemoveElement
        <5> QED  BY <5>1, <5>2, <5>3, <2>1
      <4>2. g[t \ {c}] = f[y] + g[(t \ {c}) \ {y}]
        BY <1>4, <4>1, <3>3
      <4>3. g[t \ {y}] = f[c] + g[(t \ {y}) \ {c}]
        BY <1>4, <4>1, <3>1, <3>3
      <4>4. (t \ {c}) \ {y} = (t \ {y}) \ {c}
        OBVIOUS
      <4>5. g[(t \ {y}) \ {c}] \in Int /\ f[c] \in Int /\ f[y] \in Int
        BY <1>1, <3>1
      <4>6. g[t] = f[c] + (f[y] + g[(t \ {y}) \ {c}])
        BY <3>1, <4>2, <4>4
      <4> HIDE DEF U
      <4> QED  BY <4>3, <4>5, <4>6
    <3> QED  BY <3>2, <3>3
  <2> QED  BY <2>1, <1>2
<1>5. N \in U
  <2> HIDE DEF U
  <2> QED  BY <1>2, <1>3, <1>4, Upto
<1> QED  BY <1>2, <1>5 DEF g

\* What the lemmas below use of a sum.
LEMMA Parts ==
    ASSUME NEW D, IsFiniteSet(D), NEW f \in [D -> Int]
    PROVE  /\ SumOf(f) = Part(f, D)
           /\ Part(f, {}) = 0
           /\ \A s \in SUBSET D : Part(f, s) \in Int
           /\ \A s \in SUBSET D : \A x \in D \ s : Part(f, s \cup {x}) = Part(f, s) + f[x]
<1>1. DOMAIN f = D
  OBVIOUS
<1>2. Sums(f)[{}] = 0 /\ \A s \in SUBSET D : Sums(f)[s] \in Int
  <2>1. {} \in SUBSET D /\ Sums(f) \in [SUBSET D -> Int]
    BY SumsDefined
  <2>2. Sums(f)[{}] = 0
    BY <2>1, SumsDefined
  <2> QED  BY <2>1, <2>2
<1>3. ASSUME NEW s \in SUBSET D, NEW x \in D \ s
      PROVE  Sums(f)[s \cup {x}] = Sums(f)[s] + f[x]
  <2>1. (s \cup {x}) \ {x} = s
    OBVIOUS
  <2>2. Sums(f)[s \cup {x}] = f[x] + Sums(f)[s]
    BY <2>1, AnyFirst
  <2> QED  BY <1>2, <2>2
<1> QED  BY <1>1, <1>2, <1>3, SumOfAll DEF Part

\* A sum of integers is an integer.
LEMMA SumInt ==
    ASSUME NEW D, IsFiniteSet(D), NEW f \in [D -> Int]
    PROVE  SumOf(f) \in Int
BY Parts

\* Sums over disjoint sets add up.
LEMMA PartUnion ==
    ASSUME NEW D, IsFiniteSet(D), NEW f \in [D -> Int],
           NEW A \in SUBSET D, NEW B \in SUBSET D, \A x \in B : x \notin A
    PROVE  Part(f, A \cup B) = Part(f, A) + Part(f, B)
<1> DEFINE U == {s \in SUBSET B : Part(f, A \cup s) = Part(f, A) + Part(f, s)}
<1>1. IsFiniteSet(B)
  BY FS_Subset
<1>2. {} \in U
  <2>1. A \cup {} = A
    OBVIOUS
  <2> QED  BY <2>1, Parts
<1>3. ASSUME NEW s \in SUBSET B, NEW x \in B \ s, s \in U
      PROVE  s \cup {x} \in U
  <2>1. Part(f, s \cup {x}) = Part(f, s) + f[x]
    BY Parts
  <2>2. A \cup (s \cup {x}) = (A \cup s) \cup {x} /\ A \cup s \in SUBSET D /\ x \in D \ (A \cup s)
    OBVIOUS
  <2>3. Part(f, A \cup (s \cup {x})) = Part(f, A \cup s) + f[x]
    <3> DEFINE a == A \cup s
    <3>1. a \in SUBSET D /\ x \in D \ a /\ A \cup (s \cup {x}) = a \cup {x}
      BY <2>2
    <3> HIDE DEF a, U
    <3>2. Part(f, a \cup {x}) = Part(f, a) + f[x]
      BY <3>1, Parts
    <3> QED  BY <3>1, <3>2 DEF a
  <2>4. Part(f, A) \in Int /\ Part(f, s) \in Int /\ f[x] \in Int
    BY Parts
  <2> QED  BY <1>3, <2>1, <2>3, <2>4
<1>4. SUBSET B \subseteq U
  <2> HIDE DEF U
  <2>1. \A s \in SUBSET B : \A x \in B \ s : s \in U => s \cup {x} \in U
    BY <1>3
  <2> QED  BY <1>1, <1>2, <2>1, SubsetInduction
<1> QED  BY <1>4

\* A sum of n equal numbers.
LEMMA PartConstant ==
    ASSUME NEW D, IsFiniteSet(D), NEW f \in [D -> Int],
           NEW B \in SUBSET D, NEW c \in Int, \A x \in B : f[x] = c
    PROVE  Part(f, B) = Cardinality(B) * c
<1> DEFINE U == {s \in SUBSET B : Part(f, s) = Cardinality(s) * c}
<1>1. \A s \in SUBSET B : IsFiniteSet(s) /\ Cardinality(s) \in Nat
  BY FS_Subset, FS_CardinalityType
<1>2. {} \in U
  BY Parts, FS_EmptySet
<1>3. ASSUME NEW s \in SUBSET B, NEW x \in B \ s, s \in U
      PROVE  s \cup {x} \in U
  <2>1. Part(f, s \cup {x}) = Part(f, s) + c
    BY Parts
  <2>2. Cardinality(s \cup {x}) = Cardinality(s) + 1
    BY <1>1, FS_AddElement
  <2>3. \A n \in Nat : n * c + c = (n + 1) * c
    OBVIOUS
  <2> QED  BY <1>1, <1>3, <2>1, <2>2, <2>3
<1>4. SUBSET B \subseteq U
  <2>1. IsFiniteSet(B)
    BY <1>1
  <2> HIDE DEF U
  <2> QED  BY <2>1, <1>2, <1>3, SubsetInduction
<1> QED  BY <1>4

\* A sum grows with each of its numbers.
LEMMA SumMonotone ==
    ASSUME NEW D, IsFiniteSet(D), NEW f \in [D -> Int], NEW h \in [D -> Int],
           \A x \in D : f[x] <= h[x]
    PROVE  SumOf(f) <= SumOf(h)
<1> DEFINE U == {s \in SUBSET D : Part(f, s) <= Part(h, s)}
<1>1. {} \in U
  BY Parts
<1>2. ASSUME NEW s \in SUBSET D, NEW x \in D \ s, s \in U
      PROVE  s \cup {x} \in U
  <2>1. /\ Part(f, s \cup {x}) = Part(f, s) + f[x]
        /\ Part(h, s \cup {x}) = Part(h, s) + h[x]
    BY Parts
  <2>2. Part(f, s) \in Int /\ Part(h, s) \in Int
    BY Parts
  <2> QED  BY <1>2, <2>1, <2>2
<1>3. SUBSET D \subseteq U
  <2> HIDE DEF U
  <2> QED  BY <1>1, <1>2, SubsetInduction
<1> QED  BY <1>3, Parts

\* The difference of sums is the sum of differences.
LEMMA SumDifference ==
    ASSUME NEW D, IsFiniteSet(D), NEW f \in [D -> Int], NEW h \in [D -> Int]
    PROVE  SumOf([x \in D |-> f[x] - h[x]]) = SumOf(f) - SumOf(h)
<1> DEFINE d == [x \in D |-> f[x] - h[x]]
           U == {s \in SUBSET D : Part(d, s) = Part(f, s) - Part(h, s)}
<1>0. d \in [D -> Int] /\ \A x \in D : d[x] = f[x] - h[x]
  OBVIOUS
<1> HIDE DEF d
<1>1. {} \in U
  BY <1>0, Parts
<1>2. ASSUME NEW s \in SUBSET D, NEW x \in D \ s, s \in U
      PROVE  s \cup {x} \in U
  <2>1. /\ Part(f, s \cup {x}) = Part(f, s) + f[x]
        /\ Part(h, s \cup {x}) = Part(h, s) + h[x]
    BY Parts
  <2>2. Part(d, s \cup {x}) = Part(d, s) + d[x]
    BY <1>0, Parts
  <2>3. Part(f, s) \in Int /\ Part(h, s) \in Int /\ f[x] \in Int /\ h[x] \in Int
    BY Parts
  <2> QED  BY <1>0, <1>2, <2>1, <2>2, <2>3
<1>3. SUBSET D \subseteq U
  <2> HIDE DEF U
  <2> QED  BY <1>1, <1>2, SubsetInduction
<1>4. SumOf(d) = Part(d, D)
  BY <1>0, Parts
<1> QED  BY <1>3, <1>4, Parts DEF d

-----------------------------------------------------------------------------
(* The queues of the restock manager.                                      *)

Rotated(q, c) == SubSeq(q, c + 1, Len(q)) \o SubSeq(q, 1, c)

\* Nothing is lost or doubled by moving the head of a queue to its end.
LEMMA Rotation ==
    ASSUME NEW S, NEW q \in Seq(S), NEW c \in 0 .. Len(q), IsInjective(q)
    PROVE  /\ Rotated(q, c) \in Seq(S)
           /\ Len(Rotated(q, c)) = Len(q)
           /\ IsInjective(Rotated(q, c))
<1> DEFINE a == SubSeq(q, c + 1, Len(q))
           b == SubSeq(q, 1, c)
           at == [i \in 1 .. Len(q) |-> IF i <= Len(q) - c THEN c + i ELSE i - (Len(q) - c)]
<1>1. a \in Seq(S) /\ Len(a) = Len(q) - c /\ \A i \in 1 .. Len(q) - c : a[i] = q[c + i]
  OBVIOUS
<1>2. b \in Seq(S) /\ Len(b) = c /\ \A i \in 1 .. c : b[i] = q[i]
  OBVIOUS
<1> HIDE DEF a, b
<1>3. a \o b \in Seq(S) /\ Len(a \o b) = Len(q) /\ \A i \in 1 .. Len(q) :
        (a \o b)[i] = IF i <= Len(q) - c THEN q[c + i] ELSE q[i - (Len(q) - c)]
  <2>1. a \in Seq(S) /\ b \in Seq(S)
    BY <1>1, <1>2
  <2>2. /\ a \o b \in Seq(S)
        /\ Len(a \o b) = Len(a) + Len(b)
        /\ \A i \in 1 .. Len(a) + Len(b) : (a \o b)[i] = IF i <= Len(a) THEN a[i] ELSE b[i - Len(a)]
    BY <2>1, ConcatProperties, Zenon
  <2> DEFINE e == a \o b
  <2> HIDE DEF e
  <2>3. /\ e \in Seq(S)
        /\ Len(e) = Len(a) + Len(b)
        /\ \A i \in 1 .. Len(a) + Len(b) : e[i] = IF i <= Len(a) THEN a[i] ELSE b[i - Len(a)]
    BY <2>2 DEF e
  <2>4. Len(e) = Len(q)
    BY <1>1, <1>2, <2>3
  <2>5. ASSUME NEW i \in 1 .. Len(q)
        PROVE  e[i] = IF i <= Len(q) - c THEN q[c + i] ELSE q[i - (Len(q) - c)]
    <3>1. CASE i <= Len(q) - c
      BY <1>1, <1>2, <2>3, <3>1
    <3>2. CASE ~(i <= Len(q) - c)
      <4>1. e[i] = b[i - (Len(q) - c)]
        BY <1>1, <1>2, <2>3, <3>2
      <4>2. i - (Len(q) - c) \in 1 .. c
        BY <3>2
      <4> QED  BY <1>2, <3>2, <4>1, <4>2
    <3> QED  BY <3>1, <3>2
  <2> QED  BY <2>3, <2>4, <2>5 DEF e
<1>4. ASSUME NEW i \in 1 .. Len(q)
      PROVE  (a \o b)[i] = q[at[i]]
  BY <1>3
<1>5. \A i, j \in 1 .. Len(q) : at[i] \in 1 .. Len(q) /\ (at[i] = at[j] => i = j)
  OBVIOUS
<1>6. IsInjective(a \o b)
  <2> SUFFICES ASSUME NEW i \in 1 .. Len(q), NEW j \in 1 .. Len(q), (a \o b)[i] = (a \o b)[j]
               PROVE  i = j
    <3> DEFINE e == a \o b
    <3>1. e \in Seq(S) /\ Len(e) = Len(q)
      BY <1>3
    <3> HIDE DEF e
    <3>2. DOMAIN e = 1 .. Len(q)
      BY <3>1
    <3> QED  BY <3>2 DEF IsInjective, e
  <2> HIDE DEF at
  <2>1. q[at[i]] = q[at[j]]
    BY <1>4
  <2>2. at[i] = at[j]
    BY <1>5, <2>1 DEF IsInjective
  <2> QED  BY <1>5, <2>2
<1> QED  BY <1>3, <1>6 DEF Rotated, a, b

Queues ==
    /\ need \in Seq(Vendors) /\ done \in Seq(Vendors)
    /\ QueuedOnce

\* The restock manager begins with every shopkeeper in one queue.
LEMMA QueuesInit == Init => Queues
<1> SUFFICES ASSUME Init
             PROVE  Queues
  OBVIOUS
<1>1. Cardinality(Vendors) \in Nat
  BY FiniteAssumption, FS_CardinalityType
<1>2. need \in Seq(Vendors) /\ Len(need) = Cardinality(Vendors) /\ IsInjective(need) /\ done = <<>>
  BY <1>1 DEF Init
<1>3. need \o done = need
  BY <1>2
<1> QED  BY <1>2, <1>3 DEF Queues, QueuedOnce

\* doRestock() moves those it served to the end of the other queue: a rotation.
LEMMA QueuesDoRestock == Queues /\ DoRestock => Queues'
<1> SUFFICES ASSUME Queues, DoRestock
             PROVE  Queues'
  OBVIOUS
<1> USE DEF Queues
<1> DEFINE queue == IF need = <<>> THEN done ELSE need
           old == IF need = <<>> THEN <<>> ELSE done
           count == IF PerTime - 1 < Len(queue) THEN PerTime - 1 ELSE Len(queue)
           all == need \o done
<1>1. queue \in Seq(Vendors) /\ old \in Seq(Vendors) /\ all = queue \o old
  OBVIOUS
<1>2. need' = SubSeq(queue, count + 1, Len(queue)) /\ done' = old \o SubSeq(queue, 1, count)
  BY DEF DoRestock
<1>3. count \in 0 .. Len(queue)
  BY <1>1, NumbersAssumption
<1> HIDE DEF queue, old, count
<1>4. need' \in Seq(Vendors) /\ done' \in Seq(Vendors)
  BY <1>1, <1>2, <1>3
<1>5. need' \o done' = Rotated(all, count)
  <2> DEFINE a == SubSeq(queue, count + 1, Len(queue))
             b == SubSeq(queue, 1, count)
  <2>1. /\ a \in Seq(Vendors) /\ Len(a) = Len(queue) - count
        /\ \A i \in 1 .. Len(queue) - count : a[i] = queue[count + i]
        /\ b \in Seq(Vendors) /\ Len(b) = count
        /\ \A i \in 1 .. count : b[i] = queue[i]
    BY <1>1, <1>3
  <2>2. SubSeq(all, 1, count) = b
    BY <1>1, <1>3
  <2>3. SubSeq(all, count + 1, Len(all)) = a \o old
    <3>1. Len(all) = Len(queue) + Len(old)
      BY <1>1
    <3> DEFINE s == SubSeq(all, count + 1, Len(all))
               t == a \o old
    <3>2. s \in Seq(Vendors) /\ Len(s) = Len(all) - count /\ \A i \in 1 .. Len(s) : s[i] = all[count + i]
      <4>1. all \in Seq(Vendors) /\ count \in 0 .. Len(all)
        BY <1>1, <1>3, <3>1
      <4>2. \A q \in Seq(Vendors), n \in Nat : n <= Len(q) =>
              LET r == SubSeq(q, n + 1, Len(q)) IN
              r \in Seq(Vendors) /\ Len(r) = Len(q) - n /\ \A i \in 1 .. Len(r) : r[i] = q[n + i]
        OBVIOUS
      <4> HIDE DEF all
      <4> QED  BY <4>1, <4>2
    <3>3. t \in Seq(Vendors) /\ Len(t) = Len(all) - count
      <4>1. a \in Seq(Vendors) /\ old \in Seq(Vendors)
        BY <1>1, <2>1
      <4>2. a \o old \in Seq(Vendors) /\ Len(a \o old) = Len(a) + Len(old)
        BY <4>1, ConcatProperties, Zenon
      <4> HIDE DEF a, all
      <4> QED  BY <4>2, <1>3, <2>1, <3>1
    <3>4. ASSUME NEW i \in 1 .. Len(t)
          PROVE  t[i] = all[count + i]
      BY <1>1, <1>3, <2>1, <3>1
    <3> HIDE DEF s, t, a, all
    <3> QED  BY <3>2, <3>3, <3>4 DEF s, t
  <2> HIDE DEF all, a, b
  <2>4. a \o (old \o b) = (a \o old) \o b
    <3>1. a \in Seq(Vendors)
      BY <2>1
    <3>2. old \in Seq(Vendors) /\ b \in Seq(Vendors)
      BY <1>1, <2>1
    <3>3. (a \o old) \o b = a \o (old \o b)
      BY ONLY <3>1, <3>2, ConcatAssociative
    <3> QED  BY <3>3
  <2> QED  BY <1>2, <2>2, <2>3, <2>4 DEF Rotated, a, b
<1>6. count \in 0 .. Len(all) /\ all \in Seq(Vendors) /\ IsInjective(all) /\ Len(all) = Cardinality(Vendors)
  BY <1>1, <1>3 DEF QueuedOnce
<1> HIDE DEF all
<1>7. /\ Len(Rotated(all, count)) = Len(all)
      /\ IsInjective(Rotated(all, count))
  BY <1>6, Rotation
<1> QED  BY <1>4, <1>5, <1>6, <1>7 DEF QueuedOnce

\* Trade does not touch the queues.
LEMMA TradeKeepsQueues ==
    ASSUME NEW p \in Players, Trade(p)
    PROVE  UNCHANGED <<need, done>>
<1>1. ASSUME NEW v \in Vendors, NEW order, NEW made, Buy(p, v, order, made)
      PROVE  UNCHANGED <<need, done>>
  BY <1>1 DEF Buy, manager
<1>2. ASSUME NEW v \in Vendors, NEW x, NEW n, BuySold(p, v, x, n) \/ SellMenu(p, v)
      PROVE  UNCHANGED <<need, done>>
  BY <1>2 DEF BuySold, SellMenu, manager
<1>3. ASSUME NEW lines, Sell(p, lines)
      PROVE  UNCHANGED <<need, done>>
  BY <1>3 DEF Sell, manager
<1>4. ASSUME NEW x, UseUp(p, x) \/ \E q \in Players : HandOver(p, q, x)
      PROVE  UNCHANGED <<need, done>>
  BY <1>4 DEF UseUp, HandOver, manager
<1>5. ASSUME NEW x, NEW k, NEW n, Find(p, x, k, n)
      PROVE  UNCHANGED <<need, done>>
  BY <1>5 DEF Find, manager
<1>6. CASE CloseMenu(p)
  BY <1>6 DEF CloseMenu, manager
<1> QED  BY <1>1, <1>2, <1>3, <1>4, <1>5, <1>6 DEF Trade

\* Every step keeps them.
LEMMA QueuesStep == Queues /\ [Next]_vars => Queues'
<1> SUFFICES ASSUME Queues, [Next]_vars
             PROVE  Queues'
  OBVIOUS
<1>1. CASE DoRestock
  BY <1>1, QueuesDoRestock
<1>2. CASE DoRestockAll
  <2>1. need' = <<>> /\ done' = need \o done
    BY <1>2 DEF DoRestockAll
  <2>2. need' \o done' = need \o done
    BY <2>1 DEF Queues
  <2> QED  BY <2>1, <2>2 DEF Queues, QueuedOnce
<1>3. CASE UNCHANGED <<need, done>>
  BY <1>3 DEF Queues, QueuedOnce
<1> QED
  <2>1. ASSUME NEW p \in Players, Trade(p)
        PROVE  UNCHANGED <<need, done>>
    BY <2>1, TradeKeepsQueues
  <2>2. CASE GoHome
    BY <2>2, <1>3 DEF GoHome, manager
  <2>3. CASE UNCHANGED vars
    BY <2>3, <1>3 DEF vars, manager
  <2> QED  BY <1>1, <1>2, <1>3, <2>1, <2>2, <2>3 DEF Next

\* Every shopkeeper stays in the queues of cRestockMng, once: whatever
\* doRestock() and doRestockAll() move, none is lost or served twice a round.
THEOREM EachQueuedOnce == Spec => []QueuedOnce
<1>1. Queues => QueuedOnce
  BY DEF Queues
<1> QED  BY QueuesInit, QueuesStep, <1>1, PTL DEF Spec

-----------------------------------------------------------------------------
(* Types, and the level of the stock.                                      *)

Shelf == [amount : Int, restock : Int]
Shelves == [Vendors -> [Stocked -> Shelf]]
Thing == [kind : Kinds, amount : Nat \ {0}, at : Players \cup Vendors]
Level(s) == \A v \in Vendors, k \in Stocked : s[v][k].amount + s[v][k].restock = Full /\ s[v][k].amount >= 0
MenuOK ==
    menu \in [Players -> {NoMenu} \cup [vendor : Vendors, shown : UNION {[S -> Nat] : S \in SUBSET Items}]]

\* TypeOK without the queues, and with the domain and the range of menu.
Types ==
    /\ stock \in Shelves
    /\ item \in [Items -> Thing \cup {Gone}]
    /\ purse \in [Players -> Nat] /\ bank \in [Players -> Nat]
    /\ MenuOK
    /\ open \in BOOLEAN

Inv == Types /\ StockLevel

\* An item that is gone is no thing.
LEMMA GoneIsNowhere ==
    /\ Gone.kind = NoKind /\ Gone.at = Nowhere /\ Gone.amount = 0
    /\ Gone \notin Thing
BY PlacesAssumption DEF Gone, Thing

\* A price is a number.
LEMMA PriceIsNat == \A k \in Kinds : Price[k] \in Nat
BY KindsAssumption

\* An item of which units are taken is a thing or gone.
LEMMA ReducedType ==
    ASSUME NEW it \in Thing, NEW n \in Nat \ {0}
    PROVE  Reduced(it, n) \in Thing \cup {Gone}
BY DEF Reduced, Thing

\* An item made for an order is a thing.
LEMMA MadeType ==
    ASSUME NEW k \in Kinds, NEW n \in Nat \ {0}, NEW p \in Players
    PROVE  Made(k, n, p) \in Thing
BY DEF Made, Thing

\* What DeleteAmount() takes is no more than it is asked for, and all of that
\* where an SI16 holds it.
LEMMA TakenIsPart ==
    ASSUME NEW n \in Nat, NEW c \in CoinsTaken(n)
    PROVE  c \in Int /\ c <= n /\ (n < HalfWord => c = n)
<1> DEFINE m == (n + HalfWord) % (2 * HalfWord)
           w == n % (2 * HalfWord)
<1>1. m \in Nat /\ m <= n + HalfWord /\ (n < HalfWord => m = n + HalfWord)
  BY NumbersAssumption
<1>2. w \in Nat /\ w <= n /\ (n < HalfWord => w = n)
  BY NumbersAssumption
<1>3. c = m - HalfWord \/ c = w
  BY DEF CoinsTaken, Short
<1> HIDE DEF m, w
<1> QED  BY <1>1, <1>2, <1>3, NumbersAssumption

\* Coins are not less than nothing, whatever SI16 the bill becomes.
LEMMA PaysType ==
    ASSUME NEW p \in Players, NEW bill \in Nat, Pays(p, bill),
           purse \in [Players -> Nat], bank \in [Players -> Nat]
    PROVE  purse' \in [Players -> Nat] /\ bank' \in [Players -> Nat]
<1>1. ASSUME NEW coins \in Nat, NEW c \in CoinsTaken(bill)
      PROVE  Less(coins, c) \in Nat
  BY TakenIsPart DEF Less
<1>2. CASE p \in GMs
  BY <1>2 DEF Pays
<1>3. CASE p \notin GMs
  <2>1. PICK c \in CoinsTaken(bill) :
            IF bill >= CheckBank
            THEN bank' = [bank EXCEPT ![p] = Less(@, c)] /\ UNCHANGED purse
            ELSE purse' = [purse EXCEPT ![p] = Less(@, c)] /\ UNCHANGED bank
    BY <1>3 DEF Pays
  <2> QED  BY <1>1, <2>1
<1> QED  BY <1>2, <1>3

\* A bill is a number.
LEMMA BillType ==
    ASSUME NEW order \in [Stocked -> 0 .. MaxOrder]
    PROVE  /\ [k \in Stocked |-> order[k] * Price[k]] \in [Stocked -> Nat]
           /\ SumOf([k \in Stocked |-> order[k] * Price[k]]) \in Nat
<1> DEFINE b == [k \in Stocked |-> order[k] * Price[k]]
           z == [k \in Stocked |-> 0]
<1>1. b \in [Stocked -> Nat]
  <2>1. \A m, n \in Nat : m * n \in Nat
    OBVIOUS
  <2>2. \A k \in Stocked : order[k] \in Nat /\ Price[k] \in Nat
    BY NumbersAssumption, KindsAssumption
  <2> QED  BY <2>1, <2>2
<1>2. b \in [Stocked -> Int] /\ z \in [Stocked -> Int] /\ \A k \in Stocked : z[k] <= b[k]
  BY <1>1
<1>3. \A k \in Stocked : z[k] = 0
  OBVIOUS
<1> HIDE DEF b, z
<1>4. SumOf(z) <= SumOf(b) /\ SumOf(b) \in Int
  BY <1>2, FiniteAssumption, SumMonotone, SumInt
<1>5. SumOf(z) = 0
  <2>1. Part(z, Stocked) = Cardinality(Stocked) * 0
    BY <1>2, <1>3, FiniteAssumption, PartConstant
  <2>2. SumOf(z) = Part(z, Stocked)
    BY <1>2, FiniteAssumption, Parts
  <2>3. Cardinality(Stocked) \in Nat
    BY FiniteAssumption, FS_CardinalityType
  <2> QED  BY <2>1, <2>2, <2>3
<1> QED  BY <1>1, <1>4, <1>5 DEF b

-----------------------------------------------------------------------------
(* Selling: what the lines leave behind, one after the other.              *)

\* What a line of an order may find: shelves that are not poorer than before.
Lefts ==
    {l \in [stock : Shelves, item : [Items -> Thing \cup {Gone}], join : Stocked \cup {NoKind},
            value : Nat, bill : Nat, refused : BOOLEAN] :
        /\ Level(l.stock)
        /\ \A v \in Vendors, k \in Stocked : l.stock[v][k].amount >= stock[v][k].amount}

\* One line of a sell order leaves the shelves on their level, and not poorer.
LEMMA LineLeaves ==
    ASSUME Inv, NEW left \in Lefts, NEW line \in Lines, NEW p \in Players, NEW v \in Vendors
    PROVE  SellLine(left, line, p, v) \in Lefts
<1> DEFINE x == line.x
           n == line.n
           it == left.item[x]
           join == IF it.kind \in Stocked THEN it.kind ELSE left.join
           value == IF it.kind \in Priced THEN Price[it.kind] ELSE left.value
           bill == left.bill + n * value
           copy == IF it.amount = n THEN {} ELSE {line.new}
           joined == [left EXCEPT !.join = join, !.value = value, !.bill = bill,
                        !.stock[v][join] = Joined(@, n),
                        !.item[x] = Reduced(@, n)]
           shelved == [left EXCEPT !.value = value, !.bill = bill,
                        !.item = [y \in Items |->
                           IF y = x THEN [it EXCEPT !.at = v]
                           ELSE IF y \in copy THEN [it EXCEPT !.amount = it.amount - n, !.at = p]
                           ELSE left.item[y]]]
<1>1. /\ x \in Items /\ n \in Nat \ {0}
      /\ it \in Thing \cup {Gone}
      /\ left.stock \in Shelves /\ left.item \in [Items -> Thing \cup {Gone}]
      /\ left.join \in Stocked \cup {NoKind} /\ left.value \in Nat /\ left.bill \in Nat
      /\ Level(left.stock)
      /\ \A w \in Vendors, k \in Stocked : left.stock[w][k].amount >= stock[w][k].amount
  BY NumbersAssumption DEF Lines, Lefts
<1>0. left \in [stock : Shelves, item : [Items -> Thing \cup {Gone}], join : Stocked \cup {NoKind},
                value : Nat, bill : Nat, refused : BOOLEAN]
  BY DEF Lefts
<1>2. CASE left.refused \/ it = Gone
  BY <1>2 DEF SellLine
<1>3. CASE ~(left.refused \/ it = Gone) /\ it.amount < n
  <2>1. SellLine(left, line, p, v) = [left EXCEPT !.refused = TRUE]
    BY <1>3 DEF SellLine
  <2> QED  BY <2>1 DEF Lefts
<1>4. CASE ~(left.refused \/ it = Gone) /\ ~(it.amount < n)
  <2>1. /\ it \in Thing /\ it.amount >= n
        /\ value \in Nat /\ join \in Stocked \cup {NoKind}
    <3>1. it \in Thing /\ it.amount >= n
      BY <1>1, <1>4 DEF Thing
    <3>2. Priced \subseteq Kinds
      BY KindsAssumption
    <3> QED  BY <1>1, <3>1, <3>2, PriceIsNat DEF Thing
  <2>2. bill \in Nat
    <3>1. \A a, b, c \in Nat : a + b * c \in Nat
      OBVIOUS
    <3> HIDE DEF value, n
    <3> QED  BY <3>1, <2>1, <1>1
  <2>3. CASE join # NoKind
    <3>1. SellLine(left, line, p, v) = joined
      BY <1>4, <2>3 DEF SellLine
    <3>2. join \in Stocked
      BY <2>1, <2>3
    <3> DEFINE s == [left.stock EXCEPT ![v][join] = Joined(@, n)]
               i == [left.item EXCEPT ![x] = Reduced(@, n)]
    <3>3. joined = [stock |-> s, item |-> i, join |-> join, value |-> value, bill |-> bill, refused |-> left.refused]
      <4> HIDE DEF join, value, bill, n, x, s, i
      <4>2. joined = [left EXCEPT !.join = join, !.value = value, !.bill = bill, !.stock = s, !.item = i]
        BY <1>0 DEF s, i
      <4> HIDE DEF joined
      <4> QED  BY <1>0, <4>2
    <3>4. i \in [Items -> Thing \cup {Gone}]
      <4>1. Reduced(it, n) \in Thing \cup {Gone}
        BY <1>1, <2>1, ReducedType
      <4> QED  BY <1>1, <4>1
    <3> HIDE DEF join, n
    <3>5. /\ s \in Shelves /\ Level(s)
          /\ \A w \in Vendors, k \in Stocked : s[w][k].amount >= stock[w][k].amount
      <4>1. left.stock[v][join] \in Shelf
        BY <1>1, <3>2 DEF Shelves
      <4>2. /\ Joined(left.stock[v][join], n) \in Shelf
            /\ Joined(left.stock[v][join], n).amount = left.stock[v][join].amount + n
            /\ Joined(left.stock[v][join], n).restock = left.stock[v][join].restock - n
        BY <1>1, <4>1 DEF Joined, Shelf
      <4>3. s \in Shelves
        BY <1>1, <3>2, <4>2 DEF Shelves
      <4>4. ASSUME NEW w \in Vendors, NEW k \in Stocked
            PROVE  /\ s[w][k].amount + s[w][k].restock = Full /\ s[w][k].amount >= 0
                   /\ s[w][k].amount >= stock[w][k].amount
        <5>1. left.stock[w][k] \in Shelf /\ stock[w][k] \in Shelf
          BY <1>1 DEF Shelves, Inv, Types, Shelf
        <5>2. left.stock[w][k].amount + left.stock[w][k].restock = Full /\ left.stock[w][k].amount >= 0
          BY <1>1 DEF Level
        <5>3. CASE w = v /\ k = join
          <6>1. s[w][k] = Joined(left.stock[v][join], n)
            BY <1>1, <3>2, <5>3 DEF Shelves
          <6> QED  BY <6>1, <4>2, <5>1, <5>2, <5>3, <1>1 DEF Shelf
        <5>4. CASE ~(w = v /\ k = join)
          <6>1. s[w][k] = left.stock[w][k]
            BY <1>1, <3>2, <5>4 DEF Shelves
          <6> QED  BY <6>1, <5>2, <1>1
        <5> QED  BY <5>3, <5>4
      <4> HIDE DEF s
      <4> QED  BY <4>3, <4>4 DEF Level
    <3>6. left.refused \in BOOLEAN
      BY DEF Lefts
    <3> HIDE DEF s, i, value, bill, joined
    <3> QED  BY <2>1, <2>2, <3>1, <3>2, <3>3, <3>4, <3>5, <3>6 DEF Lefts
  <2>4. CASE ~(join # NoKind)
    <3>1. SellLine(left, line, p, v) = shelved
      BY <1>4, <2>4 DEF SellLine
    <3> DEFINE i == [y \in Items |->
                       IF y = x THEN [it EXCEPT !.at = v]
                       ELSE IF y \in copy THEN [it EXCEPT !.amount = it.amount - n, !.at = p]
                       ELSE left.item[y]]
    <3>2. shelved = [stock |-> left.stock, item |-> i, join |-> left.join, value |-> value, bill |-> bill,
                     refused |-> left.refused]
      <4>1. join = left.join
        BY <2>4, <1>0, KindsAssumption
      <4> HIDE DEF join, value, bill, i
      <4>2. shelved = [left EXCEPT !.value = value, !.bill = bill, !.item = i]
        BY DEF i
      <4> HIDE DEF shelved
      <4> QED  BY <1>0, <4>2
    <3>3. i \in [Items -> Thing \cup {Gone}]
      <4>1. [it EXCEPT !.at = v] \in Thing
        BY <2>1 DEF Thing
      <4>2. copy # {} => [it EXCEPT !.amount = it.amount - n, !.at = p] \in Thing
        <5> SUFFICES ASSUME it.amount # n
                     PROVE  [it EXCEPT !.amount = it.amount - n, !.at = p] \in Thing
          OBVIOUS
        <5> HIDE DEF it, n
        <5>1. it.amount - n \in Nat \ {0}
          BY <1>1, <2>1 DEF Thing
        <5> QED  BY <2>1, <5>1 DEF Thing
      <4> HIDE DEF it, copy, n, x
      <4> QED  BY <1>1, <4>1, <4>2
    <3>4. left.refused \in BOOLEAN
      BY DEF Lefts
    <3> HIDE DEF i, value, bill, shelved
    <3> QED  BY <1>1, <2>1, <2>2, <3>1, <3>2, <3>3, <3>4 DEF Lefts
  <2> QED  BY <2>3, <2>4
<1> QED  BY <1>2, <1>3, <1>4

\* The function Sell() evaluates: what the first i lines leave.
After(p, lines) ==
    CHOOSE after : after = [i \in 0 .. Len(lines) |->
        IF i = 0 THEN [stock |-> stock, item |-> item, join |-> NoKind, value |-> 0,
                       bill |-> 0, refused |-> FALSE]
        ELSE SellLine(after[i - 1], lines[i], p, menu[p].vendor)]

\* The functions on 0 .. n that begin with s and make each step F[i].
Courses(n, G, s, F) == {g \in [0 .. n -> G] : g[0] = s /\ \A i \in 1 .. n : g[i] = F[i][g[i - 1]]}

\* There is one.
LEMMA Stepwise ==
    ASSUME NEW n \in Nat, NEW G, NEW s \in G, NEW F \in [1 .. n -> [G -> G]]
    PROVE  Courses(n, G, s, F) # {}
<1> DEFINE Fits(g, m) == g[0] = s /\ \A i \in 1 .. m : g[i] = F[i][g[i - 1]]
           T == {m \in 0 .. n : \E g \in [0 .. n -> G] : Fits(g, m)}
<1>1. 0 \in T
  <2> DEFINE z == [i \in 0 .. n |-> s]
  <2>1. z \in [0 .. n -> G] /\ Fits(z, 0)
    OBVIOUS
  <2> HIDE DEF z, Fits
  <2> QED  BY <2>1
<1>2. ASSUME NEW m \in 0 .. n - 1, m \in T
      PROVE  m + 1 \in T
  <2>1. PICK g \in [0 .. n -> G] : Fits(g, m)
    BY <1>2
  <2> DEFINE h == [g EXCEPT ![m + 1] = F[m + 1][g[m]]]
  <2>2. F[m + 1] \in [G -> G] /\ g[m] \in G
    OBVIOUS
  <2>3. h \in [0 .. n -> G]
    BY <2>2
  <2>4. Fits(h, m + 1)
    <3>1. h[0] = s
      BY <2>1
    <3>2. ASSUME NEW i \in 1 .. m + 1
          PROVE  h[i] = F[i][h[i - 1]]
      BY <2>1
    <3> QED  BY <3>1, <3>2
  <2> HIDE DEF h, Fits
  <2> QED  BY <2>3, <2>4
<1>3. n \in T
  <2> HIDE DEF T
  <2>1. \A m \in 0 .. n - 1 : m \in T => m + 1 \in T
    BY <1>2
  <2>2. 0 .. n \subseteq T
    BY <1>1, <2>1, Upto
  <2> QED  BY <2>2
<1> QED  BY <1>3 DEF Courses

\* The order leaves what its lines leave one after the other.
LEMMA OrderLeaves ==
    ASSUME Inv, NEW p \in Players, menu[p] # NoMenu, NEW lines \in Seq(Lines)
    PROVE  After(p, lines)[Len(lines)] \in Lefts
<1> DEFINE n == Len(lines)
           v == menu[p].vendor
           s == [stock |-> stock, item |-> item, join |-> NoKind, value |-> 0, bill |-> 0, refused |-> FALSE]
           F == [i \in 1 .. n |-> [l \in Lefts |-> SellLine(l, lines[i], p, v)]]
           c == After(p, lines)
<1>1. n \in Nat /\ v \in Vendors /\ \A i \in 1 .. n : lines[i] \in Lines
  BY DEF Inv, Types, MenuOK
<1>2. s \in Lefts
  <2>1. stock \in Shelves /\ item \in [Items -> Thing \cup {Gone}] /\ Level(stock)
    BY DEF Inv, Types, StockLevel, Level
  <2>2. \A w \in Vendors, k \in Stocked : stock[w][k].amount >= stock[w][k].amount
    BY <2>1 DEF Shelves, Shelf
  <2> QED  BY <2>1, <2>2 DEF Lefts
<1> HIDE DEF n, v, s
<1>3. F \in [1 .. n -> [Lefts -> Lefts]]
  BY <1>1, LineLeaves
<1>4. PICK g \in [0 .. n -> Lefts] : g[0] = s /\ \A i \in 1 .. n : g[i] = F[i][g[i - 1]]
  <2> HIDE DEF F
  <2>1. n \in Nat
    BY <1>1
  <2>2. Courses(n, Lefts, s, F) # {}
    BY <2>1, <1>2, <1>3, Stepwise
  <2> QED  BY <2>2 DEF Courses
<1>5. g = [i \in 0 .. n |-> IF i = 0 THEN s ELSE SellLine(g[i - 1], lines[i], p, v)]
  <2>1. \A i \in 1 .. n : g[i - 1] \in Lefts
    BY <1>1
  <2>2. \A i \in 1 .. n : g[i] = SellLine(g[i - 1], lines[i], p, v)
    BY <1>4, <2>1
  <2> QED  BY <1>4, <2>2
<1>6. c = [i \in 0 .. n |-> IF i = 0 THEN s ELSE SellLine(c[i - 1], lines[i], p, v)]
  BY <1>5 DEF After, n, v, s
<1> HIDE DEF c
<1> DEFINE T == {i \in 0 .. n : c[i] \in Lefts}
<1>7. 0 \in T
  BY <1>1, <1>2, <1>6
<1>8. ASSUME NEW i \in 0 .. n - 1, i \in T
      PROVE  i + 1 \in T
  <2>1. c[i + 1] = SellLine(c[i], lines[i + 1], p, v) /\ i + 1 \in 1 .. n
    BY <1>1, <1>6
  <2> QED  BY <1>1, <1>8, <2>1, LineLeaves
<1>9. n \in T
  <2> HIDE DEF T
  <2>1. \A i \in 0 .. n - 1 : i \in T => i + 1 \in T
    BY <1>8
  <2>2. 0 .. n \subseteq T
    BY <1>1, <1>7, <2>1, Upto
  <2> QED  BY <1>1, <2>2
<1> QED  BY <1>9 DEF n, c

\* What sellaction() does, from what its lines leave.
LEMMA SellLeaves ==
    ASSUME Inv, NEW p \in Players, NEW lines \in Seq(Lines), Sell(p, lines)
    PROVE  \E left \in Lefts :
             /\ stock' = left.stock /\ item' = left.item
             /\ purse' = [purse EXCEPT ![p] = IF left.refused THEN @ ELSE @ + left.bill]
             /\ menu' = [menu EXCEPT ![p] = NoMenu]
             /\ UNCHANGED <<bank, need, done, open>>
<1>1. menu[p] # NoMenu
  BY DEF Sell
<1>2. After(p, lines)[Len(lines)] \in Lefts
  BY <1>1, OrderLeaves
<1> DEFINE left == After(p, lines)[Len(lines)]
<1>3. /\ stock' = left.stock /\ item' = left.item
      /\ purse' = [purse EXCEPT ![p] = IF left.refused THEN @ ELSE @ + left.bill]
      /\ menu' = [menu EXCEPT ![p] = NoMenu]
      /\ UNCHANGED <<bank, need, done, open>>
  BY DEF Sell, After, manager
<1> QED  BY <1>2, <1>3

-----------------------------------------------------------------------------
(* One step.                                                               *)

\* The shops start full.
LEMMA InvInit == Init => Inv
<1> SUFFICES ASSUME Init
             PROVE  Inv
  OBVIOUS
<1>1. [amount |-> Full, restock |-> 0] \in Shelf
  BY NumbersAssumption DEF Shelf
<1>2. stock \in Shelves /\ StockLevel
  BY <1>1, NumbersAssumption DEF Init, Shelves, StockLevel
<1>3. purse \in [Players -> Nat] /\ bank \in [Players -> Nat]
  BY NumbersAssumption DEF Init
<1> QED  BY <1>2, <1>3 DEF Init, Inv, Types, MenuOK

\* An item in a pack or a shop is a thing.
LEMMA SomewhereIsThing ==
    ASSUME Types, NEW x \in Items, item[x].at \in Players \cup Vendors
    PROVE  item[x] \in Thing
<1>1. item[x] \in Thing \cup {Gone}
  BY DEF Types
<1>2. item[x] # Gone
  BY PlacesAssumption DEF Gone
<1> QED  BY <1>1, <1>2

\* What is made for a line of an order.
LEMMA MadeIsThing ==
    ASSUME NEW p \in Players, NEW order \in [Stocked -> 0 .. MaxOrder],
           NEW made \in [Stocked -> SUBSET Free],
           \A k \in Stocked : Makes(k, order[k], made[k]),
           NEW k \in Stocked, NEW x \in made[k]
    PROVE  /\ order[k] \in Nat \ {0}
           /\ Made(k, order[k], p) \in Thing
<1>1. made[k] \subseteq Items
  BY DEF Free
<1>2. IsFiniteSet(made[k])
  BY <1>1, FiniteAssumption, FS_Subset
<1>3. Cardinality(made[k]) # 0
  BY <1>2, FS_EmptySet
<1>4. order[k] # 0
  BY <1>3 DEF Makes
<1>5. order[k] \in Nat /\ k \in Kinds
  BY NumbersAssumption, KindsAssumption
<1> QED  BY <1>4, <1>5, MadeType

\* An order for restocked goods.
LEMMA InvBuy ==
    ASSUME Inv, NEW p \in Players, NEW v \in Vendors,
           NEW order \in [Stocked -> 0 .. MaxOrder], NEW made \in [Stocked -> SUBSET Free],
           Buy(p, v, order, made)
    PROVE  Inv'
<1>1. /\ \A k \in Stocked : InStock(v, k, order[k]) /\ Makes(k, order[k], made[k])
      /\ Pays(p, SumOf([k \in Stocked |-> order[k] * Price[k]]))
      /\ stock' = [stock EXCEPT ![v] = [k \in Stocked |-> Taken(stock[v][k], order[k])]]
      /\ UNCHANGED <<menu, open>>
  BY DEF Buy
<1>2. purse' \in [Players -> Nat] /\ bank' \in [Players -> Nat]
  BY <1>1, BillType, PaysType DEF Inv, Types
<1>3. stock' \in Shelves /\ StockLevel'
  <2>1. ASSUME NEW k \in Stocked
        PROVE  /\ Taken(stock[v][k], order[k]) \in Shelf
               /\ Taken(stock[v][k], order[k]).amount + Taken(stock[v][k], order[k]).restock = Full
               /\ Taken(stock[v][k], order[k]).amount >= 0
    <3>1. stock[v][k] \in Shelf /\ order[k] \in Nat /\ order[k] <= stock[v][k].amount
      BY <1>1, NumbersAssumption DEF Inv, Types, Shelves, InStock
    <3>2. stock[v][k].amount + stock[v][k].restock = Full
      BY DEF Inv, StockLevel
    <3> QED  BY <3>1, <3>2 DEF Taken, Shelf
  <2>2. stock' \in Shelves
    BY <1>1, <2>1 DEF Inv, Types, Shelves
  <2>3. ASSUME NEW w \in Vendors, NEW k \in Stocked
        PROVE  stock'[w][k] = IF w = v THEN Taken(stock[v][k], order[k]) ELSE stock[w][k]
    BY <1>1 DEF Inv, Types, Shelves
  <2> QED  BY <2>1, <2>2, <2>3 DEF Inv, StockLevel
<1>4. item' \in [Items -> Thing \cup {Gone}]
  <2>1. ASSUME NEW x \in Items, NEW k \in Stocked, x \in made[k]
        PROVE  Made(k, order[k], p) \in Thing
    BY <1>1, <2>1, MadeIsThing
  <2>2. item' = [x \in Items |->
             IF \E k \in Stocked : x \in made[k]
             THEN Made(CHOOSE k \in Stocked : x \in made[k], order[CHOOSE k \in Stocked : x \in made[k]], p)
             ELSE item[x]]
    BY DEF Buy
  <2>3. ASSUME NEW x \in Items
        PROVE  item'[x] \in Thing \cup {Gone}
    <3>1. CASE \E k \in Stocked : x \in made[k]
      <4> DEFINE j == CHOOSE k \in Stocked : x \in made[k]
      <4>1. j \in Stocked /\ x \in made[j]
        BY <3>1
      <4>2. item'[x] = Made(j, order[j], p)
        BY <2>2, <3>1
      <4> HIDE DEF j
      <4> QED  BY <2>1, <4>1, <4>2
    <3>2. CASE ~\E k \in Stocked : x \in made[k]
      BY <2>2, <3>2 DEF Inv, Types
    <3> QED  BY <3>1, <3>2
  <2> QED  BY <2>2, <2>3
<1> QED  BY <1>1, <1>2, <1>3, <1>4 DEF Inv, Types, MenuOK

\* An order for a sold item.
LEMMA InvBuySold ==
    ASSUME Inv, NEW p \in Players, NEW v \in Vendors,
           NEW x \in Items, NEW n \in 1 .. MaxOrder, BuySold(p, v, x, n)
    PROVE  Inv'
<1> DEFINE k == item[x].kind
<1>1. /\ item[x] \in Thing /\ k \in Kinds
      /\ n \in Nat \ {0} /\ n <= item[x].amount /\ item[x].amount \in Nat
  <2>1. item[x].at = v /\ n \in 1 .. item[x].amount
    BY DEF BuySold
  <2>2. item[x] \in Thing
    BY <2>1, SomewhereIsThing DEF Inv
  <2> QED  BY <2>1, <2>2, NumbersAssumption DEF Thing
<1>2. /\ Pays(p, n * Price[k])
      /\ UNCHANGED <<stock, menu, open>>
  BY DEF BuySold
<1>3. purse' \in [Players -> Nat] /\ bank' \in [Players -> Nat]
  <2>1. \A a, b \in Nat : a * b \in Nat
    OBVIOUS
  <2>2. n * Price[k] \in Nat
    BY <1>1, <2>1, PriceIsNat
  <2> QED  BY <1>2, <2>2, PaysType DEF Inv, Types
<1>4. item' \in [Items -> Thing \cup {Gone}]
  <2>1. Made(k, n, p) \in Thing
    BY <1>1, MadeType
  <2>2. [item[x] EXCEPT !.at = p] \in Thing
    BY <1>1 DEF Thing
  <2>3. n < item[x].amount => [item[x] EXCEPT !.amount = @ - n] \in Thing
    BY <1>1 DEF Thing
  <2>4. [kind |-> k, amount |-> 1, at |-> p] \in Thing
    BY <1>1 DEF Thing
  <2>5. item \in [Items -> Thing \cup {Gone}]
    BY DEF Inv, Types
  <2>6. CASE item' = [item EXCEPT ![x].at = p]
    BY <2>2, <2>5, <2>6
  <2>7. CASE \E new \in SUBSET Free :
               item' = [y \in Items |->
                   IF y \in new THEN Made(k, n, p)
                   ELSE IF y # x THEN item[y]
                   ELSE IF n < item[x].amount THEN [item[x] EXCEPT !.amount = @ - n]
                   ELSE [kind |-> k, amount |-> 1, at |-> p]]
    <3> HIDE DEF k
    <3> QED  BY <2>1, <2>3, <2>4, <2>5, <2>7
  <2> QED  BY <2>6, <2>7 DEF BuySold
<1> QED  BY <1>2, <1>3, <1>4 DEF Inv, Types, StockLevel, MenuOK

\* An order to sell.
LEMMA InvSell ==
    ASSUME Inv, NEW p \in Players, NEW lines \in Seq(Lines), Sell(p, lines)
    PROVE  Inv'
<1>1. PICK left \in Lefts :
             /\ stock' = left.stock /\ item' = left.item
             /\ purse' = [purse EXCEPT ![p] = IF left.refused THEN @ ELSE @ + left.bill]
             /\ menu' = [menu EXCEPT ![p] = NoMenu]
             /\ UNCHANGED <<bank, need, done, open>>
  BY SellLeaves
<1>2. stock' \in Shelves /\ item' \in [Items -> Thing \cup {Gone}] /\ StockLevel'
  BY <1>1 DEF Lefts, Level, StockLevel
<1>3. purse' \in [Players -> Nat]
  BY <1>1 DEF Lefts, Inv, Types
<1>4. MenuOK'
  BY <1>1 DEF Inv, Types, MenuOK
<1> QED  BY <1>1, <1>2, <1>3, <1>4 DEF Inv, Types

\* The sell menu.
LEMMA InvSellMenu ==
    ASSUME Inv, NEW p \in Players, NEW v \in Vendors, SellMenu(p, v)
    PROVE  Inv'
<1> DEFINE s == [x \in At(p) |-> item[x].amount]
<1>1. s \in [At(p) -> Nat] /\ At(p) \in SUBSET Items
  BY SomewhereIsThing DEF At, Inv, Thing
<1>2. /\ menu' = [menu EXCEPT ![p] = [vendor |-> v, shown |-> s]]
      /\ UNCHANGED <<stock, item, purse, bank, open>>
  BY DEF SellMenu
<1> HIDE DEF s
<1>3. MenuOK'
  BY <1>1, <1>2 DEF Inv, Types, MenuOK
<1> QED  BY <1>2, <1>3 DEF Inv, Types, StockLevel

\* What players do with their goods.
LEMMA InvGoods ==
    ASSUME Inv, NEW p \in Players,
           NEW x \in Items,
           \/ UseUp(p, x)
           \/ \E q \in Players : HandOver(p, q, x)
           \/ \E k \in Kinds, n \in 1 .. MaxOrder : Find(p, x, k, n)
    PROVE  Inv'
<1>1. UNCHANGED <<stock, purse, bank, menu, open>>
  BY DEF UseUp, HandOver, Find
<1>2. item' \in [Items -> Thing \cup {Gone}]
  <2>1. item \in [Items -> Thing \cup {Gone}]
    BY DEF Inv, Types
  <2>2. CASE UseUp(p, x)
    <3>1. item[x] \in Thing
      BY <2>2, SomewhereIsThing DEF UseUp, Inv
    <3>2. Reduced(item[x], 1) \in Thing \cup {Gone}
      BY <3>1, ReducedType
    <3> QED  BY <2>1, <2>2, <3>2 DEF UseUp
  <2>3. ASSUME NEW q \in Players, HandOver(p, q, x)
        PROVE  item' \in [Items -> Thing \cup {Gone}]
    <3>1. item[x] \in Thing
      BY <2>3, SomewhereIsThing DEF HandOver, Inv
    <3>2. [item[x] EXCEPT !.at = q] \in Thing
      BY <3>1 DEF Thing
    <3> QED  BY <2>1, <2>3, <3>2 DEF HandOver
  <2>4. ASSUME NEW k \in Kinds, NEW n \in 1 .. MaxOrder, Find(p, x, k, n)
        PROVE  item' \in [Items -> Thing \cup {Gone}]
    <3>1. [kind |-> k, amount |-> n, at |-> p] \in Thing
      BY NumbersAssumption DEF Thing
    <3> QED  BY <2>1, <2>4, <3>1 DEF Find
  <2> QED  BY <2>2, <2>3, <2>4
<1> QED  BY <1>1, <1>2 DEF Inv, Types, StockLevel, MenuOK

\* Half of what is missing, and one more, is no more than is missing.
LEMMA RefilledType ==
    ASSUME NEW s \in Shelf
    PROVE  /\ Refilled(s) \in Shelf
           /\ Refilled(s).amount + Refilled(s).restock = s.amount + s.restock
           /\ Refilled(s).amount >= s.amount
BY DEF Refilled, Shelf

\* What restocking does to the shelves: it adds, and what it adds is no
\* longer to be restocked.
LEMMA Restocks ==
    ASSUME Inv, DoRestock \/ DoRestockAll
    PROVE  /\ stock' \in Shelves
           /\ \A v \in Vendors, k \in Stocked :
                /\ stock'[v][k].amount + stock'[v][k].restock = stock[v][k].amount + stock[v][k].restock
                /\ stock'[v][k].amount >= stock[v][k].amount
<1>1. stock \in Shelves /\ \A v \in Vendors, k \in Stocked : stock[v][k] \in Shelf
  BY DEF Inv, Types, Shelves
<1>2. CASE DoRestock
  <2>1. PICK served : stock' = [v \in Vendors |->
             IF v \in served THEN [k \in Stocked |-> Refilled(stock[v][k])] ELSE stock[v]]
    BY <1>2 DEF DoRestock
  <2>2. \A v \in Vendors, k \in Stocked :
          stock'[v][k] = IF v \in served THEN Refilled(stock[v][k]) ELSE stock[v][k]
    BY <2>1
  <2>3. stock' \in Shelves
    BY <1>1, <2>1, RefilledType DEF Shelves
  <2> QED  BY <1>1, <2>2, <2>3, RefilledType DEF Shelf
<1>3. CASE DoRestockAll
  <2> DEFINE Filled(s) == [amount |-> s.amount + (IF s.restock > 0 THEN s.restock ELSE 0),
                           restock |-> IF s.restock > 0 THEN 0 ELSE s.restock]
  <2>1. stock' = [v \in Vendors |-> [k \in Stocked |-> Filled(stock[v][k])]]
    BY <1>3 DEF DoRestockAll
  <2>2. \A s \in Shelf : /\ Filled(s) \in Shelf
                         /\ Filled(s).amount + Filled(s).restock = s.amount + s.restock
                         /\ Filled(s).amount >= s.amount
    BY DEF Shelf
  <2> HIDE DEF Filled
  <2>3. \A v \in Vendors, k \in Stocked : stock'[v][k] = Filled(stock[v][k])
    BY <2>1
  <2>4. stock' \in Shelves
    BY <1>1, <2>1, <2>2 DEF Shelves
  <2> QED  BY <1>1, <2>2, <2>3, <2>4
<1> QED  BY <1>2, <1>3

\* Restocking.
LEMMA InvRestock ==
    ASSUME Inv, DoRestock \/ DoRestockAll
    PROVE  Inv'
<1>1. UNCHANGED <<item, purse, bank, menu, open>>
  BY DEF DoRestock, DoRestockAll
<1>2. \A v \in Vendors, k \in Stocked : stock[v][k] \in Shelf /\ stock'[v][k] \in Shelf
  BY Restocks DEF Inv, Types, Shelves
<1>3. StockLevel'
  BY <1>2, Restocks DEF Inv, StockLevel, Shelf
<1> QED  BY <1>1, <1>3, Restocks DEF Inv, Types, MenuOK

\* Every step keeps types and levels.
LEMMA InvStep == Inv /\ [Next]_vars => Inv'
<1> SUFFICES ASSUME Inv, [Next]_vars
             PROVE  Inv'
  OBVIOUS
<1>1. ASSUME NEW p \in Players, Trade(p)
      PROVE  Inv'
  <2>1. ASSUME NEW v \in Vendors, NEW order \in [Stocked -> 0 .. MaxOrder],
               NEW made \in [Stocked -> SUBSET Free], Buy(p, v, order, made)
        PROVE  Inv'
    BY <2>1, InvBuy
  <2>2. ASSUME NEW v \in Vendors, NEW x \in Items, NEW n \in 1 .. MaxOrder, BuySold(p, v, x, n)
        PROVE  Inv'
    BY <2>2, InvBuySold
  <2>3. ASSUME NEW v \in Vendors, SellMenu(p, v)
        PROVE  Inv'
    BY <2>3, InvSellMenu
  <2>4. ASSUME NEW a \in Lines, Sell(p, <<a>>)
        PROVE  Inv'
    <3>1. <<a>> \in Seq(Lines)
      OBVIOUS
    <3> QED  BY <2>4, <3>1, InvSell
  <2>5. ASSUME NEW a \in Lines, NEW b \in Lines, Sell(p, <<a, b>>)
        PROVE  Inv'
    <3>1. <<a, b>> \in Seq(Lines)
      OBVIOUS
    <3> QED  BY <2>5, <3>1, InvSell
  <2>6. CASE CloseMenu(p)
    BY <2>6 DEF CloseMenu, Inv, Types, StockLevel, MenuOK
  <2>7. ASSUME NEW x \in Items, UseUp(p, x) \/ \E q \in Players : HandOver(p, q, x)
        PROVE  Inv'
    BY <2>7, InvGoods
  <2>8. ASSUME NEW x \in Items, NEW k \in Kinds, NEW n \in 1 .. MaxOrder, Find(p, x, k, n)
        PROVE  Inv'
    BY <2>8, InvGoods
  <2> QED  BY <1>1, <2>1, <2>2, <2>3, <2>4, <2>5, <2>6, <2>7, <2>8 DEF Trade
<1>2. CASE GoHome
  BY <1>2 DEF GoHome, Inv, Types, StockLevel, MenuOK
<1>3. CASE UNCHANGED vars
  BY <1>3 DEF vars, Inv, Types, StockLevel, MenuOK
<1> QED  BY <1>1, <1>2, <1>3, InvRestock DEF Next

\* Types and levels hold always.
LEMMA Invariance == Spec => []Inv
BY InvInit, InvStep, PTL DEF Spec

\* The types of the shops, the purses, the menus and the queues.
THEOREM TypeCorrect == Spec => []TypeOK
<1>1. Inv /\ Queues => TypeOK
  <2> SUFFICES ASSUME Inv, Queues
               PROVE  TypeOK
    OBVIOUS
  <2>1. \A p \in Players : menu[p] # NoMenu =>
          /\ menu[p].vendor \in Vendors
          /\ \E S \in SUBSET Items : menu[p].shown \in [S -> Nat]
    <3> SUFFICES ASSUME NEW p \in Players, menu[p] # NoMenu
                 PROVE  menu[p].vendor \in Vendors /\ \E S \in SUBSET Items : menu[p].shown \in [S -> Nat]
      OBVIOUS
    <3>1. menu[p] \in [vendor : Vendors, shown : UNION {[S -> Nat] : S \in SUBSET Items}]
      BY DEF Inv, Types, MenuOK
    <3>2. menu[p].shown \in UNION {[S -> Nat] : S \in SUBSET Items}
      BY <3>1
    <3> QED  BY <3>1, <3>2, Zenon
  <2>2. need \in Seq(Vendors) /\ done \in Seq(Vendors)
    BY DEF Queues
  <2> QED  BY <2>1, <2>2 DEF Inv, Types, TypeOK, Shelves, Shelf, Thing
<1> QED  BY QueuesInit, QueuesStep, Invariance, <1>1, PTL DEF Spec

\* Shelf and what is still to be restocked together stay what the shopkeeper
\* started with, and no shelf is sold below nothing: for orders of any size,
\* prices, kinds and shopkeepers (buyaction, sellaction, doRestock).
THEOREM ShelvesKeepLevel == Spec => []StockLevel
<1>1. Inv => StockLevel
  BY DEF Inv
<1> QED  BY Invariance, <1>1, PTL

-----------------------------------------------------------------------------
(* Coins for goods.                                                        *)

\* Who pays pays no more than the bill and what it costs that player, and
\* nobody else pays.
LEMMA PaysBill ==
    ASSUME Types, NEW p \in Players, NEW bill \in Nat, Pays(p, bill)
    PROVE  /\ Paid(p) \in Int /\ Paid(p) <= bill
           /\ Settles(p, bill)
           /\ \A q \in Players : q # p => Paid(q) = 0
<1>1. \A q \in Players : purse[q] \in Nat /\ bank[q] \in Nat
  BY DEF Types
<1>2. CASE p \in GMs
  <2>1. purse' = purse /\ bank' = bank
    BY <1>2 DEF Pays
  <2> QED  BY <1>1, <1>2, <2>1 DEF Paid, Settles
<1>3. CASE p \notin GMs
  <2>1. PICK c \in CoinsTaken(bill) :
            IF bill >= CheckBank
            THEN bank' = [bank EXCEPT ![p] = Less(@, c)] /\ UNCHANGED purse
            ELSE purse' = [purse EXCEPT ![p] = Less(@, c)] /\ UNCHANGED bank
    BY <1>3 DEF Pays
  <2>2. c \in Int /\ c <= bill /\ (bill < HalfWord => c = bill)
    BY TakenIsPart
  <2>3. \A coins \in Nat : coins >= bill => coins - Less(coins, c) = c
    BY <2>2 DEF Less
  <2>4. Paid(p) = c /\ \A q \in Players : q # p => Paid(q) = 0
    <3>1. CASE bill >= CheckBank
      <4>1. bank[p] >= bill /\ bank' = [bank EXCEPT ![p] = Less(@, c)] /\ purse' = purse
        BY <1>3, <2>1, <3>1 DEF Pays, Funds
      <4>2. bank'[p] = Less(bank[p], c) /\ \A q \in Players : q # p => bank'[q] = bank[q]
        BY <4>1 DEF Types
      <4>3. bank[p] - Less(bank[p], c) = c /\ Less(bank[p], c) \in Int
        BY <1>1, <2>2, <2>3, <4>1 DEF Less
      <4> QED  BY <1>1, <2>2, <4>1, <4>2, <4>3 DEF Paid
    <3>2. CASE ~(bill >= CheckBank)
      <4>1. purse[p] >= bill /\ purse' = [purse EXCEPT ![p] = Less(@, c)] /\ bank' = bank
        BY <1>3, <2>1, <3>2 DEF Pays, Funds
      <4>2. purse'[p] = Less(purse[p], c) /\ \A q \in Players : q # p => purse'[q] = purse[q]
        BY <4>1 DEF Types
      <4>3. purse[p] - Less(purse[p], c) = c /\ Less(purse[p], c) \in Int
        BY <1>1, <2>2, <2>3, <4>1 DEF Less
      <4> QED  BY <1>1, <2>2, <4>1, <4>2, <4>3 DEF Paid
    <3> QED  BY <3>1, <3>2
  <2>5. bill < HalfWord \/ bill >= HalfWord
    BY NumbersAssumption
  <2> QED  BY <1>3, <2>2, <2>4, <2>5 DEF Settles
<1> QED  BY <1>2, <1>3

\* A sum with nothing off a set.
LEMMA SumOfPart ==
    ASSUME NEW D, IsFiniteSet(D), NEW f \in [D -> Int], NEW B \in SUBSET D, \A x \in D \ B : f[x] = 0
    PROVE  SumOf(f) = Part(f, B)
<1> DEFINE R == D \ B
<1>1. R \in SUBSET D /\ (\A x \in R : x \notin B) /\ B \cup R = D /\ \A x \in R : f[x] = 0
  OBVIOUS
<1> HIDE DEF R
<1>2. Part(f, R) = Cardinality(R) * 0
  BY <1>1, PartConstant
<1>3. Cardinality(R) \in Nat
  BY <1>1, FS_Subset, FS_CardinalityType
<1>4. Part(f, R) = 0
  BY <1>2, <1>3
<1>5. Part(f, D) = Part(f, B) + Part(f, R)
  BY <1>1, PartUnion
<1>6. SumOf(f) = Part(f, D) /\ Part(f, B) \in Int
  BY Parts
<1> QED  BY <1>4, <1>5, <1>6

\* What one item adds to the worth of a player's goods.
Value(it, p) == IF it.at = p THEN it.amount * Price[it.kind] ELSE 0

\* The worth of an item is a number, and none when it is gone.
LEMMA ValueType ==
    ASSUME NEW it \in Thing \cup {Gone}, NEW p \in Players
    PROVE  Value(it, p) \in Nat /\ (it = Gone => Value(it, p) = 0)
<1>1. CASE it = Gone
  BY <1>1, GoneIsNowhere, PlacesAssumption DEF Value
<1>2. CASE it \in Thing
  <2>1. it.amount \in Nat /\ Price[it.kind] \in Nat
    BY <1>2, PriceIsNat DEF Thing
  <2>2. \A a, b \in Nat : a * b \in Nat
    OBVIOUS
  <2> QED  BY <1>2, <2>1, <2>2, GoneIsNowhere DEF Value
<1> QED  BY <1>1, <1>2

\* By what the worth changes, item by item.
LEMMA WorthChange ==
    ASSUME Inv, Inv', NEW p \in Players
    PROVE  LET d == [x \in Items |-> Value(item'[x], p) - Value(item[x], p)]
           IN  d \in [Items -> Int] /\ Worth(item', p) - Worth(item, p) = SumOf(d)
<1> DEFINE f == [x \in Items |-> Value(item'[x], p)]
           g == [x \in Items |-> Value(item[x], p)]
<1>1. \A x \in Items : item[x] \in Thing \cup {Gone} /\ item'[x] \in Thing \cup {Gone}
  BY DEF Inv, Types
<1>2. f \in [Items -> Int] /\ g \in [Items -> Int]
  BY <1>1, ValueType
<1>3. Worth(item', p) = SumOf(f) /\ Worth(item, p) = SumOf(g)
  BY DEF Worth, Value
<1>4. \A x \in Items : f[x] = Value(item'[x], p) /\ g[x] = Value(item[x], p)
  OBVIOUS
<1>5. SumOf([x \in Items |-> f[x] - g[x]]) = SumOf(f) - SumOf(g)
  <2> HIDE DEF f, g
  <2> QED  BY <1>2, FiniteAssumption, SumDifference
<1>6. [x \in Items |-> Value(item'[x], p) - Value(item[x], p)] = [x \in Items |-> f[x] - g[x]]
  BY <1>4
<1>7. [x \in Items |-> f[x] - g[x]] \in [Items -> Int]
  <2> HIDE DEF f, g
  <2> QED  BY <1>2
<1> HIDE DEF f, g
<1> QED  BY <1>3, <1>5, <1>6, <1>7

\* The units of a line, piled or not, are worth what they cost.
LEMMA MadeWorth ==
    ASSUME NEW k \in Kinds, NEW n \in Nat, NEW p \in Players, NEW new, Makes(k, n, new)
    PROVE  /\ Value(Made(k, n, p), p) \in Nat
           /\ Cardinality(new) * Value(Made(k, n, p), p) = n * Price[k]
<1> DEFINE c == Price[k]
           a == IF k \in Pileable THEN n ELSE 1
<1>1. c \in Nat /\ a \in Nat
  BY PriceIsNat
<1>2. Value(Made(k, n, p), p) = a * c
  BY DEF Value, Made
<1>3. \A x, y \in Nat : x * y \in Nat /\ 0 * x = 0 /\ 1 * x = x
  OBVIOUS
<1>4. CASE n = 0
  BY <1>1, <1>2, <1>3, <1>4 DEF Makes
<1>5. CASE n # 0 /\ k \in Pileable
  BY <1>1, <1>2, <1>3, <1>5 DEF Makes
<1>6. CASE n # 0 /\ k \notin Pileable
  BY <1>1, <1>2, <1>3, <1>6 DEF Makes
<1> QED  BY <1>4, <1>5, <1>6

\* An order adds to the worth of the buyer's goods what it costs.
LEMMA BuyWorth ==
    ASSUME Inv, Inv', NEW p \in Players, NEW v \in Vendors,
           NEW order \in [Stocked -> 0 .. MaxOrder], NEW made \in [Stocked -> SUBSET Free],
           Buy(p, v, order, made)
    PROVE  Worth(item', p) - Worth(item, p) = SumOf([k \in Stocked |-> order[k] * Price[k]])
<1> DEFINE d == [x \in Items |-> Value(item'[x], p) - Value(item[x], p)]
           b == [k \in Stocked |-> order[k] * Price[k]]
           All(K) == UNION {made[k] : k \in K}
           U == {K \in SUBSET Stocked : Part(d, All(K)) = Part(b, K)}
<1>1. d \in [Items -> Int] /\ Worth(item', p) - Worth(item, p) = SumOf(d)
  BY WorthChange
<1>2. b \in [Stocked -> Nat]
  BY BillType
<1>3. /\ \A k \in Stocked : Makes(k, order[k], made[k])
      /\ \A j, k \in Stocked : j # k => made[j] \cap made[k] = {}
  BY DEF Buy
<1>4. \A K \in SUBSET Stocked : All(K) \in SUBSET Items
  BY DEF Free
<1>5. ASSUME NEW k \in Stocked, NEW x \in made[k]
      PROVE  d[x] = Value(Made(k, order[k], p), p)
  <2>1. x \in Items /\ item[x] = Gone
    BY DEF Free
  <2> DEFINE j == CHOOSE i \in Stocked : x \in made[i]
  <2>2. j \in Stocked /\ x \in made[j]
    OBVIOUS
  <2>3. j = k
    BY <1>3, <2>2
  <2>4. item'[x] = Made(j, order[j], p)
    BY <2>1 DEF Buy
  <2>5. Value(item[x], p) = 0
    BY <2>1, ValueType
  <2> HIDE DEF j
  <2>6. Value(Made(k, order[k], p), p) \in Nat
    BY <1>3, MadeWorth, KindsAssumption, NumbersAssumption
  <2> QED  BY <2>1, <2>3, <2>4, <2>5, <2>6
<1>6. ASSUME NEW x \in Items \ All(Stocked)
      PROVE  d[x] = 0
  <2>1. ~\E k \in Stocked : x \in made[k]
    OBVIOUS
  <2>2. item'[x] = item[x]
    BY <2>1 DEF Buy
  <2>3. Value(item[x], p) \in Nat
    BY ValueType DEF Inv, Types
  <2> QED  BY <2>2, <2>3
<1> HIDE DEF d, All
<1>7. ASSUME NEW k \in Stocked
      PROVE  /\ made[k] \in SUBSET Items
             /\ Part(d, made[k]) = b[k]
  <2>1. made[k] \in SUBSET Items
    BY DEF Free
  <2>2. order[k] \in Nat /\ k \in Kinds
    BY NumbersAssumption, KindsAssumption
  <2> DEFINE c == Value(Made(k, order[k], p), p)
  <2>3. c \in Nat /\ Cardinality(made[k]) * c = order[k] * Price[k]
    BY <1>3, <2>2, MadeWorth
  <2>4. c \in Int /\ \A x \in made[k] : d[x] = c
    BY <1>5, <2>3
  <2> HIDE DEF c
  <2>5. Part(d, made[k]) = Cardinality(made[k]) * c
    BY <1>1, <2>1, <2>4, FiniteAssumption, PartConstant
  <2> QED  BY <2>1, <2>3, <2>5
<1> HIDE DEF b
<1>8. b \in [Stocked -> Int]
  BY <1>2
<1>9. {} \in U
  <2>1. All({}) = {}
    BY DEF All
  <2>2. Part(d, {}) = 0 /\ Part(b, {}) = 0
    BY <1>1, <1>8, FiniteAssumption, Parts
  <2> QED  BY <2>1, <2>2
<1>10. ASSUME NEW K \in SUBSET Stocked, NEW k \in Stocked \ K, K \in U
       PROVE  K \cup {k} \in U
  <2>1. All(K \cup {k}) = All(K) \cup made[k]
    BY DEF All
  <2>2. \A x \in made[k] : x \notin All(K)
    BY <1>3 DEF All
  <2>3. Part(d, All(K) \cup made[k]) = Part(d, All(K)) + Part(d, made[k])
    <3> DEFINE A == All(K)
               B == made[k]
    <3>1. A \in SUBSET Items /\ B \in SUBSET Items /\ \A x \in B : x \notin A
      BY <1>4, <1>7, <2>2
    <3> HIDE DEF A, B
    <3>2. Part(d, A \cup B) = Part(d, A) + Part(d, B)
      BY <1>1, <3>1, FiniteAssumption, PartUnion
    <3> QED  BY <3>2 DEF A, B
  <2>4. Part(b, K \cup {k}) = Part(b, K) + b[k]
    BY <1>8, FiniteAssumption, Parts
  <2> QED  BY <1>7, <1>10, <2>1, <2>3, <2>4
<1>11. SUBSET Stocked \subseteq U
  <2>1. \A K \in SUBSET Stocked : \A k \in Stocked \ K : K \in U => K \cup {k} \in U
    BY <1>10
  <2> HIDE DEF U
  <2> QED  BY <1>9, <2>1, FiniteAssumption, SubsetInduction
<1>12. Part(d, All(Stocked)) = SumOf(b)
  <2>1. Part(d, All(Stocked)) = Part(b, Stocked)
    BY <1>11
  <2>2. SumOf(b) = Part(b, Stocked)
    BY <1>8, FiniteAssumption, Parts
  <2> QED  BY <2>1, <2>2
<1>13. SumOf(d) = Part(d, All(Stocked))
  <2> DEFINE A == All(Stocked)
  <2>1. A \in SUBSET Items /\ \A x \in Items \ A : d[x] = 0
    BY <1>4, <1>6
  <2> HIDE DEF A
  <2>2. SumOf(d) = Part(d, A)
    BY <1>1, <2>1, FiniteAssumption, SumOfPart
  <2> QED  BY <2>2 DEF A
<1> QED  BY <1>1, <1>12, <1>13 DEF b

\* A sold item, or a part of it, adds at least what it costs.
LEMMA BuySoldWorth ==
    ASSUME Inv, Inv', NEW p \in Players, NEW v \in Vendors,
           NEW x \in Items, NEW n \in 1 .. MaxOrder, BuySold(p, v, x, n)
    PROVE  Worth(item', p) - Worth(item, p) >= n * Price[item[x].kind]
<1> DEFINE k == item[x].kind
           d == [y \in Items |-> Value(item'[y], p) - Value(item[y], p)]
<1>1. d \in [Items -> Int] /\ Worth(item', p) - Worth(item, p) = SumOf(d)
  BY WorthChange
<1>2. item[x].at = v /\ n \in 1 .. item[x].amount
  BY DEF BuySold
<1>3. item[x] \in Thing /\ k \in Kinds /\ n \in Nat \ {0} /\ Price[k] \in Nat
  BY <1>2, SomewhereIsThing, PriceIsNat, NumbersAssumption DEF Inv, Thing
<1>4. item \in [Items -> Thing \cup {Gone}] /\ \A y \in Items : Value(item[y], p) \in Nat /\ Value(item'[y], p) \in Nat
  BY ValueType DEF Inv, Types
<1>5. Value(item[x], p) = 0 /\ v # p
  BY <1>2, PlacesAssumption DEF Value
<1>6. CASE n = item[x].amount /\ item' = [item EXCEPT ![x].at = p]
  <2>1. item'[x] = [item[x] EXCEPT !.at = p] /\ \A y \in Items \ {x} : item'[y] = item[y]
    BY <1>4, <1>6
  <2>2. Value(item'[x], p) = n * Price[k]
    BY <1>3, <1>6, <2>1 DEF Value, Thing
  <2> DEFINE c == n * Price[k]
  <2>3. c \in Int /\ \A y \in {x} : d[y] = c
    BY <1>4, <1>5, <2>2
  <2>4. {x} \in SUBSET Items /\ \A y \in Items \ {x} : d[y] = 0
    BY <1>4, <2>1
  <2> HIDE DEF d
  <2>5. SumOf(d) = Part(d, {x})
    BY <1>1, <2>4, FiniteAssumption, SumOfPart
  <2>6. Part(d, {x}) = c
    <3>1. {x} = {} \cup {x} /\ {} \in SUBSET Items
      OBVIOUS
    <3>2. Part(d, {} \cup {x}) = Part(d, {}) + d[x] /\ Part(d, {}) = 0
      BY <1>1, <3>1, FiniteAssumption, Parts
    <3> QED  BY <2>3, <3>1, <3>2
  <2> QED  BY <1>1, <2>3, <2>5, <2>6
<1>7. ASSUME NEW new \in SUBSET Free, Makes(k, n, new),
             item' = [y \in Items |->
                   IF y \in new THEN Made(k, n, p)
                   ELSE IF y # x THEN item[y]
                   ELSE IF n < item[x].amount THEN [item[x] EXCEPT !.amount = @ - n]
                   ELSE [kind |-> k, amount |-> 1, at |-> p]]
      PROVE  SumOf(d) >= n * Price[k]
  <2> DEFINE c == Value(Made(k, n, p), p)
             e == [y \in Items |-> IF y \in new THEN c ELSE 0]
  <2>1. c \in Nat /\ Cardinality(new) * c = n * Price[k]
    BY <1>3, <1>7, MadeWorth
  <2>2. new \in SUBSET Items /\ \A y \in new : item[y] = Gone
    BY DEF Free
  <2>3. \A y \in new : d[y] = c
    BY <1>7, <2>1, <2>2, ValueType
  <2>4. x \notin new
    BY <1>3, <2>2, GoneIsNowhere
  <2>5. \A y \in Items \ new : d[y] >= 0
    <3>1. \A y \in Items \ new : y # x => item'[y] = item[y]
      BY <1>7
    <3> QED  BY <1>4, <1>5, <3>1
  <2> HIDE DEF c, d
  <2>6. /\ e \in [Items -> Int] /\ (\A y \in new : e[y] = c) /\ (\A y \in Items \ new : e[y] = 0)
        /\ \A y \in Items : e[y] <= d[y]
    BY <1>1, <2>1, <2>2, <2>3, <2>5
  <2> HIDE DEF e
  <2>7. SumOf(e) <= SumOf(d)
    BY <1>1, <2>6, FiniteAssumption, SumMonotone
  <2>8. SumOf(e) = Part(e, new) /\ Part(e, new) = Cardinality(new) * c
    BY <2>1, <2>2, <2>6, FiniteAssumption, SumOfPart, PartConstant
  <2>9. SumOf(d) \in Int /\ SumOf(e) \in Int
    BY <1>1, <2>6, FiniteAssumption, SumInt
  <2> QED  BY <2>1, <2>7, <2>8, <2>9
<1> HIDE DEF d
<1> QED  BY <1>1, <1>6, <1>7 DEF BuySold

\* The shelves lose nothing when they are not sold from.
LEMMA NothingLost ==
    ASSUME Inv, Inv', NEW v \in Vendors,
           \A k \in Stocked : stock'[v][k].amount >= stock[v][k].amount
    PROVE  Lost(v) \in Int /\ Lost(v) <= 0
<1> DEFINE f == [k \in Stocked |-> (stock[v][k].amount - stock'[v][k].amount) * Price[k]]
           z == [k \in Stocked |-> 0]
<1>1. ASSUME NEW k \in Stocked
      PROVE  f[k] \in Int /\ f[k] <= 0
  <2>1. stock[v][k].amount \in Int /\ stock'[v][k].amount \in Int
    BY DEF Inv, Types, Shelves, Shelf
  <2>2. Price[k] \in Nat
    BY KindsAssumption
  <2>3. stock[v][k].amount - stock'[v][k].amount \in Int /\ stock[v][k].amount - stock'[v][k].amount <= 0
    BY <2>1
  <2>4. \A a \in Int, b \in Nat : a <= 0 => a * b \in Int /\ a * b <= 0
    OBVIOUS
  <2> QED  BY <2>2, <2>3, <2>4
<1>2. f \in [Stocked -> Int]
  BY <1>1
<1>3. z \in [Stocked -> Int] /\ (\A k \in Stocked : z[k] = 0) /\ \A k \in Stocked : f[k] <= z[k]
  BY <1>1
<1>4. Lost(v) = SumOf(f)
  BY DEF Lost
<1> HIDE DEF f, z
<1>5. SumOf(f) \in Int /\ SumOf(f) <= SumOf(z)
  BY <1>2, <1>3, FiniteAssumption, SumInt, SumMonotone
<1>6. SumOf(z) = 0
  <2>1. {} \in SUBSET Stocked /\ \A k \in Stocked \ {} : z[k] = 0
    BY <1>3
  <2>2. SumOf(z) = Part(z, {})
    BY <1>3, <2>1, FiniteAssumption, SumOfPart
  <2> QED  BY <1>3, <2>2, FiniteAssumption, Parts
<1> QED  BY <1>4, <1>5, <1>6

\* Nobody pays and nothing is lost.
LEMMA NoTrade ==
    ASSUME Inv, Inv',
           \A q \in Players : purse'[q] >= purse[q] /\ bank'[q] >= bank[q],
           \A v \in Vendors, k \in Stocked : stock'[v][k].amount >= stock[v][k].amount
    PROVE  GoodsForCoins /\ CoinsForGoods
<1>1. ASSUME NEW q \in Players
      PROVE  ~(Paid(q) > 0)
  <2>1. purse[q] \in Nat /\ bank[q] \in Nat /\ purse'[q] \in Nat /\ bank'[q] \in Nat
    BY DEF Inv, Types
  <2> QED  BY <2>1 DEF Paid
<1>2. ASSUME NEW v \in Vendors
      PROVE  ~(Lost(v) > 0)
  BY NothingLost
<1> QED  BY <1>1, <1>2 DEF GoodsForCoins, CoinsForGoods

\* An order for restocked goods: the buyer pays, and the shelves lose, the bill.
LEMMA BuyFair ==
    ASSUME Inv, Inv', NEW p \in Players, NEW v \in Vendors,
           NEW order \in [Stocked -> 0 .. MaxOrder], NEW made \in [Stocked -> SUBSET Free],
           Buy(p, v, order, made)
    PROVE  GoodsForCoins /\ CoinsForGoods
<1> DEFINE bill == SumOf([k \in Stocked |-> order[k] * Price[k]])
<1>1. bill \in Nat /\ Pays(p, bill)
  BY BillType DEF Buy
<1>2. Worth(item', p) - Worth(item, p) = bill
  BY BuyWorth
<1>4. Lost(v) = bill
  <2>1. ASSUME NEW k \in Stocked
        PROVE  stock[v][k].amount - stock'[v][k].amount = order[k]
    <3>1. stock'[v][k] = Taken(stock[v][k], order[k])
      BY DEF Buy, Inv, Types, Shelves
    <3>2. stock[v][k].amount \in Int /\ order[k] \in Int
      BY NumbersAssumption DEF Inv, Types, Shelves, Shelf
    <3> QED  BY <3>1, <3>2 DEF Taken
  <2>2. [k \in Stocked |-> (stock[v][k].amount - stock'[v][k].amount) * Price[k]]
          = [k \in Stocked |-> order[k] * Price[k]]
    BY <2>1
  <2> QED  BY <2>2 DEF Lost
<1>5. ASSUME NEW w \in Vendors, w # v
      PROVE  ~(Lost(w) > 0)
  <2>1. stock'[w] = stock[w]
    BY <1>5 DEF Buy, Inv, Types, Shelves
  <2>2. \A k \in Stocked : stock[w][k].amount \in Int
    BY DEF Inv, Types, Shelves, Shelf
  <2>3. \A k \in Stocked : stock'[w][k].amount >= stock[w][k].amount
    BY <2>1, <2>2
  <2> QED  BY <2>3, NothingLost
<1> HIDE DEF bill
<1>6. /\ Paid(p) \in Int /\ Paid(p) <= bill
      /\ Settles(p, bill)
      /\ \A q \in Players : q # p => Paid(q) = 0
  BY <1>1, PaysBill DEF Inv
<1>7. GoodsForCoins
  BY <1>1, <1>2, <1>6 DEF GoodsForCoins
<1>8. CoinsForGoods
  BY <1>2, <1>4, <1>5, <1>6 DEF CoinsForGoods
<1> QED  BY <1>7, <1>8

\* An order for a sold item, which is on no shelf.
LEMMA BuySoldFair ==
    ASSUME Inv, Inv', NEW p \in Players, NEW v \in Vendors,
           NEW x \in Items, NEW n \in 1 .. MaxOrder, BuySold(p, v, x, n)
    PROVE  GoodsForCoins /\ CoinsForGoods
<1> DEFINE bill == n * Price[item[x].kind]
           gain == Worth(item', p) - Worth(item, p)
<1>1. bill \in Nat
  <2>1. item[x].at = v
    BY DEF BuySold
  <2>2. n \in Nat /\ Price[item[x].kind] \in Nat
    BY <2>1, SomewhereIsThing, PriceIsNat, NumbersAssumption DEF Inv, Thing
  <2>3. \A a, b \in Nat : a * b \in Nat
    OBVIOUS
  <2> QED  BY <2>2, <2>3
<1>2. Pays(p, bill)
  BY DEF BuySold
<1>3. gain >= bill /\ gain \in Int
  BY BuySoldWorth, WorthChange, FiniteAssumption, SumInt
<1> HIDE DEF bill
<1>4. /\ Paid(p) \in Int /\ Paid(p) <= bill
      /\ \A q \in Players : q # p => Paid(q) = 0
  BY <1>1, <1>2, PaysBill DEF Inv
<1>5. GoodsForCoins
  <2>1. gain >= Paid(p)
    <3> HIDE DEF gain
    <3> QED  BY <1>1, <1>3, <1>4
  <2> QED  BY <1>4, <2>1 DEF GoodsForCoins
<1>6. CoinsForGoods
  <2>1. stock' = stock
    BY DEF BuySold
  <2>2. \A w \in Vendors, k \in Stocked : stock[w][k].amount \in Int
    BY DEF Inv, Types, Shelves, Shelf
  <2>3. \A w \in Vendors, k \in Stocked : stock'[w][k].amount >= stock[w][k].amount
    BY <2>1, <2>2
  <2>4. \A w \in Vendors : ~(Lost(w) > 0)
    BY <2>3, NothingLost
  <2> QED  BY <2>4 DEF CoinsForGoods
<1> QED  BY <1>5, <1>6

\* Only who buys pays, and only what is bought is lost.
LEMMA SellFair ==
    ASSUME Inv, Inv', NEW p \in Players, NEW lines \in Seq(Lines), Sell(p, lines)
    PROVE  GoodsForCoins /\ CoinsForGoods
<1>1. PICK left \in Lefts :
             /\ stock' = left.stock /\ item' = left.item
             /\ purse' = [purse EXCEPT ![p] = IF left.refused THEN @ ELSE @ + left.bill]
             /\ menu' = [menu EXCEPT ![p] = NoMenu]
             /\ UNCHANGED <<bank, need, done, open>>
  BY SellLeaves
<1>2. left.bill \in Nat /\ \A v \in Vendors, k \in Stocked : left.stock[v][k].amount >= stock[v][k].amount
  BY DEF Lefts
<1>3. \A q \in Players : purse[q] \in Nat /\ bank[q] \in Nat
  BY DEF Inv, Types
<1>4. \A q \in Players : purse'[q] >= purse[q] /\ bank'[q] >= bank[q]
  BY <1>1, <1>2, <1>3 DEF Inv, Types
<1> QED  BY <1>1, <1>2, <1>4, NoTrade

\* No coins move: what is restocked is not lost.
LEMMA ElsewhereFair ==
    ASSUME Inv, Inv', UNCHANGED <<purse, bank>>, UNCHANGED stock \/ DoRestock \/ DoRestockAll
    PROVE  GoodsForCoins /\ CoinsForGoods
<1>1. \A q \in Players : purse[q] \in Nat /\ bank[q] \in Nat
  BY DEF Inv, Types
<1>2. \A v \in Vendors, k \in Stocked : stock[v][k].amount \in Int
  BY DEF Inv, Types, Shelves, Shelf
<1>3. \A v \in Vendors, k \in Stocked : stock'[v][k].amount >= stock[v][k].amount
  BY <1>2, Restocks
<1>4. \A q \in Players : purse'[q] >= purse[q] /\ bank'[q] >= bank[q]
  BY <1>1
<1> QED  BY <1>3, <1>4, NoTrade

\* Every step is balanced.
LEMMA FairStep ==
    ASSUME Inv, Inv', [Next]_vars
    PROVE  GoodsForCoins /\ CoinsForGoods
<1>1. ASSUME NEW p \in Players, Trade(p)
      PROVE  GoodsForCoins /\ CoinsForGoods
  <2>1. ASSUME NEW v \in Vendors, NEW order \in [Stocked -> 0 .. MaxOrder],
               NEW made \in [Stocked -> SUBSET Free], Buy(p, v, order, made)
        PROVE  GoodsForCoins /\ CoinsForGoods
    BY <2>1, BuyFair
  <2>2. ASSUME NEW v \in Vendors, NEW x \in Items, NEW n \in 1 .. MaxOrder, BuySold(p, v, x, n)
        PROVE  GoodsForCoins /\ CoinsForGoods
    BY <2>2, BuySoldFair
  <2>3. ASSUME NEW v \in Vendors, SellMenu(p, v)
        PROVE  GoodsForCoins /\ CoinsForGoods
    BY <2>3, ElsewhereFair DEF SellMenu
  <2>4. ASSUME NEW a \in Lines, Sell(p, <<a>>)
        PROVE  GoodsForCoins /\ CoinsForGoods
    <3>1. <<a>> \in Seq(Lines)
      OBVIOUS
    <3> QED  BY <2>4, <3>1, SellFair
  <2>5. ASSUME NEW a \in Lines, NEW b \in Lines, Sell(p, <<a, b>>)
        PROVE  GoodsForCoins /\ CoinsForGoods
    <3>1. <<a, b>> \in Seq(Lines)
      OBVIOUS
    <3> QED  BY <2>5, <3>1, SellFair
  <2>6. CASE CloseMenu(p)
    BY <2>6, ElsewhereFair DEF CloseMenu
  <2>7. ASSUME NEW x \in Items, UseUp(p, x) \/ \E q \in Players : HandOver(p, q, x)
        PROVE  GoodsForCoins /\ CoinsForGoods
    BY <2>7, ElsewhereFair DEF UseUp, HandOver
  <2>8. ASSUME NEW x \in Items, NEW k \in Kinds, NEW n \in 1 .. MaxOrder, Find(p, x, k, n)
        PROVE  GoodsForCoins /\ CoinsForGoods
    BY <2>8, ElsewhereFair DEF Find
  <2> QED  BY <1>1, <2>1, <2>2, <2>3, <2>4, <2>5, <2>6, <2>7, <2>8 DEF Trade
<1>2. CASE GoHome \/ UNCHANGED vars
  BY <1>2, ElsewhereFair DEF GoHome, vars
<1>3. CASE DoRestock \/ DoRestockAll
  <2>1. UNCHANGED <<purse, bank>>
    BY <1>3 DEF DoRestock, DoRestockAll
  <2> QED  BY <1>3, <2>1, ElsewhereFair
<1> QED  BY <1>1, <1>2, <1>3 DEF Next

\* Whoever pays gets goods worth at least the coins in the same step, and what
\* leaves the shelves goes to one player: a GM, for nothing, or one who pays for
\* all of it, or, of a bill an SI16 does not hold, what is left of it in 16 bits
\* (buyaction, DeleteAmount, ReduceAmount).
THEOREM GoodsArePaidFor == Spec => PayerGetsGoods
<1>1. Inv /\ Inv' /\ [Next]_vars => [GoodsForCoins /\ CoinsForGoods]_vars
  BY FairStep
<1> QED  BY Invariance, <1>1, PTL DEF Spec, PayerGetsGoods
=============================================================================
