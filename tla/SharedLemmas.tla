---------------------------- MODULE SharedLemmas ----------------------------
(***************************************************************************)
(* Facts that several proofs need: what pushing and popping leave in place *)
(* of a stack of tasks (a sequence, the running task last, as rayon's      *)
(* workers keep it when they take other work while they wait), least       *)
(* elements, and with them induction: over the naturals and over the       *)
(* subsets of a finite set, each for a set of those that are as they       *)
(* should.  From these follow the laws of SumFunctionOnSet, and what the   *)
(* recursive functions of Lists make of a list: a selection, a             *)
(* concatenation, a stable sort; and last, what determines a list or a     *)
(* run, so that two of them are the same.                                  *)
(***************************************************************************)
EXTENDS Lists, SequenceTheorems, FiniteSetTheorems, WellFoundedInduction, TLAPS

\* A task that is put on a stack leaves the ones below where they are.
LEMMA Pushed ==
    ASSUME NEW T, NEW s \in Seq(T), NEW x \in T
    PROVE  /\ Append(s, x) \in Seq(T)
           /\ Len(Append(s, x)) = Len(s) + 1
           /\ \A i \in 1 .. Len(s) : Append(s, x)[i] = s[i]
           /\ Append(s, x)[Len(s) + 1] = x
OBVIOUS

\* So does one that is taken off.
LEMMA Popped ==
    ASSUME NEW T, NEW s \in Seq(T), s # <<>>
    PROVE  /\ Front(s) \in Seq(T)
           /\ Len(Front(s)) = Len(s) - 1
           /\ \A i \in 1 .. Len(s) - 1 : Front(s)[i] = s[i]
           /\ Len(s) \in Nat \ {0}
           /\ Front(s) = <<>> => Len(s) = 1
<1> DEFINE m == Len(s)
           f == SubSeq(s, 1, m - 1)
           k == Len(f)
<1>1. m \in Nat \ {0} /\ Len(<<>>) = 0
  BY EmptySeq
<1>2. \A i \in 1 .. m - 1 : s[i] \in T
  BY <1>1, ElementOfSeq
<1>3. /\ f \in Seq(T)
      /\ k = IF 1 <= m - 1 THEN m - 1 - 1 + 1 ELSE 0
      /\ \A i \in 1 .. m - 1 - 1 + 1 : f[i] = s[1 + i - 1]
  BY <1>1, <1>2, SubSeqProperties
<1>4. f = <<>> => k = 0
  BY <1>1
<1> HIDE DEF m, f, k
<1>5. k = m - 1 /\ (f = <<>> => m = 1) /\ \A i \in 1 .. m - 1 : f[i] = s[i]
  BY <1>1, <1>3, <1>4
<1>6. QED
  BY <1>1, <1>3, <1>5 DEF m, f, k, Front

\* A set of naturals has a least element.
LEMMA LeastElement ==
    ASSUME NEW T \in SUBSET Nat, T # {}
    PROVE  \E x \in T : \A y \in T : x <= y
<1>1. \E x \in T : \A y \in T : ~ (<<y, x>> \in OpToRel(<, Nat))
  BY NatLessThanWellFounded, WFMin
<1>2. \A x, y \in Nat : <<y, x>> \in OpToRel(<, Nat) <=> y < x
  BY DEF OpToRel
<1>3. PICK x \in T : \A y \in T : ~ (<<y, x>> \in OpToRel(<, Nat))
  BY <1>1
<1>4. \A y \in T : x \in Nat /\ y \in Nat /\ ~(y < x)
  BY <1>2, <1>3
<1>5. \A y \in T : x <= y
  BY <1>4
<1>6. QED
  BY <1>5

-----------------------------------------------------------------------------
(* Finite sets.                                                            *)

\* The values of a function on a finite set are finite.
LEMMA ImageIsFinite ==
    ASSUME NEW S, IsFiniteSet(S), NEW f, DOMAIN f = S
    PROVE  IsFiniteSet({ f[x] : x \in S })
<1> DEFINE T == { f[x] : x \in S }
           g == [x \in S |-> f[x]]
<1>1. g \in Surjection(S, T)
  BY DEF Surjection
<1>2. QED
  BY <1>1, FS_Surjection

\* How many members of a set come no later than a given place.
LEMMA RankGrows ==
    ASSUME NEW S, IsFiniteSet(S), NEW f \in [S -> Nat], NEW r \in S, NEW s \in S, f[r] < f[s]
    PROVE  /\ Cardinality({ x \in S : f[x] <= f[r] }) \in Nat
           /\ Cardinality({ x \in S : f[x] <= f[s] }) \in Nat
           /\ Cardinality({ x \in S : f[x] <= f[r] }) < Cardinality({ x \in S : f[x] <= f[s] })
           /\ Cardinality({ x \in S : f[x] <= f[s] }) <= Cardinality(S)
<1> DEFINE A == { x \in S : f[x] <= f[r] }
           B == { x \in S : f[x] <= f[s] }
<1>1. A \in SUBSET B /\ B \in SUBSET S /\ s \in B /\ s \notin A
  OBVIOUS
<1>2. IsFiniteSet(B) /\ Cardinality(B) <= Cardinality(S)
  BY <1>1, FS_Subset
<1>3. /\ IsFiniteSet(A)
      /\ Cardinality(A) <= Cardinality(B)
      /\ Cardinality(B) = Cardinality(A) => B = A
  BY <1>1, <1>2, FS_Subset
<1>4. Cardinality(A) \in Nat /\ Cardinality(B) \in Nat
  BY <1>2, <1>3, FS_CardinalityType
<1> HIDE DEF A, B
<1>5. Cardinality(A) < Cardinality(B)
  BY <1>1, <1>3, <1>4
<1>6. QED
  BY <1>2, <1>4, <1>5 DEF A, B

\* A finite set has a member that comes last.
LEMMA LastMember ==
    ASSUME NEW S, IsFiniteSet(S), S # {}, NEW f \in [S -> Nat]
    PROVE  \E r \in S : \A s \in S : f[s] <= f[r]
<1> DEFINE Rank(r) == Cardinality({ x \in S : f[x] <= f[r] })
           after == { Cardinality(S) - Rank(r) : r \in S }
<1>1. ASSUME NEW r \in S
      PROVE  Rank(r) \in Nat /\ Rank(r) <= Cardinality(S)
  <2>1. { x \in S : f[x] <= f[r] } \in SUBSET S
    OBVIOUS
  <2>2. QED
    BY <2>1, FS_Subset, FS_CardinalityType
<1>2. Cardinality(S) \in Nat
  BY FS_CardinalityType
<1>3. \A r, s \in S : f[r] < f[s] => Rank(r) < Rank(s)
  BY RankGrows
<1> HIDE DEF Rank
<1>4. after \in SUBSET Nat /\ after # {}
  BY <1>1, <1>2
<1>5. PICK m \in after : \A n \in after : m <= n
  BY <1>4, LeastElement
<1>6. PICK r \in S : m = Cardinality(S) - Rank(r)
  OBVIOUS
<1>7. ASSUME NEW s \in S
      PROVE  f[s] <= f[r]
  <2>1. Cardinality(S) - Rank(r) <= Cardinality(S) - Rank(s)
    BY <1>5, <1>6
  <2>2. Rank(s) <= Rank(r)
    BY <1>1, <1>2, <2>1
  <2>3. ~ (f[r] < f[s])
    BY <1>1, <1>3, <2>2
  <2>4. QED
    BY <2>3
<1>8. QED
  BY <1>7

\* The greatest member of a finite set of naturals.
LEMMA GreatestElement ==
    ASSUME NEW S \in SUBSET Nat, IsFiniteSet(S), S # {}
    PROVE  Max(S) \in S /\ \A x \in S : x <= Max(S)
<1> DEFINE f == [x \in S |-> x]
<1>1. PICK r \in S : \A x \in S : f[x] <= f[r]
  BY LastMember
<1>2. r \in S /\ \A x \in S : r >= x
  BY <1>1
<1>3. QED
  BY <1>2 DEF Max

\* So do the values that a function takes on a finite set have one.
LEMMA GreatestValue ==
    ASSUME NEW S, IsFiniteSet(S), NEW f \in [S -> Nat]
    PROVE  LET T == {0} \cup { f[x] : x \in S }
           IN  Max(T) \in T /\ Max(T) \in Nat /\ \A x \in S : f[x] <= Max(T)
<1> DEFINE T == {0} \cup { f[x] : x \in S }
<1>1. DOMAIN f = S
  OBVIOUS
<1>a. IsFiniteSet({ f[x] : x \in S })
  BY <1>1, ImageIsFinite
<1>2. IsFiniteSet({ f[x] : x \in S }) /\ IsFiniteSet({0})
  BY <1>a, FS_Singleton
<1>3. IsFiniteSet(T)
  BY <1>2, FS_Union
<1>4. T \in SUBSET Nat /\ T # {} /\ \A x \in S : f[x] \in T
  OBVIOUS
<1> HIDE DEF T
<1>5. Max(T) \in T /\ \A x \in T : x <= Max(T)
  BY <1>3, <1>4, GreatestElement
<1>6. QED
  BY <1>4, <1>5 DEF T

-----------------------------------------------------------------------------
(* Induction.                                                              *)

\* Induction over the naturals, for a set.
LEMMA SetInduction ==
    ASSUME NEW P, 0 \in P, \A n \in Nat : n \in P => n + 1 \in P
    PROVE  Nat \subseteq P
<1> DEFINE bad == { n \in Nat : n \notin P }
<1>1. CASE bad = {}
  BY <1>1
<1>2. CASE bad # {}
  <2>1. PICK n \in bad : \A k \in bad : n <= k
    BY <1>2, LeastElement
  <2>2. n \in Nat /\ n # 0 /\ n - 1 \in Nat /\ n - 1 \notin bad
    BY <2>1
  <2>3. n - 1 \in P
    BY <2>2
  <2>4. (n - 1) + 1 \in P
    BY <2>2, <2>3
  <2>5. QED
    BY <2>1, <2>2, <2>4
<1>3. QED
  BY <1>1, <1>2

\* What holds of a set when it holds of its proper subsets holds of every
\* subset of a finite set.
LEMMA SubsetInduction ==
    ASSUME NEW D, IsFiniteSet(D), NEW P,
           \A T \in SUBSET D : (\A U \in SUBSET T : U # T => U \in P) => T \in P
    PROVE  SUBSET D \subseteq P
<1> SUFFICES ASSUME NEW W \in SUBSET D, W \notin P
             PROVE  FALSE
  OBVIOUS
<1> DEFINE bad == { T \in SUBSET D : T \notin P }
           sizes == { Cardinality(T) : T \in bad }
<1>1. \A T \in SUBSET D : IsFiniteSet(T) /\ Cardinality(T) \in Nat
  BY FS_Subset, FS_CardinalityType
<1>2. sizes \in SUBSET Nat /\ sizes # {}
  BY <1>1
<1>3. PICK n \in sizes : \A k \in sizes : n <= k
  BY <1>2, LeastElement
<1>4. PICK T \in bad : n = Cardinality(T)
  OBVIOUS
<1>5. ASSUME NEW U \in SUBSET T, U # T
      PROVE  U \in P
  <2>1. U \in SUBSET D /\ IsFiniteSet(T)
    BY <1>1, <1>4
  <2>2. Cardinality(U) < Cardinality(T)
    <3>1. Cardinality(U) <= Cardinality(T) /\ Cardinality(U) # Cardinality(T)
      BY <1>5, <2>1, FS_Subset
    <3>2. Cardinality(U) \in Nat /\ Cardinality(T) \in Nat
      BY <1>1, <1>4, <2>1
    <3>3. QED
      BY <3>1, <3>2
  <2>3. Cardinality(U) \notin sizes
    <3>1. Cardinality(U) \in Nat /\ n \in Nat
      BY <1>1, <1>2, <2>1
    <3>2. QED
      BY <1>3, <1>4, <2>2, <3>1
  <2>4. QED
    BY <2>1, <2>3
<1>6. QED
  BY <1>4, <1>5

-----------------------------------------------------------------------------
(* Recursion over an interval of the integers.                             *)

\* A function that is given one value after the other keeps to the sets that
\* each value makes the next one keep to.
LEMMA RecursionKeeps ==
    ASSUME NEW lo \in Int, NEW hi \in Int, NEW k, NEW V,
           k[lo] \in V[lo],
           \A j \in lo + 1 .. hi : k[j - 1] \in V[j - 1] => k[j] \in V[j]
    PROVE  \A j \in lo .. hi : k[j] \in V[j]
<1> DEFINE P == { n \in Nat : lo + n \in lo .. hi => k[lo + n] \in V[lo + n] }
<1>1. 0 \in P
  OBVIOUS
<1>2. ASSUME NEW n \in Nat, n \in P PROVE n + 1 \in P
  <2> SUFFICES ASSUME lo + (n + 1) \in lo .. hi PROVE k[lo + (n + 1)] \in V[lo + (n + 1)]
    OBVIOUS
  <2> DEFINE j == lo + (n + 1)
  <2>1. j \in lo + 1 .. hi /\ j - 1 = lo + n /\ lo + n \in lo .. hi
    OBVIOUS
  <2>2. k[j - 1] \in V[j - 1]
    BY <1>2, <2>1
  <2>3. QED
    BY <2>1, <2>2
<1> HIDE DEF P
<1>3. Nat \subseteq P
  BY <1>1, <1>2, SetInduction
<1>4. ASSUME NEW j \in lo .. hi PROVE k[j] \in V[j]
  <2>1. j - lo \in P /\ lo + (j - lo) = j
    BY <1>3
  <2>2. QED
    BY <2>1 DEF P
<1>5. QED
  BY <1>4

\* The function that begins with a value and takes a step from each to the next.
IsRecursion(k, lo, hi, start, step) ==
    k = [j \in lo .. hi |-> IF j = lo THEN start ELSE step[j][k[j - 1]]]

\* It goes on to the next place.
LEMMA RecursionGoesOn ==
    ASSUME NEW lo \in Int, NEW m \in Int, lo <= m, NEW start, NEW step, NEW k,
           IsRecursion(k, lo, m, start, step)
    PROVE  \E new : /\ IsRecursion(new, lo, m + 1, start, step)
                    /\ \A j \in lo .. m : new[j] = k[j]
                    /\ new[m + 1] = step[m + 1][k[m]]
<1> DEFINE next == step[m + 1][k[m]]
           new == [j \in lo .. m + 1 |-> IF j = m + 1 THEN next ELSE k[j]]
           Value(j) == IF j = lo THEN start ELSE step[j][new[j - 1]]
<1>1. \A j \in lo .. m : k[j] = IF j = lo THEN start ELSE step[j][k[j - 1]]
  BY DEF IsRecursion
<1>2. /\ DOMAIN new = lo .. m + 1 /\ new[m + 1] = next
      /\ \A j \in lo .. m : new[j] = k[j]
      /\ new = [j \in lo .. m + 1 |-> new[j]]
  OBVIOUS
<1> HIDE DEF new
<1>a. next = step[m + 1][k[m]]
  OBVIOUS
<1>b. \A j \in lo .. m + 1 : j = m + 1 \/ j \in lo .. m
  OBVIOUS
<1>c. \A j \in lo .. m : j # lo => j - 1 \in lo .. m
  OBVIOUS
<1>d. m + 1 # lo /\ (m + 1) - 1 = m /\ m \in lo .. m
  OBVIOUS
<1> HIDE DEF next
<1>3. ASSUME NEW j \in lo .. m + 1 PROVE new[j] = Value(j)
  <2>1. CASE j = m + 1
    <3>1. new[m + 1] = step[m + 1][new[(m + 1) - 1]]
      BY <1>2, <1>a, <1>d
    <3>2. QED
      BY <1>d, <2>1, <3>1
  <2>2. CASE j \in lo .. m
    <3>1. CASE j = lo
      BY <1>1, <1>2, <2>2, <3>1
    <3>2. CASE j # lo
      <4>1. j - 1 \in lo .. m
        BY <1>c, <2>2, <3>2
      <4>2. new[j - 1] = k[j - 1] /\ new[j] = k[j] /\ k[j] = step[j][k[j - 1]]
        BY <1>1, <1>2, <2>2, <3>2, <4>1
      <4>3. QED
        BY <3>2, <4>2
    <3>3. QED
      BY <3>1, <3>2
  <2>3. QED
    BY <1>b, <2>1, <2>2
<1>4. new = [j \in lo .. m + 1 |-> Value(j)]
  <2> HIDE DEF Value
  <2>1. QED
    BY <1>2, <1>3
<1>5. IsRecursion(new, lo, m + 1, start, step)
  BY <1>4 DEF IsRecursion
<1>6. QED
  BY <1>2, <1>5, <1>a

\* There is one, and it keeps to the sets that its steps keep to.
LEMMA RecursionExists ==
    ASSUME NEW lo \in Int, NEW hi \in Int, NEW V, NEW start, start \in V[lo], NEW step,
           \A j \in lo + 1 .. hi : \A v \in V[j - 1] : step[j][v] \in V[j]
    PROVE  \E k : IsRecursion(k, lo, hi, start, step) /\ \A j \in lo .. hi : k[j] \in V[j]
<1> DEFINE Made(k, m) == IsRecursion(k, lo, m, start, step) /\ \A j \in lo .. m : k[j] \in V[j]
           P == { n \in Nat : lo + n \in lo .. hi => \E k : Made(k, lo + n) }
<1>1. 0 \in P
  <2> DEFINE k == [j \in lo .. lo |-> start]
  <2>1. /\ k = [j \in lo .. lo |-> IF j = lo THEN start ELSE step[j][k[j - 1]]]
        /\ \A j \in lo .. lo : k[j] \in V[j]
    OBVIOUS
  <2> HIDE DEF k
  <2>2. Made(k, lo)
    BY <2>1 DEF IsRecursion
  <2> HIDE DEF Made
  <2>3. lo + 0 = lo
    OBVIOUS
  <2>4. QED
    BY <2>2, <2>3
<1>2. ASSUME NEW n \in Nat, n \in P PROVE n + 1 \in P
  <2> DEFINE m == lo + n
  <2> SUFFICES ASSUME lo + (n + 1) \in lo .. hi PROVE \E k : Made(k, m + 1)
    <3>1. m + 1 = lo + (n + 1)
      OBVIOUS
    <3> HIDE DEF Made, m
    <3>2. QED
      BY <3>1
  <2>1. m \in Int /\ m \in lo .. hi /\ lo <= m /\ m + 1 \in lo + 1 .. hi /\ (m + 1) - 1 = m
    OBVIOUS
  <2>2. PICK k : Made(k, m)
    <3> HIDE DEF Made
    <3>1. QED
      BY <1>2, <2>1
  <2> HIDE DEF m
  <2>3. PICK new : /\ IsRecursion(new, lo, m + 1, start, step)
                   /\ \A j \in lo .. m : new[j] = k[j]
                   /\ new[m + 1] = step[m + 1][k[m]]
    BY <2>1, <2>2, RecursionGoesOn
  <2>4. k[m] \in V[m] /\ new[m + 1] \in V[m + 1]
    BY <2>1, <2>2, <2>3
  <2>5. \A j \in lo .. m + 1 : j = m + 1 \/ j \in lo .. m
    BY <2>1
  <2>6. \A j \in lo .. m + 1 : new[j] \in V[j]
    BY <2>2, <2>3, <2>4, <2>5
  <2>7. QED
    BY <2>3, <2>6
<1>3. Nat \subseteq P
  <2> HIDE DEF P
  <2>1. QED
    BY <1>1, <1>2, SetInduction
<1>4. CASE lo <= hi
  <2>1. hi - lo \in Nat /\ lo + (hi - lo) = hi /\ hi \in lo .. hi
    BY <1>4
  <2> HIDE DEF Made
  <2>2. \E k : Made(k, hi)
    BY <1>3, <2>1
  <2>3. QED
    BY <2>2 DEF Made
<1>5. CASE ~(lo <= hi)
  <2> DEFINE none == [j \in {} |-> start]
  <2>1. lo .. hi = {}
    BY <1>5
  <2>2. none = [j \in lo .. hi |-> IF j = lo THEN start ELSE step[j][none[j - 1]]]
    BY <2>1
  <2>3. IsRecursion(none, lo, hi, start, step)
    BY <2>2 DEF IsRecursion
  <2>4. QED
    BY <2>1, <2>3
<1>6. QED
  BY <1>4, <1>5

-----------------------------------------------------------------------------
(* Sums.                                                                   *)

\* What SumFunctionOnSet solves on the subsets of D.
IsSum(f, D, h) ==
    \A T \in SUBSET D :
        h[T] = IF T = {} THEN 0
               ELSE f[CHOOSE x \in T : TRUE] + h[T \ {CHOOSE x \in T : TRUE}]

\* The recursion that defines a sum over a finite set has a solution.
LEMMA SumRecursion ==
    ASSUME NEW D, IsFiniteSet(D), NEW f, \A x \in D : f[x] \in Nat
    PROVE  \E h \in [SUBSET D -> Nat] : IsSum(f, D, h)
<1> DEFINE c == [T \in SUBSET D |-> CHOOSE x \in T : TRUE]
           G == [x \in D |-> [v \in Nat |-> f[x] + v]]
           V == Nat
           base == 0
<1>a. base \in V /\ \A T \in SUBSET D : T # {} => c[T] \in T
  OBVIOUS
<1>b. \A x \in D, v \in V : G[x][v] = f[x] + v /\ G[x][v] \in V
  OBVIOUS
<1>c. \A T \in SUBSET D : c[T] = CHOOSE x \in T : TRUE
  OBVIOUS
<1> HIDE DEF c, G, V, base
<1> DEFINE Value(h, T) == IF T = {} THEN base ELSE G[c[T]][h[T \ {c[T]}]]
           Small(n) == { U \in SUBSET D : Cardinality(U) <= n }
           P == { n \in Nat : \E h \in [SUBSET D -> V] : \A T \in Small(n) : h[T] = Value(h, T) }
<1>1. \A T \in SUBSET D : /\ Cardinality(T) \in Nat /\ Cardinality(T) <= Cardinality(D)
                          /\ Cardinality(T) = 0 => T = {}
                          /\ T # {} => /\ c[T] \in D /\ T \ {c[T]} \in SUBSET D
                                       /\ Cardinality(T \ {c[T]}) = Cardinality(T) - 1
  <2> SUFFICES ASSUME NEW T \in SUBSET D
               PROVE  /\ Cardinality(T) \in Nat /\ Cardinality(T) <= Cardinality(D)
                      /\ Cardinality(T) = 0 => T = {}
                      /\ T # {} => /\ c[T] \in D /\ T \ {c[T]} \in SUBSET D
                                   /\ Cardinality(T \ {c[T]}) = Cardinality(T) - 1
    OBVIOUS
  <2>1. IsFiniteSet(T) /\ Cardinality(T) <= Cardinality(D)
    BY FS_Subset
  <2>2. Cardinality(T) \in Nat /\ (Cardinality(T) = 0 => T = {})
    BY <2>1, FS_CardinalityType, FS_EmptySet
  <2>3. ASSUME T # {} PROVE Cardinality(T \ {c[T]}) = Cardinality(T) - 1
    BY <1>a, <2>1, <2>3, FS_RemoveElement
  <2>4. QED
    BY <1>a, <2>1, <2>2, <2>3
<1>2. \A h \in [SUBSET D -> V] : \A T \in SUBSET D : Value(h, T) \in V
  BY <1>a, <1>b, <1>1
<1>3. 0 \in P
  <2> DEFINE h == [T \in SUBSET D |-> base]
  <2>1. ASSUME NEW T \in Small(0) PROVE T = {}
    <3>1. T \in SUBSET D /\ Cardinality(T) <= 0
      OBVIOUS
    <3>2. Cardinality(T) \in Nat
      BY <1>1, <3>1
    <3>3. \A i \in Nat : i <= 0 => i = 0
      OBVIOUS
    <3>4. QED
      BY <1>1, <3>1, <3>2, <3>3
  <2>2. h \in [SUBSET D -> V] /\ \A T \in Small(0) : h[T] = Value(h, T)
    BY <1>a, <2>1
  <2>3. QED
    BY <2>2
<1>4. ASSUME NEW n \in Nat, n \in P PROVE n + 1 \in P
  <2>1. PICK h \in [SUBSET D -> V] : \A T \in Small(n) : h[T] = Value(h, T)
    BY <1>4
  <2> DEFINE k == [T \in SUBSET D |-> IF T \in Small(n) THEN h[T] ELSE Value(h, T)]
  <2>2. k \in [SUBSET D -> V]
    BY <1>2
  <2>3. \A T \in SUBSET D : k[T] = Value(h, T)
    BY <2>1
  <2>4. ASSUME NEW T \in Small(n + 1) PROVE Value(k, T) = Value(h, T)
    <3>1. CASE T = {}
      BY <3>1
    <3>2. CASE T # {}
      <4>1. T \ {c[T]} \in Small(n)
        <5>1. T \in SUBSET D /\ Cardinality(T) <= n + 1
          OBVIOUS
        <5>2. /\ Cardinality(T) \in Nat
              /\ T \ {c[T]} \in SUBSET D
              /\ Cardinality(T \ {c[T]}) = Cardinality(T) - 1
          BY <1>1, <3>2, <5>1
        <5>3. \A i \in Nat : i <= n + 1 => i - 1 <= n
          OBVIOUS
        <5>4. QED
          BY <5>1, <5>2, <5>3
      <4>2. k[T \ {c[T]}] = h[T \ {c[T]}]
        BY <4>1
      <4>3. QED
        BY <4>2
    <3>3. QED
      BY <3>1, <3>2
  <2>5. \A T \in Small(n + 1) : k[T] = Value(k, T)
    BY <2>3, <2>4
  <2> HIDE DEF k, Value, Small
  <2>6. n + 1 \in Nat /\ \E l \in [SUBSET D -> V] : \A T \in Small(n + 1) : l[T] = Value(l, T)
    BY <2>2, <2>5
  <2> HIDE DEF k
  <2>7. QED
    BY <2>6
<1>5. Cardinality(D) \in P
  <2> HIDE DEF P
  <2>1. Nat \subseteq P
    BY <1>3, <1>4, SetInduction
  <2>2. QED
    BY <1>1, <2>1
<1>6. PICK g \in [SUBSET D -> V] : \A T \in Small(Cardinality(D)) : g[T] = Value(g, T)
  BY <1>5
<1>7. \A T \in SUBSET D : g[T] = Value(g, T)
  BY <1>1, <1>6
<1>8. \A T \in SUBSET D :
             g[T] = IF T = {} THEN 0
                    ELSE f[CHOOSE x \in T : TRUE] + g[T \ {CHOOSE x \in T : TRUE}]
  <2> SUFFICES ASSUME NEW T \in SUBSET D, T # {}
               PROVE  g[T] = f[c[T]] + g[T \ {c[T]}]
    BY <1>7, <1>c DEF base
  <2>1. c[T] \in D /\ g[T \ {c[T]}] \in V
    BY <1>a
  <2>2. QED
    BY <1>7, <1>b, <2>1
<1>9. g \in [SUBSET D -> Nat]
  BY DEF V
<1>10. IsSum(f, D, g)
  BY <1>8 DEF IsSum
<1>11. QED
  BY <1>9, <1>10

\* A sum over a finite set splits off some element.
LEMMA SumByElements ==
    ASSUME NEW D, IsFiniteSet(D), NEW f, \A x \in D : f[x] \in Nat
    PROVE  \A T \in SUBSET D :
             /\ SumFunctionOnSet(f, T) \in Nat
             /\ T # {} => \E y \in T :
                  SumFunctionOnSet(f, T) = f[y] + SumFunctionOnSet(f, T \ {y})
<1>1. PICK h \in [SUBSET D -> Nat] : IsSum(f, D, h)
  BY SumRecursion
<1>2. \A T \in SUBSET D :
        h[T] = IF T = {} THEN 0
               ELSE f[CHOOSE x \in T : TRUE] + h[T \ {CHOOSE x \in T : TRUE}]
  BY <1>1 DEF IsSum
<1>3. ASSUME NEW S \in SUBSET D
      PROVE  SumFunctionOnSet(f, S) = h[S]
  <2> DEFINE Iter(g) == g = [T \in SUBSET S |->
                 IF T = {} THEN 0
                 ELSE f[CHOOSE x \in T : TRUE] + g[T \ {CHOOSE x \in T : TRUE}]]
             it == CHOOSE g : Iter(g)
             k == [T \in SUBSET S |-> h[T]]
  <2>1. Iter(k)
    <3>1. ASSUME NEW T \in SUBSET S
          PROVE  h[T] = IF T = {} THEN 0
                        ELSE f[CHOOSE x \in T : TRUE] + k[T \ {CHOOSE x \in T : TRUE}]
      BY <1>2
    <3>2. QED
      BY <3>1
  <2>2. Iter(it)
    BY <2>1
  <2>3. SumFunctionOnSet(f, S) = it[S]
    BY DEF SumFunctionOnSet, FoldFunctionOnSet, MapThenFoldSet
  <2> HIDE DEF it
  <2> DEFINE P == { T \in SUBSET S : it[T] = h[T] }
  <2>4. ASSUME NEW T \in SUBSET S, \A U \in SUBSET T : U # T => U \in P
        PROVE  T \in P
    <3>1. it[T] = IF T = {} THEN 0
                  ELSE f[CHOOSE x \in T : TRUE] + it[T \ {CHOOSE x \in T : TRUE}]
      BY <2>2
    <3>2. CASE T = {}
      BY <1>2, <3>1, <3>2
    <3>3. CASE T # {}
      <4> DEFINE y == CHOOSE x \in T : TRUE
      <4>1. y \in T
        BY <3>3
      <4> HIDE DEF y
      <4>2. T \ {y} \in P
        BY <2>4, <4>1
      <4>3. it[T] = f[y] + it[T \ {y}] /\ h[T] = f[y] + h[T \ {y}]
        BY <1>2, <3>1, <3>3 DEF y
      <4>4. QED
        BY <4>2, <4>3
    <3>4. QED
      BY <3>2, <3>3
  <2>5. IsFiniteSet(S)
    BY FS_Subset
  <2>6. SUBSET S \subseteq P
    <3> HIDE DEF P
    <3>1. QED
      BY <2>4, <2>5, SubsetInduction
  <2>7. QED
    BY <2>3, <2>6
<1>4. ASSUME NEW T \in SUBSET D
      PROVE  SumFunctionOnSet(f, T) \in Nat
  BY <1>3
<1>5. ASSUME NEW T \in SUBSET D, T # {}
      PROVE  \E y \in T : SumFunctionOnSet(f, T) = f[y] + SumFunctionOnSet(f, T \ {y})
  <2> DEFINE y == CHOOSE x \in T : TRUE
  <2>1. y \in T /\ h[T] = f[y] + h[T \ {y}]
    BY <1>2, <1>5
  <2> HIDE DEF y
  <2>2. T \ {y} \in SUBSET D
    OBVIOUS
  <2>3. QED
    BY <1>3, <2>1, <2>2
<1>6. QED
  BY <1>4, <1>5

\* Which element it is makes no difference.
LEMMA SumOfFinite ==
    ASSUME NEW D, IsFiniteSet(D), NEW f, \A x \in D : f[x] \in Nat
    PROVE  \A T \in SUBSET D :
             /\ SumFunctionOnSet(f, T) \in Nat
             /\ \A x \in T : SumFunctionOnSet(f, T) = f[x] + SumFunctionOnSet(f, T \ {x})
<1> DEFINE Sum(T) == SumFunctionOnSet(f, T)
           P == { T \in SUBSET D : \A x \in T : Sum(T) = f[x] + Sum(T \ {x}) }
<1>1. ASSUME NEW T \in SUBSET D
      PROVE  Sum(T) \in Nat /\ (T # {} => \E y \in T : Sum(T) = f[y] + Sum(T \ {y}))
  BY SumByElements
<1> HIDE DEF Sum
<1>2. ASSUME NEW T \in SUBSET D, \A U \in SUBSET T : U # T => U \in P
      PROVE  T \in P
  <2> SUFFICES ASSUME NEW x \in T
               PROVE  Sum(T) = f[x] + Sum(T \ {x})
    OBVIOUS
  <2>1. PICK y \in T : Sum(T) = f[y] + Sum(T \ {y})
    BY <1>1
  <2>2. CASE x = y
    BY <2>1, <2>2
  <2>3. CASE x # y
    <3>1. T \ {y} \in P /\ T \ {x} \in P
      BY <1>2, <2>1
    <3>2. Sum(T \ {y}) = f[x] + Sum((T \ {y}) \ {x})
      BY <2>3, <3>1
    <3>3. Sum(T \ {x}) = f[y] + Sum((T \ {x}) \ {y})
      BY <2>1, <2>3, <3>1
    <3>4. (T \ {y}) \ {x} = (T \ {x}) \ {y} /\ (T \ {x}) \ {y} \in SUBSET D
      OBVIOUS
    <3>5. f[x] \in Nat /\ f[y] \in Nat /\ Sum((T \ {x}) \ {y}) \in Nat
      BY <1>1, <2>1, <3>4
    <3>6. \A a, b, s \in Nat : a + (b + s) = b + (a + s)
      OBVIOUS
    <3>7. Sum(T) = f[y] + (f[x] + Sum((T \ {x}) \ {y}))
      BY <2>1, <3>2, <3>4, Zenon
    <3>8. Sum(T) = f[x] + (f[y] + Sum((T \ {x}) \ {y}))
      BY <3>5, <3>6, <3>7
    <3>9. QED
      BY <3>3, <3>8, Zenon
  <2>4. QED
    BY <2>2, <2>3
<1>3. SUBSET D \subseteq P
  <2> HIDE DEF P
  <2>1. QED
    BY <1>2, SubsetInduction
<1>4. QED
  BY <1>1, <1>3 DEF Sum

\* A sum over a larger set is larger by what it has more.
LEMMA SumGrows ==
    ASSUME NEW D, IsFiniteSet(D), NEW f, \A x \in D : f[x] \in Nat,
           NEW U \in SUBSET D, NEW x \in U, NEW T \in SUBSET U, x \notin T
    PROVE  SumFunctionOnSet(f, T) + f[x] <= SumFunctionOnSet(f, U)
<1> DEFINE P == { V \in SUBSET D : \A W \in SUBSET V :
                    SumFunctionOnSet(f, W) <= SumFunctionOnSet(f, V) }
<1>1. ASSUME NEW V \in SUBSET D, \A W \in SUBSET V : W # V => W \in P
      PROVE  V \in P
  <2> SUFFICES ASSUME NEW W \in SUBSET V
               PROVE  SumFunctionOnSet(f, W) <= SumFunctionOnSet(f, V)
    OBVIOUS
  <2>1. SumFunctionOnSet(f, W) \in Nat /\ SumFunctionOnSet(f, V) \in Nat
    BY SumOfFinite
  <2>2. CASE W = V
    BY <2>1, <2>2
  <2>3. CASE W # V
    <3>1. PICK y \in V : y \notin W
      BY <2>3
    <3>2. V \ {y} \in P /\ W \in SUBSET (V \ {y})
      BY <1>1, <3>1
    <3>3. SumFunctionOnSet(f, W) <= SumFunctionOnSet(f, V \ {y})
      BY <3>2
    <3>4. /\ SumFunctionOnSet(f, V) = f[y] + SumFunctionOnSet(f, V \ {y})
          /\ SumFunctionOnSet(f, V \ {y}) \in Nat /\ f[y] \in Nat
      BY <3>1, SumOfFinite
    <3>5. QED
      BY <2>1, <3>3, <3>4
  <2>4. QED
    BY <2>2, <2>3
<1>2. SUBSET D \subseteq P
  <2> HIDE DEF P
  <2>1. QED
    BY <1>1, SubsetInduction
<1>3. U \ {x} \in SUBSET D /\ T \in SUBSET (U \ {x})
  OBVIOUS
<1>4. SumFunctionOnSet(f, T) <= SumFunctionOnSet(f, U \ {x})
  BY <1>2, <1>3
<1>5. /\ SumFunctionOnSet(f, U) = f[x] + SumFunctionOnSet(f, U \ {x})
      /\ SumFunctionOnSet(f, U \ {x}) \in Nat /\ f[x] \in Nat
  BY SumOfFinite
<1>6. SumFunctionOnSet(f, T) \in Nat
  <2>1. T \in SUBSET D
    OBVIOUS
  <2>2. QED
    BY <2>1, SumOfFinite
<1>7. QED
  BY <1>4, <1>5, <1>6

-----------------------------------------------------------------------------
(* Selections, concatenations and sorts of lists (Lists.tla).              *)

\* A list of what is chosen among the first n of s: where each came from.
IsSelection(at, n, chosen, s, v) ==
    /\ at \in [1 .. Len(v) -> 1 .. n]
    /\ \A k \in 1 .. Len(v) : at[k] \in chosen /\ v[k] = s[at[k]]
    /\ \A k, l \in 1 .. Len(v) : k < l => at[k] < at[l]
    /\ \A i \in 1 .. n : i \in chosen => \E k \in 1 .. Len(v) : at[k] = i

LEMMA SelectionGrows ==
    ASSUME NEW T, NEW s, NEW chosen, NEW n \in Nat \ {0}, NEW v \in Seq(T), NEW at,
           IsSelection(at, n - 1, chosen, s, v), n \in chosen => s[n] \in T
    PROVE  \E new : IsSelection(new, n, chosen, s, IF n \in chosen THEN Append(v, s[n]) ELSE v)
<1> DEFINE size == Len(v)
<1>1. /\ size \in Nat /\ at \in [1 .. size -> 1 .. n - 1]
      /\ \A k \in 1 .. size : at[k] \in chosen /\ v[k] = s[at[k]]
      /\ \A k, l \in 1 .. size : k < l => at[k] < at[l]
      /\ \A i \in 1 .. n - 1 : i \in chosen => \E k \in 1 .. size : at[k] = i
  BY DEF IsSelection
<1>2. \A i \in 1 .. n : i = n \/ i \in 1 .. n - 1
  OBVIOUS
<1>3. \A k \in 1 .. size : at[k] \in 1 .. n - 1 /\ at[k] \in 1 .. n /\ at[k] < n
  BY <1>1
<1>4. CASE n \notin chosen
  <2> HIDE DEF size
  <2>1. at \in [1 .. size -> 1 .. n]
    BY <1>1, <1>3
  <2>2. \A i \in 1 .. n : i \in chosen => \E k \in 1 .. size : at[k] = i
    BY <1>1, <1>2, <1>4
  <2>3. IsSelection(at, n, chosen, s, v)
    BY <1>1, <2>1, <2>2 DEF IsSelection, size
  <2>4. QED
    BY <1>4, <2>3
<1>5. CASE n \in chosen
  <2> DEFINE w == Append(v, s[n])
             new == [k \in 1 .. size + 1 |-> IF k = size + 1 THEN n ELSE at[k]]
  <2>1. /\ Len(w) = size + 1 /\ w[size + 1] = s[n] /\ \A k \in 1 .. size : w[k] = v[k]
    BY <1>5, Pushed
  <2>2. /\ DOMAIN new = 1 .. size + 1 /\ new[size + 1] = n
        /\ \A k \in 1 .. size : new[k] = at[k]
        /\ new = [k \in 1 .. size + 1 |-> new[k]]
    BY <1>1
  <2>3. \A k \in 1 .. size + 1 : k = size + 1 \/ k \in 1 .. size
    BY <1>1
  <2>4. size + 1 \in 1 .. size + 1 /\ \A k \in 1 .. size : k \in 1 .. size + 1
    BY <1>1
  <2> HIDE DEF new, w, size
  <2>5. ASSUME NEW k \in 1 .. size + 1 PROVE new[k] \in 1 .. n
    <3>1. n \in 1 .. n
      OBVIOUS
    <3>2. CASE k = size + 1
      BY <2>2, <3>1, <3>2
    <3>3. CASE k \in 1 .. size
      BY <1>3, <2>2, <3>3
    <3>4. QED
      BY <2>3, <3>2, <3>3
  <2>6. \A k \in 1 .. size + 1 : new[k] \in chosen /\ w[k] = s[new[k]]
    BY <1>1, <1>5, <2>1, <2>2, <2>3
  <2>7. ASSUME NEW k \in 1 .. size + 1, NEW l \in 1 .. size + 1, k < l
        PROVE  new[k] < new[l]
    <3>1. k \in 1 .. size
      BY <1>1, <2>7
    <3>2. QED
      BY <1>1, <1>3, <2>2, <2>3, <2>7, <3>1
  <2>8. \A i \in 1 .. n : i \in chosen => \E k \in 1 .. size + 1 : new[k] = i
    BY <1>1, <1>2, <2>2, <2>4
  <2>9. new \in [1 .. size + 1 -> 1 .. n]
    BY <2>2, <2>5
  <2>10. IsSelection(new, n, chosen, s, w)
    BY <2>1, <2>6, <2>7, <2>8, <2>9 DEF IsSelection
  <2>11. QED
    BY <1>5, <2>10 DEF w
<1>6. QED
  BY <1>4, <1>5

\* The chosen elements of a list are a list of what is chosen, in its order.
LEMMA ElementsAtAreElements ==
    ASSUME NEW T, NEW s, Len(s) \in Nat, NEW chosen,
           \A i \in 1 .. Len(s) : i \in chosen => s[i] \in T
    PROVE  /\ ElementsAt(s, chosen) \in Seq(T)
           /\ \E at : IsSelection(at, Len(s), chosen, s, ElementsAt(s, chosen))
<1> DEFINE n == Len(s)
           Next(i, v) == IF i \in chosen THEN Append(v, s[i]) ELSE v
           IsTaken(t) == t = [i \in 0 .. n |->
               IF i = 0 THEN <<>> ELSE IF i \in chosen THEN Append(t[i - 1], s[i]) ELSE t[i - 1]]
           V == [i \in 0 .. n |-> { v \in Seq(T) : \E at : IsSelection(at, i, chosen, s, v) }]
           step == [i \in 1 .. n |-> [v \in Seq(T) |-> IF i \in chosen THEN Append(v, s[i]) ELSE v]]
<1>1. ASSUME NEW i \in 1 .. n, NEW v \in Seq(T)
      PROVE  /\ step[i][v] = IF i \in chosen THEN Append(v, s[i]) ELSE v
             /\ step[i][v] \in Seq(T)
  OBVIOUS
<1>2. n \in Nat /\ n \in Int /\ n >= 0 /\ 0 \in Int
  OBVIOUS
<1>3. \A i \in 0 + 1 .. n : i \in 1 .. n /\ i \in 0 .. n /\ i - 1 \in 0 .. n /\ i \in Nat \ {0} /\ i # 0
  OBVIOUS
<1>4. \A i \in 0 .. n : \A v : v \in V[i] <=> v \in Seq(T) /\ \E at : IsSelection(at, i, chosen, s, v)
  OBVIOUS
<1>c. \A i \in 1 .. n : i \in chosen => s[i] \in T
  OBVIOUS
<1> HIDE DEF step, V, n
<1>5. <<>> \in V[0]
  <2> DEFINE none == [k \in 1 .. 0 |-> 0]
  <2>1. <<>> \in Seq(T) /\ Len(<<>>) = 0 /\ 0 \in 0 .. n
    BY <1>2
  <2>2. none \in [1 .. 0 -> 1 .. 0] /\ \A k \in 1 .. 0 : FALSE
    OBVIOUS
  <2> HIDE DEF none
  <2>3. IsSelection(none, 0, chosen, s, <<>>)
    BY <2>1, <2>2 DEF IsSelection
  <2>4. QED
    BY <1>4, <2>1, <2>3
<1>6. ASSUME NEW i \in 0 + 1 .. n, NEW v \in V[i - 1]
      PROVE  /\ v \in Seq(T)
             /\ (IF i \in chosen THEN Append(v, s[i]) ELSE v) \in V[i]
  <2>1. i \in 1 .. n /\ i \in 0 .. n /\ i - 1 \in 0 .. n /\ i \in Nat \ {0}
    BY <1>3
  <2>2. v \in Seq(T) /\ \E at : IsSelection(at, i - 1, chosen, s, v)
    BY <1>4, <2>1
  <2>3. PICK at : IsSelection(at, i - 1, chosen, s, v)
    BY <2>2
  <2>4. i \in chosen => s[i] \in T
    BY <1>c, <2>1
  <2>5. \E new : IsSelection(new, i, chosen, s, IF i \in chosen THEN Append(v, s[i]) ELSE v)
    BY <2>1, <2>2, <2>3, <2>4, SelectionGrows
  <2>6. (IF i \in chosen THEN Append(v, s[i]) ELSE v) \in Seq(T)
    BY <1>1, <2>1, <2>2
  <2>7. QED
    BY <1>4, <2>1, <2>2, <2>5, <2>6
<1>7. \A i \in 0 + 1 .. n : \A v \in V[i - 1] : step[i][v] \in V[i]
  <2> TAKE i \in 0 + 1 .. n
  <2> TAKE v \in V[i - 1]
  <2>1. i \in 1 .. n /\ v \in Seq(T)
    BY <1>3, <1>6
  <2>2. step[i][v] = IF i \in chosen THEN Append(v, s[i]) ELSE v
    BY <1>1, <2>1
  <2>3. (IF i \in chosen THEN Append(v, s[i]) ELSE v) \in V[i]
    BY <1>6
  <2>4. QED
    BY <2>2, <2>3
<1>8. PICK k : IsRecursion(k, 0, n, <<>>, step) /\ \A i \in 0 .. n : k[i] \in V[i]
  BY <1>2, <1>5, <1>7, RecursionExists, Zenon
<1>9. IsTaken(k)
  <2>1. ASSUME NEW i \in 0 .. n, i # 0
        PROVE  step[i][k[i - 1]] = IF i \in chosen THEN Append(k[i - 1], s[i]) ELSE k[i - 1]
    <3>1. i \in 0 + 1 .. n
      BY <1>2, <2>1
    <3>2. i - 1 \in 0 .. n /\ i \in 1 .. n
      BY <1>3, <3>1
    <3>3. k[i - 1] \in Seq(T)
      BY <1>4, <1>8, <3>2
    <3>4. QED
      BY <1>1, <3>2, <3>3
  <2>2. QED
    BY <1>8, <2>1 DEF IsRecursion
<1> DEFINE taken == CHOOSE t : IsTaken(t)
<1>10. IsTaken(taken)
  BY <1>9
<1>11. ElementsAt(s, chosen) = taken[n]
  BY DEF ElementsAt, n
<1>12. \A i \in 0 .. n : taken[i] = IF i = 0 THEN <<>>
                           ELSE IF i \in chosen THEN Append(taken[i - 1], s[i]) ELSE taken[i - 1]
  BY <1>10
<1> HIDE DEF taken
<1>13. ASSUME NEW i \in 0 + 1 .. n, taken[i - 1] \in V[i - 1]
       PROVE  taken[i] \in V[i]
  <2>1. taken[i] = IF i \in chosen THEN Append(taken[i - 1], s[i]) ELSE taken[i - 1]
    BY <1>3, <1>12
  <2>2. QED
    BY <1>6, <1>13, <2>1
<1>14. taken[0] \in V[0]
  BY <1>2, <1>5, <1>12
<1>15. \A i \in 0 .. n : taken[i] \in V[i]
  BY <1>2, <1>13, <1>14, RecursionKeeps, Zenon
<1>16. n \in 0 .. n
  BY <1>2
<1>17. taken[n] \in Seq(T) /\ \E at : IsSelection(at, n, chosen, s, taken[n])
  BY <1>4, <1>15, <1>16
<1>18. QED
  BY <1>11, <1>17 DEF n

\* What is in two lists is in the one after the other.
LEMMA ConcatenationHasBoth ==
    ASSUME NEW T, NEW v \in Seq(T), NEW w \in Seq(T)
    PROVE  v \o w \in Seq(T) /\ ToSet(v \o w) = ToSet(v) \cup ToSet(w)
<1> DEFINE m == Len(v)
           n == Len(w)
           u == v \o w
<1>1. /\ m \in Nat /\ n \in Nat /\ u \in Seq(T) /\ Len(u) = m + n
      /\ \A i \in 1 .. m + n : u[i] = IF i <= m THEN v[i] ELSE w[i - m]
  BY ConcatProperties
<1>2. DOMAIN v = 1 .. m /\ DOMAIN w = 1 .. n /\ DOMAIN u = 1 .. m + n
  BY <1>1
<1> HIDE DEF m, n, u
<1>3. \A i \in 1 .. m + n : i \in 1 .. m \/ (i - m \in 1 .. n /\ ~(i <= m))
  BY <1>1
<1>4. ASSUME NEW i \in 1 .. m PROVE i \in 1 .. m + n /\ u[i] = v[i]
  BY <1>1
<1>5. ASSUME NEW i \in 1 .. n PROVE m + i \in 1 .. m + n /\ u[m + i] = w[i]
  <2>1. m + i \in 1 .. m + n /\ ~(m + i <= m) /\ (m + i) - m = i
    BY <1>1
  <2>2. QED
    BY <1>1, <2>1
<1>6. ASSUME NEW i \in 1 .. m + n PROVE u[i] \in ToSet(v) \cup ToSet(w)
  <2>1. CASE i \in 1 .. m
    BY <1>2, <1>4, <2>1 DEF ToSet
  <2>2. CASE i - m \in 1 .. n /\ ~(i <= m)
    BY <1>1, <1>2, <2>2 DEF ToSet
  <2>3. QED
    BY <1>3, <2>1, <2>2
<1>7. ToSet(u) = ToSet(v) \cup ToSet(w)
  BY <1>2, <1>4, <1>5, <1>6 DEF ToSet
<1>8. QED
  BY <1>1, <1>7 DEF u

\* A list of lists, one after the other, has what they have.
LEMMA FlattenedIsList ==
    ASSUME NEW T, NEW lists \in Seq(Seq(T))
    PROVE  /\ FlattenSeq(lists) \in Seq(T)
           /\ ToSet(FlattenSeq(lists)) = UNION { ToSet(lists[i]) : i \in 1 .. Len(lists) }
<1> DEFINE n == Len(lists)
           All(i) == UNION { ToSet(lists[j]) : j \in 1 .. i }
<1>1. CASE n = 0
  <2>1. lists = <<>> /\ <<>> \in Seq(T) /\ ToSet(<<>>) = {} /\ All(0) = {}
    BY <1>1, EmptySeq DEF ToSet
  <2>2. FlattenSeq(lists) = lists
    BY <1>1 DEF FlattenSeq
  <2>3. QED
    BY <1>1, <2>1, <2>2
<1>2. CASE n # 0
  <2> DEFINE IsFlat(t) == t = [i \in 1 .. n |-> IF i = 1 THEN lists[i] ELSE t[i - 1] \o lists[i]]
             V == [i \in 1 .. n |-> { v \in Seq(T) : ToSet(v) = All(i) }]
             step == [i \in 1 .. n |-> [v \in Seq(T) |-> v \o lists[i]]]
  <2>1. n \in Nat /\ n >= 1 /\ \A i \in 1 .. n : lists[i] \in Seq(T)
    BY <1>2, ElementOfSeq
  <2>2. n \in Int /\ 1 \in Int /\ 1 \in 1 .. n /\ n \in 1 .. n
    BY <2>1
  <2>3. \A i \in 1 + 1 .. n : i \in 1 .. n /\ i # 1 /\ i - 1 \in 1 .. n
    BY <2>1
  <2>4. \A i \in 1 .. n : i = 1 \/ i \in 1 + 1 .. n
    BY <2>1
  <2>5. \A i \in 1 .. n : \A v : v \in V[i] <=> v \in Seq(T) /\ ToSet(v) = All(i)
    OBVIOUS
  <2>6. All(1) = ToSet(lists[1]) /\ \A i \in 1 + 1 .. n : All(i) = All(i - 1) \cup ToSet(lists[i])
    <3>1. \A j \in 1 .. 1 : j = 1
      OBVIOUS
    <3>2. \A i \in 1 + 1 .. n : \A j : j \in 1 .. i <=> j = i \/ j \in 1 .. i - 1
      BY <2>1
    <3>3. All(1) = ToSet(lists[1])
      BY <3>1
    <3>4. ASSUME NEW i \in 1 + 1 .. n PROVE All(i) = All(i - 1) \cup ToSet(lists[i])
      BY <3>2
    <3>5. QED
      BY <3>3, <3>4
  <2>7. ASSUME NEW i \in 1 .. n, NEW v \in Seq(T)
        PROVE  step[i][v] = v \o lists[i]
    OBVIOUS
  <2> HIDE DEF step, V, n, All
  <2>8. ASSUME NEW i \in 1 + 1 .. n, NEW v \in V[i - 1]
        PROVE  v \o lists[i] \in V[i] /\ step[i][v] = v \o lists[i]
    <3>1. i \in 1 .. n /\ i - 1 \in 1 .. n
      BY <2>3
    <3>2. v \in Seq(T) /\ ToSet(v) = All(i - 1) /\ lists[i] \in Seq(T)
      BY <2>1, <2>5, <3>1
    <3>3. v \o lists[i] \in Seq(T) /\ ToSet(v \o lists[i]) = ToSet(v) \cup ToSet(lists[i])
      BY <3>2, ConcatenationHasBoth
    <3>4. QED
      BY <2>5, <2>6, <2>7, <3>1, <3>2, <3>3
  <2>9. lists[1] \in V[1]
    BY <2>1, <2>2, <2>5, <2>6
  <2>10. \A i \in 1 + 1 .. n : \A v \in V[i - 1] : step[i][v] \in V[i]
    BY <2>8
  <2>11. PICK k : IsRecursion(k, 1, n, lists[1], step) /\ \A i \in 1 .. n : k[i] \in V[i]
    BY <2>2, <2>9, <2>10, RecursionExists, Zenon
  <2>12. IsFlat(k)
    <3>1. ASSUME NEW i \in 1 .. n, i # 1
          PROVE  step[i][k[i - 1]] = k[i - 1] \o lists[i]
      <4>1. i \in 1 + 1 .. n
        BY <2>4, <3>1
      <4>2. k[i - 1] \in V[i - 1]
        BY <2>3, <2>11, <4>1
      <4>3. QED
        BY <2>8, <4>1, <4>2
    <3>2. QED
      BY <2>11, <3>1 DEF IsRecursion
  <2> DEFINE flat == CHOOSE t : IsFlat(t)
  <2>13. IsFlat(flat)
    BY <2>12
  <2>14. FlattenSeq(lists) = flat[n]
    <3>1. Len(lists) # 0
      BY <1>2 DEF n
    <3>2. QED
      BY <3>1 DEF FlattenSeq, n
  <2>15. \A i \in 1 .. n : flat[i] = IF i = 1 THEN lists[i] ELSE flat[i - 1] \o lists[i]
    BY <2>13
  <2> HIDE DEF flat
  <2>16. ASSUME NEW i \in 1 + 1 .. n, flat[i - 1] \in V[i - 1]
         PROVE  flat[i] \in V[i]
    <3>1. flat[i] = flat[i - 1] \o lists[i]
      BY <2>3, <2>15
    <3>2. QED
      BY <2>8, <2>16, <3>1
  <2>17. flat[1] \in V[1]
    BY <2>2, <2>9, <2>15
  <2>18. \A i \in 1 .. n : flat[i] \in V[i]
    BY <2>2, <2>16, <2>17, RecursionKeeps, Zenon
  <2>19. flat[n] \in Seq(T) /\ ToSet(flat[n]) = All(n)
    BY <2>2, <2>5, <2>18
  <2>20. QED
    BY <2>14, <2>19 DEF n, All
<1>3. QED
  BY <1>1, <1>2

\* An order of 1 .. n that may not tell all apart.
IsOrder(n, before) ==
    /\ \A i \in 1 .. n : <<i, i>> \notin before
    /\ \A i, j, k \in 1 .. n : <<i, j>> \in before /\ <<j, k>> \in before => <<i, k>> \in before
    /\ \A i, j, k \in 1 .. n : <<i, k>> \in before => <<i, j>> \in before \/ <<j, k>> \in before

\* Ranks tell all of them apart, and what comes before has the lower rank.
LEMMA RanksAreOrder ==
    ASSUME NEW n \in Nat, NEW before, IsOrder(n, before)
    PROVE  LET rank == Ranks(n, before)
           IN  /\ \A i \in 1 .. n : rank[i] \in 1 .. n
               /\ \A i, j \in 1 .. n : <<i, j>> \in before => rank[i] < rank[j]
               /\ \A i, j \in 1 .. n : rank[i] = rank[j] => i = j
               /\ \A m \in 1 .. n : \E i \in 1 .. n : rank[i] = m
<1> DEFINE S == 1 .. n
           AtMost(j, i) == <<j, i>> \in before \/ (j <= i /\ <<i, j>> \notin before)
           Down(i) == { j \in S : AtMost(j, i) }
           rank == Ranks(n, before)
<1>1. IsFiniteSet(S) /\ Cardinality(S) = n
  BY FS_Interval
<1>2. /\ \A i, j \in S : <<i, j>> \in before => <<j, i>> \notin before
      /\ \A i \in S : <<i, i>> \notin before
      /\ \A i \in S : i <= i
  <2>1. \A i \in S : <<i, i>> \notin before
    BY DEF IsOrder
  <2>2. \A i, j \in S : <<i, j>> \in before /\ <<j, i>> \in before => <<i, i>> \in before
    BY Zenon DEF IsOrder
  <2>3. \A i \in S : i <= i
    OBVIOUS
  <2>4. QED
    BY <2>1, <2>2, <2>3
<1>3. \A i \in S : rank[i] = Cardinality(Down(i)) /\ i \in Down(i)
  <2>1. \A i \in S : AtMost(i, i)
    BY <1>2
  <2>2. QED
    BY <2>1 DEF Ranks
<1>4. rank \in [S -> Int] /\ DOMAIN rank = S
  <2>1. \A i \in S : IsFiniteSet(Down(i)) /\ Cardinality(Down(i)) \in Nat
    BY <1>1, FS_Subset, FS_CardinalityType
  <2>2. QED
    BY <1>3, <2>1 DEF Ranks
<1>5. \A i \in S : IsFiniteSet(Down(i)) /\ Cardinality(Down(i)) <= n /\ Cardinality(Down(i)) \in Nat
  BY <1>1, FS_Subset, FS_CardinalityType
<1>6. \A i \in S : rank[i] \in S
  <2> TAKE i \in S
  <2> HIDE DEF Down
  <2>1. Cardinality(Down(i)) # 0
    BY <1>3, <1>5, FS_EmptySet
  <2>2. QED
    BY <1>3, <1>5, <2>1
<1>7. ASSUME NEW i \in S, NEW j \in S, AtMost(i, j), i # j
      PROVE  rank[i] < rank[j]
  <2>1. ASSUME NEW k \in S, AtMost(k, i) PROVE AtMost(k, j)
    BY <1>7, <2>1 DEF IsOrder
  <2>2. ~AtMost(j, i)
    BY <1>2, <1>7
  <2>3. Down(i) \subseteq Down(j) /\ j \in Down(j) /\ j \notin Down(i)
    BY <1>3, <2>1, <2>2
  <2> HIDE DEF Down
  <2>4. Cardinality(Down(i)) <= Cardinality(Down(j)) /\ Cardinality(Down(i)) # Cardinality(Down(j))
    BY <1>5, <2>3, FS_Subset
  <2>5. QED
    BY <1>3, <1>5, <2>4
<1>8. \A i, j \in S : i # j => AtMost(i, j) \/ AtMost(j, i)
  BY <1>2
<1>9. \A i, j \in S : <<i, j>> \in before => AtMost(i, j) /\ i # j
  BY DEF IsOrder
<1> HIDE DEF AtMost, Down, rank, S
<1>10. \A i, j \in S : rank[i] = rank[j] => i = j
  <2> TAKE i \in S
  <2> TAKE j \in S
  <2>1. rank[i] \in Int /\ rank[j] \in Int
    BY <1>4
  <2>2. i # j => rank[i] < rank[j] \/ rank[j] < rank[i]
    BY <1>7, <1>8
  <2>3. QED
    BY <2>1, <2>2
<1>11. \A i, j \in S : <<i, j>> \in before => rank[i] < rank[j]
  BY <1>7, <1>9
<1>12. \A m \in S : \E i \in S : rank[i] = m
  <2> DEFINE R == { rank[i] : i \in S }
  <2>1. rank \in [S -> R] /\ R \subseteq S
    BY <1>4, <1>6
  <2>2. rank \in Injection(S, R) /\ rank \in Surjection(S, R) /\ rank \in Bijection(S, R)
    BY <1>4, <1>10, <2>1 DEF Injection, Surjection, Bijection, IsInjective
  <2>3. IsFiniteSet(R) /\ Cardinality(R) = Cardinality(S)
    BY <1>1, <2>2, FS_Surjection
  <2>4. R = S
    BY <1>1, <2>1, <2>3, FS_Subset
  <2>5. QED
    BY <2>4
<1>13. QED
  BY <1>6, <1>10, <1>11, <1>12 DEF S, rank

\* A list by its ranks is the same list in another order.
IsSorting(place, n, before) ==
    /\ place \in [1 .. n -> 1 .. n]
    /\ \A k, l \in 1 .. n : place[k] = place[l] => k = l
    /\ \A i \in 1 .. n : \E k \in 1 .. n : place[k] = i
    /\ \A k, l \in 1 .. n : k < l => <<place[l], place[k]>> \notin before

LEMMA SortingIsPermutation ==
    ASSUME NEW T, NEW s \in Seq(T), NEW before, IsOrder(Len(s), before)
    PROVE  /\ ByRank(s, Ranks(Len(s), before)) \in Seq(T)
           /\ Len(ByRank(s, Ranks(Len(s), before))) = Len(s)
           /\ \E place : /\ IsSorting(place, Len(s), before)
                         /\ \A k \in 1 .. Len(s) :
                                ByRank(s, Ranks(Len(s), before))[k] = s[place[k]]
<1> DEFINE n == Len(s)
           rank == Ranks(n, before)
           sorted == ByRank(s, rank)
           place == [k \in 1 .. n |-> CHOOSE i \in 1 .. n : rank[i] = k]
<1>1. n \in Nat /\ \A i \in 1 .. n : s[i] \in T
  BY ElementOfSeq
<1>2. sorted = [k \in 1 .. n |-> s[CHOOSE i \in 1 .. n : rank[i] = k]]
  BY DEF ByRank
<1>3. /\ \A i \in 1 .. n : rank[i] \in 1 .. n
      /\ \A i, j \in 1 .. n : <<i, j>> \in before => rank[i] < rank[j]
      /\ \A i, j \in 1 .. n : rank[i] = rank[j] => i = j
      /\ \A m \in 1 .. n : \E i \in 1 .. n : rank[i] = m
  BY <1>1, RanksAreOrder
<1> HIDE DEF n, rank, sorted
<1>4. \A k \in 1 .. n : place[k] \in 1 .. n /\ rank[place[k]] = k
  BY <1>3
<1>5. \A k \in 1 .. n : sorted[k] = s[place[k]]
  BY <1>2
<1>6. place \in [1 .. n -> 1 .. n]
  BY <1>4
<1> HIDE DEF place
<1>7. \A i \in 1 .. n : \E k \in 1 .. n : place[k] = i
  <2> TAKE i \in 1 .. n
  <2>1. rank[i] \in 1 .. n /\ rank[place[rank[i]]] = rank[i] /\ place[rank[i]] \in 1 .. n
    BY <1>3, <1>4
  <2>2. place[rank[i]] = i
    BY <1>3, <2>1
  <2>3. QED
    BY <2>1, <2>2
<1>8. ASSUME NEW k \in 1 .. n, NEW l \in 1 .. n, k < l PROVE <<place[l], place[k]>> \notin before
  <2>1. <<place[l], place[k]>> \in before => rank[place[l]] < rank[place[k]]
    BY <1>3, <1>4
  <2>2. QED
    BY <1>1, <1>4, <1>8, <2>1
<1>9. IsSorting(place, n, before)
  BY <1>4, <1>6, <1>7, <1>8 DEF IsSorting
<1>10. sorted \in [1 .. n -> T]
  BY <1>1, <1>2, <1>4, <1>5
<1>11. sorted \in Seq(T) /\ Len(sorted) = n
  BY <1>1, <1>10
<1>12. QED
  BY <1>5, <1>9, <1>11 DEF n, rank, sorted

\* Lists that take all they have from each other have the same elements.
IsTakenFrom(v, w) == \A k \in DOMAIN v : \E i \in DOMAIN w : v[k] = w[i]

LEMMA SameElements ==
    ASSUME NEW v, NEW w, IsTakenFrom(v, w), IsTakenFrom(w, v)
    PROVE  ToSet(v) = ToSet(w)
BY DEF ToSet, IsTakenFrom

\* A list without repeats is as long as it has elements.
LEMMA LengthOfDistinct ==
    ASSUME NEW T, NEW s \in Seq(T), \A k, l \in 1 .. Len(s) : k < l => s[k] # s[l]
    PROVE  Cardinality(ToSet(s)) = Len(s)
<1> DEFINE n == Len(s)
<1>1. n \in Nat /\ DOMAIN s = 1 .. n /\ s \in [1 .. n -> T]
  OBVIOUS
<1>2. \A x : x \in ToSet(s) <=> \E k \in 1 .. n : x = s[k]
  BY <1>1 DEF ToSet
<1>3. s \in [1 .. n -> ToSet(s)]
  BY <1>1, <1>2
<1>4. s \in Surjection(1 .. n, ToSet(s))
  BY <1>2, <1>3 DEF Surjection
<1>5. \A k, l \in 1 .. n : s[k] = s[l] => k = l
  BY <1>1
<1>6. s \in Injection(1 .. n, ToSet(s))
  BY <1>3, <1>5 DEF Injection, IsInjective
<1>7. IsFiniteSet(1 .. n) /\ Cardinality(1 .. n) = n
  BY <1>1, FS_Interval
<1>8. QED
  BY <1>4, <1>6, <1>7, FS_Surjection

\* Of finitely many numbers one is least.
LEMMA LeastOfList ==
    ASSUME NEW n \in Nat \ {0}, NEW f, \A i \in 1 .. n : f[i] \in Int
    PROVE  \E i \in 1 .. n : \A j \in 1 .. n : f[i] <= f[j]
<1> DEFINE P == { m \in Nat : m \in 1 .. n => \E i \in 1 .. m : \A j \in 1 .. m : f[i] <= f[j] }
<1>1. 0 \in P
  OBVIOUS
<1>2. ASSUME NEW m \in Nat, m \in P PROVE m + 1 \in P
  <2>1. SUFFICES ASSUME m + 1 \in 1 .. n
                 PROVE  \E i \in 1 .. m + 1 : \A j \in 1 .. m + 1 : f[i] <= f[j]
    OBVIOUS
  <2>2. \A j \in 1 .. m + 1 : f[j] \in Int /\ (j = m + 1 \/ j \in 1 .. m)
    BY <2>1
  <2>3. m + 1 \in 1 .. m + 1 /\ \A j \in 1 .. m : j \in 1 .. m + 1
    OBVIOUS
  <2>4. CASE m = 0
    BY <2>2, <2>3, <2>4
  <2>5. CASE m # 0
    <3>1. m \in 1 .. n
      BY <2>1, <2>5
    <3>2. PICK i \in 1 .. m : \A j \in 1 .. m : f[i] <= f[j]
      BY <1>2, <3>1
    <3>3. CASE f[i] <= f[m + 1]
      <4>1. \A j \in 1 .. m + 1 : f[i] <= f[j]
        BY <2>2, <3>2, <3>3
      <4>2. QED
        BY <2>3, <4>1
    <3>4. CASE ~(f[i] <= f[m + 1])
      <4>1. \A j \in 1 .. m + 1 : f[m + 1] <= f[j]
        <5> TAKE j \in 1 .. m + 1
        <5>1. f[m + 1] \in Int /\ f[i] \in Int /\ f[j] \in Int
          BY <2>2, <2>3
        <5>2. CASE j = m + 1
          BY <5>1, <5>2
        <5>3. CASE j \in 1 .. m
          <6>1. f[i] <= f[j]
            BY <3>2, <5>3
          <6>2. QED
            BY <3>4, <5>1, <6>1
        <5>4. QED
          BY <2>2, <5>2, <5>3
      <4>2. QED
        BY <2>3, <4>1
    <3>5. QED
      BY <3>3, <3>4
  <2>6. QED
    BY <2>4, <2>5
<1> HIDE DEF P
<1>3. Nat \subseteq P
  BY <1>1, <1>2, SetInduction
<1>4. n \in P /\ n \in 1 .. n
  BY <1>3
<1>5. QED
  BY <1>4 DEF P

HasNoRepeats(s) == \A i, j \in 1 .. Len(s) : s[i] = s[j] => i = j

\* A list of numbers up to n without repeats is no longer than n.
LEMMA DistinctIsShort ==
    ASSUME NEW n \in Nat, NEW s \in Seq(1 .. n), HasNoRepeats(s)
    PROVE  Len(s) <= n
<1> DEFINE m == Len(s)
<1>1. m \in Nat /\ s \in [1 .. m -> 1 .. n]
  OBVIOUS
<1>2. s \in Injection(1 .. m, 1 .. n)
  BY <1>1 DEF Injection, IsInjective, HasNoRepeats
<1> HIDE DEF m
<1>a. \A k \in Nat : IsFiniteSet(1 .. k) /\ Cardinality(1 .. k) = k
  <2> TAKE k \in Nat
  <2>1. IsFiniteSet(1 .. k) /\ Cardinality(1 .. k) = IF 1 > k THEN 0 ELSE k - 1 + 1
    BY FS_Interval
  <2>2. QED
    BY <2>1
<1>3. /\ IsFiniteSet(1 .. n) /\ Cardinality(1 .. n) = n
      /\ IsFiniteSet(1 .. m) /\ Cardinality(1 .. m) = m
  BY <1>1, <1>a
<1>4. Cardinality(1 .. m) <= Cardinality(1 .. n)
  BY <1>2, <1>3, FS_Injection
<1>5. QED
  BY <1>3, <1>4 DEF m

\* Sets of which one is matched one to one with the other are of one size.
LEMMA OneToOne ==
    ASSUME NEW A, IsFiniteSet(A), NEW B, NEW f, \A x \in A : f[x] \in B,
           \A x, y \in A : f[x] = f[y] => x = y,
           \A b \in B : \E x \in A : f[x] = b
    PROVE  IsFiniteSet(B) /\ Cardinality(B) = Cardinality(A)
<1> DEFINE g == [x \in A |-> f[x]]
<1>1. g \in [A -> B] /\ \A x \in A : g[x] = f[x]
  OBVIOUS
<1> HIDE DEF g
<1>2. g \in Surjection(A, B)
  BY <1>1 DEF Surjection
<1>3. g \in Injection(A, B)
  BY <1>1 DEF Injection, IsInjective
<1>4. QED
  BY <1>2, <1>3, FS_Surjection

\* How many elements of a list are in a set.
CountIn(s, P) == Cardinality({ i \in 1 .. Len(s) : s[i] \in P })

LEMMA CountIsNumber ==
    ASSUME NEW T, NEW s \in Seq(T), NEW P
    PROVE  /\ CountIn(s, P) \in Nat
           /\ T \subseteq P => CountIn(s, P) = Len(s)
<1> DEFINE S == 1 .. Len(s)
           C == { i \in S : s[i] \in P }
<1>1. Len(s) \in Nat /\ \A i \in S : s[i] \in T
  BY ElementOfSeq
<1>2. IsFiniteSet(S) /\ Cardinality(S) = Len(s)
  <2>1. IsFiniteSet(1 .. Len(s)) /\ Cardinality(1 .. Len(s)) = IF 1 > Len(s) THEN 0 ELSE Len(s) - 1 + 1
    BY <1>1, FS_Interval
  <2>2. QED
    BY <1>1, <2>1
<1>3. IsFiniteSet(C) /\ Cardinality(C) \in Nat
  BY <1>2, FS_Subset, FS_CardinalityType
<1>4. ASSUME T \subseteq P PROVE C = S
  BY <1>1, <1>4
<1>5. QED
  BY <1>2, <1>3, <1>4 DEF CountIn

\* A selection counts what is chosen.
LEMMA CountOfSelection ==
    ASSUME NEW v, Len(v) \in Nat, NEW s, NEW n \in Nat, NEW chosen \in SUBSET (1 .. n),
           NEW at, IsSelection(at, n, chosen, s, v), NEW P
    PROVE  CountIn(v, P) = Cardinality({ i \in chosen : s[i] \in P })
<1> DEFINE m == Len(v)
           A == { k \in 1 .. m : v[k] \in P }
           B == { i \in chosen : s[i] \in P }
<1>1. /\ m \in Nat
      /\ \A k \in 1 .. m : at[k] \in chosen /\ v[k] = s[at[k]] /\ at[k] \in 1 .. n
      /\ \A k, l \in 1 .. m : k < l => at[k] < at[l]
      /\ \A i \in 1 .. n : i \in chosen => \E k \in 1 .. m : at[k] = i
  BY DEF IsSelection
<1>2. IsFiniteSet(A)
  <2>1. IsFiniteSet(1 .. m)
    BY <1>1, FS_Interval
  <2>2. QED
    BY <2>1, FS_Subset
<1>3. \A k \in A : at[k] \in B
  BY <1>1
<1>4. ASSUME NEW k \in A, NEW l \in A, at[k] = at[l] PROVE k = l
  <2>1. k \in Nat /\ l \in Nat /\ at[k] \in Int /\ at[l] \in Int
    BY <1>1
  <2>2. ~(k < l) /\ ~(l < k)
    BY <1>1, <1>4, <2>1
  <2>3. QED
    BY <2>1, <2>2
<1>5. ASSUME NEW i \in B PROVE \E k \in A : at[k] = i
  <2>1. PICK k \in 1 .. m : at[k] = i
    BY <1>1
  <2>2. v[k] = s[i]
    BY <1>1, <2>1
  <2>3. QED
    BY <2>1, <2>2
<1> HIDE DEF A, B
<1>6. Cardinality(B) = Cardinality(A)
  BY <1>2, <1>3, <1>4, <1>5, OneToOne
<1>7. QED
  BY <1>6 DEF CountIn, A, B, m

\* A list in another order counts the same.
IsReordered(v, s, place) ==
    /\ Len(v) = Len(s)
    /\ \A k \in 1 .. Len(s) : place[k] \in 1 .. Len(s) /\ v[k] = s[place[k]]
    /\ \A k, l \in 1 .. Len(s) : place[k] = place[l] => k = l
    /\ \A i \in 1 .. Len(s) : \E k \in 1 .. Len(s) : place[k] = i

\* Two lists, one after the other, count both.
LEMMA CountOfBoth ==
    ASSUME NEW T, NEW v \in Seq(T), NEW w \in Seq(T), NEW P
    PROVE  v \o w \in Seq(T) /\ CountIn(v \o w, P) = CountIn(v, P) + CountIn(w, P)
<1> DEFINE m == Len(v)
           n == Len(w)
           u == v \o w
           A == { i \in 1 .. m : v[i] \in P }
           B == { i \in 1 .. n : w[i] \in P }
           C == { i \in 1 .. m + n : u[i] \in P }
           D == { i \in m + 1 .. m + n : u[i] \in P }
           f == [i \in 1 .. n |-> m + i]
<1>1. /\ m \in Nat /\ n \in Nat /\ u \in Seq(T) /\ Len(u) = m + n
      /\ \A i \in 1 .. m + n : u[i] = IF i <= m THEN v[i] ELSE w[i - m]
  BY ConcatProperties
<1> HIDE DEF m, n, u
<1>2. IsFiniteSet(1 .. m) /\ IsFiniteSet(1 .. n)
  <2>1. \A k \in Nat : IsFiniteSet(1 .. k)
    BY FS_Interval
  <2>2. QED
    BY <1>1, <2>1
<1>3. IsFiniteSet(A) /\ IsFiniteSet(B)
  BY <1>2, FS_Subset
<1>4. ASSUME NEW i \in 1 .. n
      PROVE f[i] = m + i /\ f[i] \in m + 1 .. m + n /\ f[i] \in 1 .. m + n /\ u[f[i]] = w[i]
  <2>1. f[i] = m + i
    OBVIOUS
  <2>2. m + i \in m + 1 .. m + n /\ m + i \in 1 .. m + n /\ ~(m + i <= m) /\ (m + i) - m = i
    BY <1>1
  <2>3. u[m + i] = w[i]
    BY <1>1, <2>2
  <2>4. QED
    BY <2>1, <2>2, <2>3
<1>5. \A i \in B : f[i] \in D
  BY <1>4
<1>6. \A i, j \in B : f[i] = f[j] => i = j
  <2>1. \A i \in B : f[i] = m + i /\ i \in Int
    BY <1>4
  <2>2. QED
    BY <1>1, <2>1
<1>7. ASSUME NEW j \in D PROVE \E i \in B : f[i] = j
  <2>1. j - m \in 1 .. n /\ m + (j - m) = j
    BY <1>1
  <2>2. f[j - m] = j /\ u[j] = w[j - m]
    BY <1>4, <2>1
  <2>3. QED
    BY <2>1, <2>2
<1>8. C = A \cup D /\ A \cap D = {}
  <2>1. \A i : i \in 1 .. m + n <=> i \in 1 .. m \/ i \in m + 1 .. m + n
    BY <1>1
  <2>2. \A i \in 1 .. m : i \in 1 .. m + n /\ u[i] = v[i]
    BY <1>1
  <2>3. \A i \in 1 .. m : i \notin m + 1 .. m + n
    BY <1>1
  <2>4. QED
    BY <2>1, <2>2, <2>3
<1> HIDE DEF A, B, C, D, f
<1>9. IsFiniteSet(D) /\ Cardinality(D) = Cardinality(B)
  BY <1>3, <1>5, <1>6, <1>7, OneToOne
<1>10. Cardinality(C) = Cardinality(A) + Cardinality(D) - Cardinality(A \cap D)
  BY <1>3, <1>8, <1>9, FS_Union
<1>11. Cardinality(A \cap D) = 0 /\ Cardinality(A) \in Nat /\ Cardinality(D) \in Nat
  BY <1>3, <1>8, <1>9, FS_EmptySet, FS_CardinalityType
<1>12. Cardinality(C) = Cardinality(A) + Cardinality(B)
  BY <1>9, <1>10, <1>11
<1>13. QED
  <2>1. CountIn(u, P) = Cardinality(C) /\ CountIn(v, P) = Cardinality(A) /\ CountIn(w, P) = Cardinality(B)
    BY <1>1 DEF CountIn, A, B, C, m, n
  <2>2. QED
    BY <1>1, <1>12, <2>1 DEF u

\* What a list of lists comes to, one list after the other.
IsFlattening(h, T, lists) ==
    /\ h[1] = lists[1]
    /\ \A i \in 1 .. Len(lists) : h[i] \in Seq(T)
    /\ \A i \in 1 + 1 .. Len(lists) : h[i] = h[i - 1] \o lists[i]

LEMMA FlattenedStepByStep ==
    ASSUME NEW T, NEW lists \in Seq(Seq(T)), lists # <<>>, NEW h, IsFlattening(h, T, lists)
    PROVE  FlattenSeq(lists) = h[Len(lists)]
<1> DEFINE n == Len(lists)
           IsFlat(t) == t = [i \in 1 .. n |-> IF i = 1 THEN lists[i] ELSE t[i - 1] \o lists[i]]
           k == [i \in 1 .. n |-> h[i]]
           flat == CHOOSE t : IsFlat(t)
           V == [i \in 1 .. n |-> {h[i]}]
<1>1. n \in Nat /\ n >= 1 /\ n # 0
  OBVIOUS
<1>2. h[1] = lists[1] /\ \A i \in 1 + 1 .. n : h[i] = h[i - 1] \o lists[i]
  BY DEF IsFlattening
<1>3. \A i \in 1 .. n : i = 1 \/ (i \in 1 + 1 .. n /\ i - 1 \in 1 .. n /\ i # 1)
  BY <1>1
<1>4. \A i \in 1 .. n : k[i] = h[i]
  OBVIOUS
<1>5. \A i \in 1 .. n : h[i] = IF i = 1 THEN lists[i] ELSE k[i - 1] \o lists[i]
  BY <1>2, <1>3, <1>4
<1>6. IsFlat(k)
  BY <1>5
<1>7. IsFlat(flat)
  BY <1>6
<1>8. FlattenSeq(lists) = flat[n]
  BY <1>1 DEF FlattenSeq
<1>9. \A i \in 1 .. n : flat[i] = IF i = 1 THEN lists[i] ELSE flat[i - 1] \o lists[i]
  BY <1>7
<1>10. \A i \in 1 .. n : V[i] = {h[i]}
  OBVIOUS
<1> HIDE DEF flat, V, k, IsFlat
<1>11. 1 \in 1 .. n /\ n \in 1 .. n /\ \A i \in 1 + 1 .. n : i \in 1 .. n /\ i - 1 \in 1 .. n /\ i # 1
  BY <1>1
<1> HIDE DEF n
<1>12. flat[1] \in V[1]
  BY <1>2, <1>9, <1>10, <1>11
<1>13. \A i \in 1 + 1 .. n : flat[i - 1] \in V[i - 1] => flat[i] \in V[i]
  <2> TAKE i \in 1 + 1 .. n
  <2> HAVE flat[i - 1] \in V[i - 1]
  <2>1. i \in 1 .. n /\ i - 1 \in 1 .. n /\ i # 1
    BY <1>11
  <2>2. flat[i - 1] = h[i - 1] /\ flat[i] = flat[i - 1] \o lists[i]
    BY <1>9, <1>10, <2>1
  <2>3. flat[i] = h[i]
    BY <1>2, <2>2
  <2>4. QED
    BY <1>10, <2>1, <2>3
<1>14. 1 \in Int /\ n \in Int
  BY <1>1
<1>15. \A i \in 1 .. n : flat[i] \in V[i]
  BY <1>12, <1>13, <1>14, RecursionKeeps, Zenon
<1>16. flat[n] = h[n]
  BY <1>10, <1>11, <1>15
<1>17. QED
  BY <1>8, <1>16 DEF n

LEMMA FlatteningExists ==
    ASSUME NEW T, NEW lists \in Seq(Seq(T)), lists # <<>>
    PROVE  \E h : IsFlattening(h, T, lists)
<1> DEFINE n == Len(lists)
           V == [i \in 1 .. n |-> Seq(T)]
           step == [i \in 1 .. n |-> [v \in Seq(T) |-> v \o lists[i]]]
<1>1. n \in Nat /\ n >= 1 /\ n \in Int /\ 1 \in Int /\ \A i \in 1 .. n : lists[i] \in Seq(T)
  BY ElementOfSeq
<1>2. /\ \A i \in 1 + 1 .. n : i \in 1 .. n /\ i - 1 \in 1 .. n /\ i # 1
      /\ 1 \in 1 .. n
  BY <1>1
<1>3. \A i \in 1 .. n : V[i] = Seq(T)
  OBVIOUS
<1>4. ASSUME NEW i \in 1 .. n, NEW v \in Seq(T)
      PROVE  step[i][v] = v \o lists[i] /\ v \o lists[i] \in Seq(T)
  <2>1. step[i][v] = v \o lists[i]
    OBVIOUS
  <2>2. lists[i] \in Seq(T)
    BY <1>1
  <2>3. QED
    BY <2>1, <2>2, ConcatProperties
<1> HIDE DEF V, step, n
<1>5. lists[1] \in V[1]
  BY <1>1, <1>2, <1>3
<1>6. \A i \in 1 + 1 .. n : \A v \in V[i - 1] : step[i][v] \in V[i]
  <2> TAKE i \in 1 + 1 .. n
  <2> TAKE v \in V[i - 1]
  <2>1. i \in 1 .. n /\ i - 1 \in 1 .. n
    BY <1>2
  <2>2. V[i - 1] = Seq(T) /\ V[i] = Seq(T)
    BY <1>3, <2>1
  <2>3. v \in Seq(T)
    BY <2>2
  <2>4. QED
    BY <1>4, <2>1, <2>2, <2>3
<1>7. PICK h : IsRecursion(h, 1, n, lists[1], step) /\ \A i \in 1 .. n : h[i] \in V[i]
  BY <1>1, <1>5, <1>6, RecursionExists, Zenon
<1>8. \A i \in 1 .. n : h[i] = IF i = 1 THEN lists[1] ELSE step[i][h[i - 1]]
  BY <1>7 DEF IsRecursion
<1>9. ASSUME NEW i \in 1 + 1 .. n PROVE h[i] = h[i - 1] \o lists[i]
  <2>1. i \in 1 .. n /\ i - 1 \in 1 .. n /\ i # 1
    BY <1>2
  <2>2. h[i - 1] \in Seq(T)
    BY <1>3, <1>7, <2>1
  <2>3. QED
    BY <1>4, <1>8, <2>1, <2>2
<1>10. h[1] = lists[1] /\ \A i \in 1 .. n : h[i] \in Seq(T)
  BY <1>2, <1>3, <1>7, <1>8
<1>11. IsFlattening(h, T, lists)
  BY <1>9, <1>10 DEF IsFlattening, n
<1>12. QED
  BY <1>11

\* One list more comes after all that are there.
LEMMA FlattenedGrows ==
    ASSUME NEW T, NEW lists \in Seq(Seq(T)), NEW more \in Seq(T)
    PROVE  /\ FlattenSeq(<<>>) = <<>>
           /\ FlattenSeq(lists) \in Seq(T)
           /\ Append(lists, more) \in Seq(Seq(T))
           /\ FlattenSeq(Append(lists, more)) = FlattenSeq(lists) \o more
<1>1. FlattenSeq(<<>>) = <<>>
  BY DEF FlattenSeq
<1>2. FlattenSeq(lists) \in Seq(T)
  BY FlattenedIsList
<1> DEFINE n == Len(lists)
           longer == Append(lists, more)
<1>3. /\ longer \in Seq(Seq(T)) /\ Len(longer) = n + 1 /\ longer # <<>> /\ n \in Nat
      /\ \A i \in 1 .. n : longer[i] = lists[i]
      /\ longer[n + 1] = more
  BY AppendProperties
<1>4. CASE lists = <<>>
  <2> DEFINE h == [i \in 1 .. 1 |-> more]
  <2>1. n = 0 /\ h[1] = longer[1] /\ \A i \in 1 .. 1 : h[i] \in Seq(T)
    BY <1>3, <1>4
  <2>2. \A i \in 1 + 1 .. 1 : FALSE
    OBVIOUS
  <2> HIDE DEF h, longer
  <2>3. Len(longer) = 1
    BY <1>3, <2>1
  <2> HIDE DEF n
  <2>4. IsFlattening(h, T, longer)
    BY <2>1, <2>2, <2>3 DEF IsFlattening
  <2>5. FlattenSeq(longer) = h[1]
    BY <1>3, <2>3, <2>4, FlattenedStepByStep
  <2>6. h[1] = more /\ <<>> \o more = more
    BY DEF h
  <2>7. QED
    BY <1>1, <1>2, <1>3, <1>4, <2>5, <2>6 DEF longer
<1>5. CASE lists # <<>>
  <2>1. PICK h : IsFlattening(h, T, lists)
    BY <1>5, FlatteningExists
  <2>2. FlattenSeq(lists) = h[n]
    BY <1>5, <2>1, FlattenedStepByStep
  <2> DEFINE all == h[n] \o more
             g == [i \in 1 .. n + 1 |-> IF i = n + 1 THEN all ELSE h[i]]
  <2>3. n >= 1 /\ n \in 1 .. n
    BY <1>5
  <2>4. g[n + 1] = all /\ \A i \in 1 .. n : g[i] = h[i]
    BY <1>3
  <2>5. /\ h[1] = lists[1] /\ \A i \in 1 .. n : h[i] \in Seq(T)
        /\ \A i \in 1 + 1 .. n : h[i] = h[i - 1] \o lists[i]
    BY <2>1 DEF IsFlattening
  <2>6. all \in Seq(T)
    <3>1. h[n] \in Seq(T)
      BY <2>3, <2>5
    <3>2. QED
      BY <3>1, ConcatProperties
  <2>7. /\ \A i \in 1 .. n + 1 : i = n + 1 \/ i \in 1 .. n
        /\ \A i \in 1 + 1 .. n + 1 : i = n + 1 \/ (i \in 1 + 1 .. n /\ i \in 1 .. n /\ i - 1 \in 1 .. n)
        /\ (n + 1) - 1 = n /\ 1 \in 1 .. n
    BY <2>3, SMTT(30)
  <2> HIDE DEF g, longer, n, all
  <2>8. g[1] = longer[1]
    BY <1>3, <2>4, <2>5, <2>7
  <2>9. ASSUME NEW i \in 1 .. n + 1 PROVE g[i] \in Seq(T)
    BY <2>4, <2>5, <2>6, <2>7
  <2>10. ASSUME NEW i \in 1 + 1 .. n + 1 PROVE g[i] = g[i - 1] \o longer[i]
    <3>1. CASE i = n + 1
      <4>1. g[i - 1] = h[n] /\ g[i] = all /\ longer[i] = more
        BY <1>3, <2>3, <2>4, <2>7, <3>1
      <4>2. QED
        BY <4>1 DEF all
    <3>2. CASE i \in 1 + 1 .. n /\ i \in 1 .. n /\ i - 1 \in 1 .. n
      <4>1. g[i] = h[i] /\ g[i - 1] = h[i - 1] /\ longer[i] = lists[i]
        BY <1>3, <2>4, <3>2
      <4>2. QED
        BY <2>5, <3>2, <4>1
    <3>3. QED
      BY <2>7, <3>1, <3>2
  <2>11. IsFlattening(g, T, longer)
    BY <1>3, <2>8, <2>9, <2>10 DEF IsFlattening
  <2>12. FlattenSeq(longer) = g[n + 1]
    BY <1>3, <2>11, FlattenedStepByStep
  <2>13. QED
    BY <1>1, <1>2, <1>3, <2>2, <2>4, <2>12 DEF longer, all
<1>6. QED
  BY <1>4, <1>5

\* Numbers order their places.
LEMMA NumbersAreOrder ==
    ASSUME NEW n \in Nat, NEW key, \A i \in 1 .. n : key[i] \in Int,
           NEW before, \A i, j \in 1 .. n : <<i, j>> \in before <=> key[i] < key[j]
    PROVE  IsOrder(n, before)
<1>1. \A i \in 1 .. n : <<i, i>> \notin before
  OBVIOUS
<1>2. \A i, j, k \in 1 .. n : <<i, j>> \in before /\ <<j, k>> \in before => <<i, k>> \in before
  OBVIOUS
<1>3. \A i, j, k \in 1 .. n : <<i, k>> \in before => <<i, j>> \in before \/ <<j, k>> \in before
  OBVIOUS
<1>4. QED
  BY <1>1, <1>2, <1>3 DEF IsOrder

LEMMA LeastIsElement ==
    ASSUME NEW S \in SUBSET Nat, S # {}
    PROVE  Min(S) \in S /\ \A x \in S : Min(S) <= x
<1>1. \E x \in S : \A y \in S : x <= y
  BY LeastElement
<1>2. QED
  BY <1>1 DEF Min

\* A part of a list, element by element.
LEMMA PartGrows ==
    ASSUME NEW T, NEW s \in Seq(T), NEW a \in Nat, NEW i \in Nat, a <= i, i < Len(s)
    PROVE  Append(SubSeq(s, a + 1, i), s[i + 1]) = SubSeq(s, a + 1, i + 1)
<1>1. /\ SubSeq(s, a + 1, i) \in Seq(T) /\ Len(SubSeq(s, a + 1, i)) = i - a
      /\ \A k \in 1 .. i - a : SubSeq(s, a + 1, i)[k] = s[a + k]
  OBVIOUS
<1>2. /\ SubSeq(s, a + 1, i + 1) \in Seq(T) /\ Len(SubSeq(s, a + 1, i + 1)) = i + 1 - a
      /\ \A k \in 1 .. i + 1 - a : SubSeq(s, a + 1, i + 1)[k] = s[a + k]
  OBVIOUS
<1>3. s[i + 1] \in T
  OBVIOUS
<1> DEFINE v == SubSeq(s, a + 1, i)
           w == SubSeq(s, a + 1, i + 1)
           u == Append(v, s[i + 1])
<1>4. /\ u \in Seq(T) /\ Len(u) = i + 1 - a
      /\ \A k \in 1 .. i - a : u[k] = v[k]
      /\ u[i - a + 1] = s[i + 1]
  BY <1>1, <1>3, AppendProperties
<1> HIDE DEF u, v, w
<1>5. \A k \in 1 .. i + 1 - a : u[k] = w[k]
  BY <1>1, <1>2, <1>4 DEF v, w
<1>6. u = w
  BY <1>2, <1>4, <1>5, SeqEqual DEF w
<1>7. QED
  BY <1>6 DEF u, v, w

\* The elements at places without a gap.
LEMMA ElementsAtInterval ==
    ASSUME NEW T, NEW s \in Seq(T), NEW a \in Nat, NEW b \in Nat, a <= b, b <= Len(s)
    PROVE  ElementsAt(s, a + 1 .. b) = SubSeq(s, a + 1, b)
<1> DEFINE n == Len(s)
           chosen == a + 1 .. b
           upto(i) == SubSeq(s, a + 1, Least(i, b))
           k == [i \in 0 .. n |-> upto(i)]
           V == [i \in 0 .. n |-> {upto(i)}]
           IsTaken(t) == t = [i \in 0 .. n |->
               IF i = 0 THEN <<>> ELSE IF i \in chosen THEN Append(t[i - 1], s[i]) ELSE t[i - 1]]
           taken == CHOOSE t : IsTaken(t)
<1>1. /\ n \in Nat /\ 0 \in Int /\ n \in Int /\ 0 \in 0 .. n /\ n \in 0 .. n
      /\ \A i \in 0 + 1 .. n : i \in 0 .. n /\ i - 1 \in 0 .. n /\ i # 0
      /\ \A i \in 0 .. n : i # 0 => i \in 0 + 1 .. n
  OBVIOUS
<1>2. upto(0) = <<>>
  <2>1. Least(0, b) = 0
    BY DEF Least
  <2>2. SubSeq(s, a + 1, 0) = <<>>
    OBVIOUS
  <2>3. QED
    BY <2>1, <2>2
<1>3. ASSUME NEW i \in 0 + 1 .. n
      PROVE  upto(i) = IF i \in chosen THEN Append(upto(i - 1), s[i]) ELSE upto(i - 1)
  <2>1. CASE i \in chosen
    <3>1. Least(i, b) = i /\ Least(i - 1, b) = i - 1 /\ i - 1 \in Nat /\ a <= i - 1 /\ i - 1 < Len(s)
          /\ (i - 1) + 1 = i
      BY <2>1 DEF Least
    <3> DEFINE j == i - 1
    <3> HIDE DEF j
    <3>2. j \in Nat /\ a <= j /\ j < Len(s) /\ j + 1 = i
      BY <3>1 DEF j
    <3>3. Append(SubSeq(s, a + 1, j), s[j + 1]) = SubSeq(s, a + 1, j + 1)
      BY <3>2, PartGrows
    <3>4. QED
      BY <2>1, <3>1, <3>2, <3>3 DEF j
  <2>2. CASE i <= a
    <3>1. Least(i, b) = i /\ Least(i - 1, b) = i - 1
      BY <2>2 DEF Least
    <3>2. SubSeq(s, a + 1, i) = <<>> /\ SubSeq(s, a + 1, i - 1) = <<>>
      BY <2>2
    <3>3. QED
      BY <2>2, <3>1, <3>2
  <2>3. CASE i > b
    <3>1. Least(i, b) = b /\ Least(i - 1, b) = b
      BY <2>3 DEF Least
    <3>2. QED
      BY <2>3, <3>1
  <2>4. i \in chosen \/ i <= a \/ i > b
    OBVIOUS
  <2> HIDE DEF upto, chosen
  <2>5. QED
    BY <2>1, <2>2, <2>3, <2>4
<1>4. \A i \in 0 .. n : k[i] = upto(i) /\ V[i] = {upto(i)}
  OBVIOUS
<1> HIDE DEF upto, chosen, n, V
<1>5. IsTaken(k)
  BY <1>1, <1>2, <1>3, <1>4
<1>6. IsTaken(taken)
  BY <1>5
<1>7. ElementsAt(s, chosen) = taken[n]
  BY DEF ElementsAt, n
<1>8. \A i \in 0 .. n : taken[i] = IF i = 0 THEN <<>>
                          ELSE IF i \in chosen THEN Append(taken[i - 1], s[i]) ELSE taken[i - 1]
  BY <1>6
<1> HIDE DEF taken, k
<1>9. taken[0] \in V[0]
  BY <1>1, <1>2, <1>4, <1>8
<1>10. ASSUME NEW i \in 0 + 1 .. n, taken[i - 1] \in V[i - 1] PROVE taken[i] \in V[i]
  <2>1. taken[i - 1] = upto(i - 1)
    BY <1>1, <1>4, <1>10
  <2>2. taken[i] = upto(i)
    BY <1>1, <1>3, <1>8, <2>1
  <2>3. QED
    BY <1>1, <1>4, <2>2
<1>11. \A i \in 0 .. n : taken[i] \in V[i]
  BY <1>1, <1>9, <1>10, RecursionKeeps, Zenon
<1>12. taken[n] = upto(n)
  BY <1>1, <1>4, <1>11
<1>13. Least(n, b) = b
  BY DEF Least, n
<1>14. QED
  BY <1>7, <1>12, <1>13 DEF upto, chosen

\* Two parts that meet.
LEMMA PartsMeet ==
    ASSUME NEW T, NEW s \in Seq(T), NEW a \in Nat, NEW b \in Nat, NEW c \in Nat,
           a <= b, b <= c, c <= Len(s)
    PROVE  /\ SubSeq(s, a + 1, b) \in Seq(T) /\ SubSeq(s, a + 1, c) \in Seq(T)
           /\ SubSeq(s, a + 1, b) \o SubSeq(s, b + 1, c) = SubSeq(s, a + 1, c)
           /\ IsPrefix(SubSeq(s, a + 1, b), SubSeq(s, a + 1, c))
<1> DEFINE v == SubSeq(s, a + 1, b)
           w == SubSeq(s, b + 1, c)
           u == SubSeq(s, a + 1, c)
<1>1. v \in Seq(T) /\ Len(v) = b - a /\ \A k \in 1 .. b - a : v[k] = s[a + k]
  OBVIOUS
<1>2. w \in Seq(T) /\ Len(w) = c - b /\ \A k \in 1 .. c - b : w[k] = s[b + k]
  OBVIOUS
<1>3. u \in Seq(T) /\ Len(u) = c - a /\ \A k \in 1 .. c - a : u[k] = s[a + k]
  OBVIOUS
<1> HIDE DEF u, v, w
<1>4. /\ v \o w \in Seq(T) /\ Len(v \o w) = (b - a) + (c - b)
      /\ \A i \in 1 .. (b - a) + (c - b) : (v \o w)[i] = IF i <= b - a THEN v[i] ELSE w[i - (b - a)]
  <2>1. /\ v \o w \in Seq(T) /\ Len(v \o w) = Len(v) + Len(w)
        /\ \A i \in 1 .. Len(v) + Len(w) : (v \o w)[i] = IF i <= Len(v) THEN v[i] ELSE w[i - Len(v)]
    BY <1>1, <1>2, ConcatProperties
  <2>2. QED
    BY <1>1, <1>2, <2>1
<1>5. ASSUME NEW i \in 1 .. c - a PROVE (v \o w)[i] = u[i]
  <2>1. CASE i <= b - a
    BY <1>1, <1>3, <1>4, <2>1
  <2>2. CASE ~(i <= b - a)
    <3>1. (v \o w)[i] = w[i - (b - a)] /\ i - (b - a) \in 1 .. c - b
      BY <1>4, <2>2
    <3>2. w[i - (b - a)] = s[b + (i - (b - a))] /\ b + (i - (b - a)) = a + i
      BY <1>2, <3>1
    <3>3. QED
      BY <1>3, <3>1, <3>2
  <2>3. QED
    BY <2>1, <2>2
<1>6. v \o w = u
  <2>1. Len(v \o w) = c - a /\ Len(u) = c - a
    BY <1>3, <1>4
  <2>2. \A i \in 1 .. Len(v \o w) : (v \o w)[i] = u[i]
    BY <1>5, <2>1
  <2>3. v \o w \in Seq(T) /\ Len(v \o w) = Len(u)
    BY <1>4, <2>1
  <2>4. QED
    BY <1>3, <2>2, <2>3, SeqEqual
<1>7. IsPrefix(v, u)
  <2>1. Len(v) <= Len(u)
    BY <1>1, <1>3
  <2>2. SubSeq(v, 1, Len(v)) = v
    BY <1>1
  <2>3. SubSeq(u, 1, Len(v)) = v
    <3>1. /\ SubSeq(u, 1, Len(v)) \in Seq(T) /\ Len(SubSeq(u, 1, Len(v))) = b - a
          /\ \A k \in 1 .. b - a : SubSeq(u, 1, Len(v))[k] = u[k]
      BY <1>1, <1>3
    <3>2. QED
      BY <1>1, <1>3, <3>1, SeqEqual
  <2>4. QED
    BY <2>1, <2>2, <2>3 DEF IsPrefix
<1>8. QED
  BY <1>1, <1>3, <1>6, <1>7 DEF u, v, w

\* A part of a part.
LEMMA PartOfPart ==
    ASSUME NEW T, NEW s \in Seq(T), NEW a \in Nat, NEW b \in Nat, NEW c \in Nat, NEW d \in Nat,
           a <= b, b < c, c <= d, d <= Len(s)
    PROVE  LET part == SubSeq(s, a + 1, d)
           IN  /\ b - a + 1 \in DOMAIN part /\ c - a \in DOMAIN part
               /\ SubSeq(s, b + 1, c) = SubSeq(part, b - a + 1, c - a)
<1> DEFINE part == SubSeq(s, a + 1, d)
           v == SubSeq(s, b + 1, c)
           w == SubSeq(part, b - a + 1, c - a)
<1>1. part \in Seq(T) /\ Len(part) = d - a /\ \A k \in 1 .. d - a : part[k] = s[a + k]
  OBVIOUS
<1>2. v \in Seq(T) /\ Len(v) = c - b /\ \A k \in 1 .. c - b : v[k] = s[b + k]
  OBVIOUS
<1> HIDE DEF part, v
<1>3. b - a + 1 \in 1 .. d - a /\ c - a \in 1 .. d - a /\ DOMAIN part = 1 .. d - a
  BY <1>1
<1>4. w \in Seq(T) /\ Len(w) = c - b /\ \A k \in 1 .. c - b : w[k] = part[b - a + k]
  BY <1>1, <1>3
<1> HIDE DEF w
<1>5. ASSUME NEW k \in 1 .. c - b PROVE v[k] = w[k]
  <2>1. b - a + k \in 1 .. d - a /\ a + (b - a + k) = b + k
    OBVIOUS
  <2>2. QED
    BY <1>1, <1>2, <1>4, <2>1
<1>6. v = w
  BY <1>2, <1>4, <1>5, SeqEqual
<1>7. QED
  BY <1>3, <1>6 DEF part, v, w

-----------------------------------------------------------------------------
(* Lists that are determined by what they hold: the members of a set in a  *)
(* strict order, a part of a list, a stable sort, a run of a rule.         *)

\* Two lists of the members of a set in one strict order are the same.
IsEnumeration(f, n, S, less) ==
    /\ \A k \in 1 .. n : f[k] \in S
    /\ \A k, l \in 1 .. n : k < l => <<f[k], f[l]>> \in less
    /\ \A x \in S : \E k \in 1 .. n : f[k] = x

IsStrict(S, less) ==
    /\ \A x \in S : <<x, x>> \notin less
    /\ \A x, y, z \in S : <<x, y>> \in less /\ <<y, z>> \in less => <<x, z>> \in less

LEMMA EnumerationAgrees ==
    ASSUME NEW S, NEW less, IsStrict(S, less), NEW m \in Nat, NEW n \in Nat, NEW f, NEW g,
           IsEnumeration(f, m, S, less), IsEnumeration(g, n, S, less)
    PROVE  \A k \in 1 .. m : k \in 1 .. n /\ f[k] = g[k]
<1> DEFINE B == { k \in 1 .. m : ~(k \in 1 .. n /\ f[k] = g[k]) }
<1>1. SUFFICES ASSUME B # {} PROVE FALSE
  OBVIOUS
<1>2. B \in SUBSET Nat
  OBVIOUS
<1>3. PICK k \in B : \A l \in B : k <= l
  BY <1>1, <1>2, LeastElement
<1>4. k \in 1 .. m /\ f[k] \in S /\ ~(k \in 1 .. n /\ f[k] = g[k])
  BY <1>3 DEF IsEnumeration
<1>5. \A l \in 1 .. m : l < k => l \in 1 .. n /\ f[l] = g[l]
  BY <1>3, <1>4
<1> HIDE DEF B
<1>6. PICK j \in 1 .. n : g[j] = f[k]
  BY <1>4 DEF IsEnumeration
<1>7. \A l \in 1 .. m : l < k => g[l] # f[k]
  <2>1. TAKE l \in 1 .. m
  <2>2. HAVE l < k
  <2>3. <<f[l], f[k]>> \in less /\ f[l] = g[l]
    BY <1>4, <1>5, <2>2 DEF IsEnumeration
  <2>4. QED
    BY <1>4, <2>3 DEF IsStrict
<1>8. j > k
  <2>1. j # k
    BY <1>4, <1>6
  <2>2. ~(j < k)
    <3>1. SUFFICES ASSUME j < k PROVE FALSE
      OBVIOUS
    <3>2. j \in 1 .. m
      BY <1>4, <3>1
    <3>3. QED
      BY <1>6, <1>7, <3>1, <3>2
  <2>3. QED
    BY <1>4, <2>1, <2>2
<1>9. k \in 1 .. n /\ g[k] \in S /\ <<g[k], f[k]>> \in less
  <2>1. k \in 1 .. n
    BY <1>4, <1>8
  <2>2. QED
    BY <1>6, <1>8, <2>1 DEF IsEnumeration
<1>10. PICK i \in 1 .. m : f[i] = g[k]
  BY <1>9 DEF IsEnumeration
<1>11. ~(i < k)
  <2>1. SUFFICES ASSUME i < k PROVE FALSE
    OBVIOUS
  <2>2. i \in 1 .. n /\ f[i] = g[i]
    BY <1>5, <2>1
  <2>3. <<g[i], g[k]>> \in less
    BY <1>9, <2>1, <2>2 DEF IsEnumeration
  <2>4. QED
    BY <1>9, <1>10, <2>2, <2>3 DEF IsStrict
<1>12. i # k
  BY <1>4, <1>9, <1>10
<1>13. <<f[k], g[k]>> \in less
  BY <1>4, <1>10, <1>11, <1>12 DEF IsEnumeration
<1>14. QED
  BY <1>4, <1>9, <1>13 DEF IsStrict

LEMMA EnumerationIsUnique ==
    ASSUME NEW S, NEW less, IsStrict(S, less), NEW m \in Nat, NEW n \in Nat, NEW f, NEW g,
           IsEnumeration(f, m, S, less), IsEnumeration(g, n, S, less)
    PROVE  m = n /\ \A k \in 1 .. m : f[k] = g[k]
<1>1. \A k \in 1 .. m : k \in 1 .. n /\ f[k] = g[k]
  BY EnumerationAgrees
<1>2. \A k \in 1 .. n : k \in 1 .. m /\ g[k] = f[k]
  BY EnumerationAgrees
<1>3. QED
  BY <1>1, <1>2

\* Lists that are the same everywhere.
LEMMA SameLists ==
    ASSUME NEW T, NEW v \in Seq(T), NEW w \in Seq(T), Len(v) = Len(w),
           \A k \in 1 .. Len(v) : v[k] = w[k]
    PROVE  v = w
  OBVIOUS

\* The elements in a set, in their order.
Chosen(s, P) == { i \in DOMAIN s : s[i] \in P }
Part(s, P) == ElementsAt(s, Chosen(s, P))

Earlier(n) == { p \in (1 .. n) \X (1 .. n) : p[1] < p[2] }

\* A list is the elements in a set, in their order.
IsPart(v, at, s, P) ==
    /\ IsEnumeration(at, Len(v), Chosen(s, P), Earlier(Len(s)))
    /\ \A k \in 1 .. Len(v) : v[k] = s[at[k]]

LEMMA PartIsEnumerated ==
    ASSUME NEW T, NEW s \in Seq(T), NEW P
    PROVE  Part(s, P) \in Seq(T) /\ \E at : IsPart(Part(s, P), at, s, P)
<1> DEFINE n == Len(s)
           chosen == Chosen(s, P)
           v == Part(s, P)
<1>1. n \in Nat /\ DOMAIN s = 1 .. n /\ \A i \in 1 .. n : s[i] \in T
  BY ElementOfSeq
<1>2. v = ElementsAt(s, chosen) /\ chosen = { i \in 1 .. n : s[i] \in P }
  BY <1>1 DEF Part, Chosen
<1>3. \A i \in 1 .. n : i \in chosen => s[i] \in T
  BY <1>1
<1> HIDE DEF chosen, v
<1>4. v \in Seq(T) /\ \E at : IsSelection(at, n, chosen, s, v)
  BY <1>1, <1>2, <1>3, ElementsAtAreElements
<1>5. PICK at : IsSelection(at, n, chosen, s, v)
  BY <1>4
<1>6. /\ \A k \in 1 .. Len(v) : at[k] \in chosen /\ v[k] = s[at[k]] /\ at[k] \in 1 .. n
      /\ \A k, l \in 1 .. Len(v) : k < l => at[k] < at[l]
      /\ \A i \in chosen : \E k \in 1 .. Len(v) : at[k] = i
  BY <1>2, <1>5 DEF IsSelection
<1>7. IsEnumeration(at, Len(v), chosen, Earlier(n))
  BY <1>6 DEF IsEnumeration, Earlier
<1>8. IsPart(v, at, s, P)
  BY <1>6, <1>7 DEF IsPart, chosen
<1>9. QED
  BY <1>4, <1>8 DEF v

LEMMA EarlierIsStrict ==
    ASSUME NEW n \in Nat, NEW S \in SUBSET (1 .. n)
    PROVE  IsStrict(S, Earlier(n))
<1>1. \A x, y \in 1 .. n : <<x, y>> \in Earlier(n) <=> x < y
  BY DEF Earlier
<1>2. QED
  BY <1>1 DEF IsStrict

\* There is one such list.
LEMMA PartIsUnique ==
    ASSUME NEW T, NEW s \in Seq(T), NEW P, NEW w \in Seq(T), NEW f, IsPart(w, f, s, P)
    PROVE  Part(s, P) = w
<1> DEFINE v == Part(s, P)
<1>1. v \in Seq(T) /\ \E at : IsPart(v, at, s, P)
  BY PartIsEnumerated
<1> HIDE DEF v
<1>2. PICK at : IsPart(v, at, s, P)
  BY <1>1
<1>3. Len(s) \in Nat /\ Len(v) \in Nat /\ Len(w) \in Nat /\ Chosen(s, P) \in SUBSET (1 .. Len(s))
  BY <1>1 DEF Chosen
<1>4. IsStrict(Chosen(s, P), Earlier(Len(s)))
  BY <1>3, EarlierIsStrict
<1>5. Len(v) = Len(w) /\ \A k \in 1 .. Len(v) : at[k] = f[k]
  BY <1>2, <1>3, <1>4, EnumerationIsUnique DEF IsPart
<1>6. \A k \in 1 .. Len(v) : v[k] = w[k]
  BY <1>2, <1>5 DEF IsPart
<1>7. v = w
  BY <1>1, <1>5, <1>6, SameLists
<1>8. QED
  BY <1>7 DEF v

\* Of two lists, one after the other, the parts one after the other.
Joined(v, w) == v \o w

LEMMA PartOfBoth ==
    ASSUME NEW T, NEW v \in Seq(T), NEW w \in Seq(T), NEW P
    PROVE  /\ Joined(v, w) \in Seq(T) /\ Part(v, P) \in Seq(T) /\ Part(w, P) \in Seq(T)
           /\ Part(Joined(v, w), P) = Joined(Part(v, P), Part(w, P))
<1> DEFINE m == Len(v)
           n == Len(w)
           u == v \o w
           x == Part(v, P)
           y == Part(w, P)
           z == x \o y
           a == Len(x)
           b == Len(y)
<1>1. /\ m \in Nat /\ n \in Nat /\ u \in Seq(T) /\ Len(u) = m + n
      /\ \A i \in 1 .. m + n : u[i] = IF i <= m THEN v[i] ELSE w[i - m]
  BY ConcatProperties
<1>2. /\ x \in Seq(T) /\ (\E at : IsPart(x, at, v, P))
      /\ y \in Seq(T) /\ (\E at : IsPart(y, at, w, P))
  BY PartIsEnumerated
<1> HIDE DEF x, y
<1>3. /\ a \in Nat /\ b \in Nat /\ z \in Seq(T) /\ Len(z) = a + b
      /\ \A i \in 1 .. a + b : z[i] = IF i <= a THEN x[i] ELSE y[i - a]
  BY <1>2, ConcatProperties
<1>4. PICK f : IsPart(x, f, v, P)
  BY <1>2
<1>5. PICK g : IsPart(y, g, w, P)
  BY <1>2
<1>6. /\ DOMAIN v = 1 .. m /\ DOMAIN w = 1 .. n /\ DOMAIN u = 1 .. m + n
  BY <1>1
<1> HIDE DEF m, n, u, z, a, b
<1>7. /\ \A k \in 1 .. a : f[k] \in 1 .. m /\ v[f[k]] \in P /\ x[k] = v[f[k]]
      /\ \A k, l \in 1 .. a : k < l => f[k] < f[l]
      /\ \A i \in 1 .. m : v[i] \in P => \E k \in 1 .. a : f[k] = i
  BY <1>4, <1>6 DEF IsPart, IsEnumeration, Chosen, Earlier, a, m
<1>8. /\ \A k \in 1 .. b : g[k] \in 1 .. n /\ w[g[k]] \in P /\ y[k] = w[g[k]]
      /\ \A k, l \in 1 .. b : k < l => g[k] < g[l]
      /\ \A i \in 1 .. n : w[i] \in P => \E k \in 1 .. b : g[k] = i
  BY <1>5, <1>6 DEF IsPart, IsEnumeration, Chosen, Earlier, b, n
<1> DEFINE h == [k \in 1 .. a + b |-> IF k <= a THEN f[k] ELSE m + g[k - a]]
<1>9. \A k \in 1 .. a + b :
          /\ k <= a => k \in 1 .. a /\ h[k] = f[k] /\ f[k] \in 1 .. m
          /\ k > a => k - a \in 1 .. b /\ h[k] = m + g[k - a] /\ g[k - a] \in 1 .. n
  BY <1>3, <1>7, <1>8
<1>10. \A k \in 1 .. b : k + a \in 1 .. a + b /\ h[k + a] = m + g[k]
  <2> TAKE k \in 1 .. b
  <2> DEFINE j == k + a
  <2>1. j \in 1 .. a + b /\ j > a /\ j - a = k
    BY <1>3
  <2> HIDE DEF j
  <2>2. h[j] = m + g[j - a]
    BY <1>9, <2>1
  <2>3. QED
    BY <2>1, <2>2 DEF j
<1>11. \A k \in 1 .. a : k \in 1 .. a + b /\ h[k] = f[k]
  BY <1>3, <1>9
<1> HIDE DEF h
<1>12. \A k \in 1 .. a + b : h[k] \in 1 .. m + n /\ u[h[k]] \in P /\ z[k] = u[h[k]]
  <2> TAKE k \in 1 .. a + b
  <2>1. CASE k <= a
    <3>1. k \in 1 .. a /\ h[k] = f[k] /\ f[k] \in 1 .. m
      BY <1>9, <2>1
    <3>2. f[k] \in 1 .. m + n /\ u[f[k]] = v[f[k]]
      BY <1>1, <3>1
    <3>3. QED
      BY <1>3, <1>7, <2>1, <3>1, <3>2
  <2>2. CASE k > a
    <3>1. k - a \in 1 .. b /\ h[k] = m + g[k - a] /\ g[k - a] \in 1 .. n
      BY <1>9, <2>2
    <3>2. m + g[k - a] \in 1 .. m + n /\ ~(m + g[k - a] <= m) /\ m + g[k - a] - m = g[k - a]
      BY <1>1, <3>1
    <3> DEFINE i == m + g[k - a]
    <3>3. u[i] = w[g[k - a]]
      <4>1. i \in 1 .. m + n /\ ~(i <= m) /\ i - m = g[k - a]
        BY <1>1, <3>1
      <4> HIDE DEF i
      <4>2. u[i] = w[i - m]
        BY <1>1, <4>1
      <4>3. QED
        BY <4>1, <4>2
    <3>4. z[k] = y[k - a]
      BY <1>3, <2>2
    <3>5. QED
      BY <1>8, <3>1, <3>2, <3>3, <3>4
  <2>3. QED
    BY <1>3, <2>1, <2>2
<1>13. \A k, l \in 1 .. a + b : k < l => h[k] < h[l]
  <2> TAKE k, l \in 1 .. a + b
  <2> HAVE k < l
  <2>1. CASE l <= a
    <3>1. k <= a
      BY <1>3, <2>1
    <3>2. QED
      BY <1>7, <1>9, <2>1, <3>1
  <2>2. CASE k <= a /\ l > a
    <3>1. h[k] = f[k] /\ f[k] \in 1 .. m /\ h[l] = m + g[l - a] /\ g[l - a] \in 1 .. n
      BY <1>9, <2>2
    <3>2. QED
      BY <1>1, <3>1
  <2>3. CASE k > a
    <3>1. l > a
      BY <1>3, <2>3
    <3>2. /\ k - a \in 1 .. b /\ h[k] = m + g[k - a] /\ g[k - a] \in 1 .. n
          /\ l - a \in 1 .. b /\ h[l] = m + g[l - a] /\ g[l - a] \in 1 .. n
      BY <1>9, <2>3, <3>1
    <3>3. k - a < l - a
      BY <1>3
    <3>4. g[k - a] < g[l - a]
      BY <1>8, <3>2, <3>3
    <3>5. QED
      BY <1>1, <3>2, <3>4
  <2>4. QED
    BY <1>3, <2>1, <2>2, <2>3
<1>14. \A i \in 1 .. m + n : u[i] \in P => \E k \in 1 .. a + b : h[k] = i
  <2> TAKE i \in 1 .. m + n
  <2> HAVE u[i] \in P
  <2>1. CASE i <= m
    <3>1. i \in 1 .. m /\ v[i] \in P
      BY <1>1, <2>1
    <3>2. QED
      BY <1>7, <1>11, <3>1
  <2>2. CASE i > m
    <3>1. i - m \in 1 .. n /\ w[i - m] \in P
      BY <1>1, <2>2
    <3>2. PICK k \in 1 .. b : g[k] = i - m
      BY <1>8, <3>1
    <3>3. k + a \in 1 .. a + b /\ h[k + a] = m + (i - m)
      BY <1>10, <3>2
    <3>4. m + (i - m) = i
      BY <1>1
    <3>5. QED
      BY <3>3, <3>4
  <2>3. QED
    BY <1>1, <2>1, <2>2
<1>15. IsPart(z, h, u, P)
  <2>1. IsEnumeration(h, a + b, Chosen(u, P), Earlier(m + n))
    BY <1>6, <1>12, <1>13, <1>14 DEF IsEnumeration, Chosen, Earlier
  <2>2. QED
    BY <1>1, <1>3, <1>12, <2>1 DEF IsPart
<1>16. Part(u, P) = z
  BY <1>1, <1>3, <1>15, PartIsUnique
<1>17. QED
  BY <1>1, <1>2, <1>16 DEF u, z, x, y, Joined

\* Lists of which one is in a set and the others have nothing in it.
LEMMA PartOfFlattened ==
    ASSUME NEW T, NEW lists \in Seq(Seq(T)), NEW r \in 1 .. Len(lists), NEW P,
           ToSet(lists[r]) \subseteq P,
           \A i \in 1 .. Len(lists) : i # r => ToSet(lists[i]) \cap P = {}
    PROVE  FlattenSeq(lists) \in Seq(T) /\ Part(FlattenSeq(lists), P) = lists[r]
<1> DEFINE n == Len(lists)
           Want(k) == IF k < r THEN <<>> ELSE lists[r]
           V == [k \in 1 .. n |-> { x \in Seq(T) : Part(x, P) = Want(k) }]
<1>1. n \in Nat /\ lists # <<>> /\ \A i \in 1 .. n : lists[i] \in Seq(T)
  BY ElementOfSeq
<1>2. PICK h : IsFlattening(h, T, lists)
  BY <1>1, FlatteningExists
<1>3. FlattenSeq(lists) = h[n]
  BY <1>1, <1>2, FlattenedStepByStep
<1>4. \A i \in 1 .. n : Part(lists[i], P) = IF i = r THEN lists[r] ELSE <<>>
  <2> TAKE i \in 1 .. n
  <2>1. lists[i] \in Seq(T)
    BY <1>1
  <2>2. CASE i = r
    <3>1. IsPart(lists[r], [k \in DOMAIN lists[r] |-> k], lists[r], P)
      <4>1. lists[r] \in Seq(T) /\ DOMAIN lists[r] = 1 .. Len(lists[r]) /\ Len(lists[r]) \in Nat
        BY <2>1, <2>2
      <4>2. \A k \in 1 .. Len(lists[r]) : lists[r][k] \in P
        BY <4>1 DEF ToSet
      <4>3. QED
        BY <4>1, <4>2 DEF IsPart, IsEnumeration, Chosen, Earlier
    <3>2. QED
      BY <2>1, <2>2, <3>1, PartIsUnique
  <2>3. CASE i # r
    <3>1. Chosen(lists[i], P) = {}
      <4>1. ToSet(lists[i]) \cap P = {}
        BY <2>3
      <4>2. QED
        BY <4>1 DEF Chosen, ToSet
    <3>2. IsPart(<<>>, <<>>, lists[i], P)
      BY <3>1 DEF IsPart, IsEnumeration
    <3>3. <<>> \in Seq(T)
      OBVIOUS
    <3>4. QED
      BY <2>1, <2>3, <3>2, <3>3, PartIsUnique
  <2>4. QED
    BY <2>2, <2>3
<1>5. \A k \in 1 .. n : \A x : x \in V[k] <=> x \in Seq(T) /\ Part(x, P) = Want(k)
  OBVIOUS
<1>6. /\ \A k \in 1 .. n : k < r => Want(k) = <<>>
      /\ \A k \in 1 .. n : ~(k < r) => Want(k) = lists[r]
  OBVIOUS
<1>7. /\ h[1] = lists[1] /\ \A i \in 1 .. n : h[i] \in Seq(T)
      /\ \A i \in 1 + 1 .. n : h[i] = h[i - 1] \o lists[i]
  BY <1>2 DEF IsFlattening
<1> HIDE DEF V, Want, n
<1>8. h[1] \in V[1]
  <2>1. r \in 1 .. n
    BY DEF n
  <2>2. 1 \in 1 .. n /\ (1 = r \/ 1 < r)
    BY <1>1, <2>1
  <2>3. Part(lists[1], P) = Want(1)
    BY <1>4, <1>6, <2>1, <2>2
  <2>4. QED
    BY <1>1, <1>5, <1>7, <2>2, <2>3
<1>9. \A j \in 1 + 1 .. n : h[j - 1] \in V[j - 1] => h[j] \in V[j]
  <2> TAKE j \in 1 + 1 .. n
  <2> HAVE h[j - 1] \in V[j - 1]
  <2> DEFINE i == j - 1
  <2>1. /\ i \in 1 .. n /\ j \in 1 .. n /\ h[j] = h[i] \o lists[j] /\ (i < r <=> j < r \/ j = r)
        /\ r \in 1 .. n
    <3>1. r \in 1 .. n
      BY DEF n
    <3>2. j \in 1 + 1 .. n /\ i \in 1 .. n /\ j \in 1 .. n /\ (i < r <=> j < r \/ j = r)
      BY <1>1, <3>1
    <3>3. h[j] = h[j - 1] \o lists[j]
      BY <1>7, <3>2
    <3>4. QED
      BY <3>1, <3>2, <3>3
  <2>2. h[i] \in V[i]
    OBVIOUS
  <2> HIDE DEF i
  <2>3. h[i] \in Seq(T) /\ Part(h[i], P) = Want(i) /\ lists[j] \in Seq(T)
    BY <1>1, <1>5, <2>1, <2>2
  <2>4. h[j] \in Seq(T) /\ Part(h[j], P) = Want(i) \o Part(lists[j], P)
    <3>1. h[j] = Joined(h[i], lists[j])
      BY <2>1 DEF Joined
    <3>2. h[j] \in Seq(T) /\ Part(h[j], P) = Joined(Part(h[i], P), Part(lists[j], P))
      BY <2>3, <3>1, PartOfBoth, SMTT(30)
    <3>3. QED
      BY <2>3, <3>2 DEF Joined
  <2>5. Part(h[j], P) = Want(j)
    <3>1. lists[r] \in Seq(T) /\ lists[r] \o <<>> = lists[r] /\ <<>> \o lists[r] = lists[r] /\ <<>> \o <<>> = <<>>
      BY <1>1
    <3>2. CASE j < r
      <4>1. Part(lists[j], P) = <<>>
        BY <1>4, <2>1, <3>2
      <4>2. Want(i) = <<>> /\ Want(j) = <<>>
        BY <1>6, <2>1, <3>2
      <4>3. QED
        BY <2>4, <3>1, <4>1, <4>2
    <3>3. CASE j = r
      <4>1. Part(lists[j], P) = lists[r]
        BY <1>4, <2>1, <3>3
      <4>2. Want(i) = <<>> /\ Want(j) = lists[r]
        BY <1>6, <2>1, <3>3
      <4>3. QED
        BY <2>4, <3>1, <4>1, <4>2
    <3>4. CASE j > r
      <4>1. Part(lists[j], P) = <<>>
        BY <1>4, <2>1, <3>4
      <4>2. Want(i) = lists[r] /\ Want(j) = lists[r]
        BY <1>6, <2>1, <3>4
      <4>3. QED
        BY <2>4, <3>1, <4>1, <4>2
    <3>5. QED
      BY <2>1, <3>2, <3>3, <3>4
  <2>6. QED
    BY <1>5, <2>1, <2>4, <2>5
<1>10. \A j \in 1 .. n : h[j] \in V[j]
  <2>1. 1 \in Int /\ n \in Int
    BY <1>1
  <2>2. QED
    BY <1>8, <1>9, <2>1, RecursionKeeps
<1>11. n \in 1 .. n /\ ~(n < r)
  BY DEF n
<1>12. h[n] \in V[n] /\ Want(n) = lists[r]
  BY <1>10, <1>11, <1>6
<1>13. QED
  BY <1>3, <1>5, <1>11, <1>12

\* The order that a stable sort makes of another: of equals the earlier comes
\* first.
Stably(n, before) ==
    { p \in (1 .. n) \X (1 .. n) : p \in before \/ (p[1] < p[2] /\ <<p[2], p[1]>> \notin before) }

LEMMA StableIsOrder ==
    ASSUME NEW n \in Nat, NEW before, IsOrder(n, before)
    PROVE  /\ IsOrder(n, Stably(n, before)) /\ IsStrict(1 .. n, Stably(n, before))
           /\ \A i, j \in 1 .. n : i = j \/ <<i, j>> \in Stably(n, before) \/ <<j, i>> \in Stably(n, before)
           /\ Ranks(n, before) = Ranks(n, Stably(n, before))
<1> DEFINE less == Stably(n, before)
<1>1. \A i, j \in 1 .. n : <<i, j>> \in less <=>
          <<i, j>> \in before \/ (i < j /\ <<j, i>> \notin before)
  BY DEF Stably
<1> HIDE DEF less
<1>2. /\ \A i \in 1 .. n : <<i, i>> \notin before
      /\ \A i, j, k \in 1 .. n : <<i, j>> \in before /\ <<j, k>> \in before => <<i, k>> \in before
      /\ \A i, j, k \in 1 .. n : <<i, k>> \in before => <<i, j>> \in before \/ <<j, k>> \in before
  BY DEF IsOrder
<1>3. \A i \in 1 .. n : <<i, i>> \notin less
  <2> TAKE i \in 1 .. n
  <2>1. <<i, i>> \notin before /\ ~(i < i)
    BY <1>2
  <2>2. QED
    BY <1>1, <2>1
<1>4. \A i, j \in 1 .. n : i = j \/ <<i, j>> \in less \/ <<j, i>> \in less
  <2> TAKE i, j \in 1 .. n
  <2>1. i = j \/ i < j \/ j < i
    OBVIOUS
  <2>2. QED
    BY <1>1, <2>1
<1>5. \A i, j \in 1 .. n : <<i, j>> \in less => <<j, i>> \notin less
  <2> TAKE i, j \in 1 .. n
  <2> HAVE <<i, j>> \in less
  <2>1. <<i, j>> \in before => <<j, i>> \notin before
    BY <1>2
  <2>2. i < j => ~(j < i)
    OBVIOUS
  <2>3. QED
    BY <1>1, <2>1, <2>2
<1>6. \A i, j, k \in 1 .. n : <<i, j>> \in less /\ <<j, k>> \in less => <<i, k>> \in less
  <2> TAKE i, j, k \in 1 .. n
  <2> HAVE <<i, j>> \in less /\ <<j, k>> \in less
  <2>1. CASE <<i, j>> \in before \/ <<j, k>> \in before
    <3>1. <<i, k>> \in before
      BY <1>1, <1>2, <2>1
    <3>2. QED
      BY <1>1, <3>1
  <2>2. CASE <<i, j>> \notin before /\ <<j, k>> \notin before
    <3>1. i < j /\ j < k /\ <<j, i>> \notin before /\ <<k, j>> \notin before
      BY <1>1, <2>2
    <3>2. i < k /\ <<k, i>> \notin before
      BY <1>2, <3>1
    <3>3. QED
      BY <1>1, <3>2
  <2>3. QED
    BY <2>1, <2>2
<1>7. IsStrict(1 .. n, less)
  BY <1>3, <1>6 DEF IsStrict
<1>8. \A i, j, k \in 1 .. n : <<i, k>> \in less => <<i, j>> \in less \/ <<j, k>> \in less
  BY <1>4, <1>6
<1>9. IsOrder(n, less)
  BY <1>3, <1>6, <1>8 DEF IsOrder
<1>10. Ranks(n, before) = Ranks(n, less)
  <2> DEFINE Down(i) == { j \in 1 .. n : <<j, i>> \in before \/ (j <= i /\ <<i, j>> \notin before) }
             Under(i) == { j \in 1 .. n : <<j, i>> \in less \/ (j <= i /\ <<i, j>> \notin less) }
  <2>1. \A i \in 1 .. n : Down(i) = Under(i)
    <3> TAKE i \in 1 .. n
    <3>1. ASSUME NEW j \in 1 .. n PROVE j \in Down(i) <=> j \in Under(i)
      <4>1. CASE j = i
        BY <1>3, <1>2, <4>1
      <4>2. CASE j # i
        <5>1. <<i, j>> \notin less <=> <<j, i>> \in less
          BY <1>4, <1>5, <4>2
        <5>2. j <= i <=> j < i
          BY <4>2
        <5>3. QED
          BY <1>1, <5>1, <5>2
      <4>3. QED
        BY <4>1, <4>2
    <3>2. QED
      BY <3>1
  <2>2. /\ Ranks(n, before) = [i \in 1 .. n |-> Cardinality(Down(i))]
        /\ Ranks(n, less) = [i \in 1 .. n |-> Cardinality(Under(i))]
    BY DEF Ranks
  <2> HIDE DEF Down, Under
  <2>3. QED
    BY <2>1, <2>2
<1>11. QED
  BY <1>4, <1>7, <1>9, <1>10 DEF less

\* A stable sort lists the places in that order.
LEMMA SortedIsEnumerated ==
    ASSUME NEW T, NEW s \in Seq(T), NEW before, IsOrder(Len(s), before)
    PROVE  LET sorted == ByRank(s, Ranks(Len(s), before))
           IN  /\ sorted \in Seq(T) /\ Len(sorted) = Len(s)
               /\ \E place : /\ IsEnumeration(place, Len(s), 1 .. Len(s), Stably(Len(s), before))
                             /\ \A k \in 1 .. Len(s) : sorted[k] = s[place[k]]
<1> DEFINE n == Len(s)
           less == Stably(n, before)
           sorted == ByRank(s, Ranks(n, less))
<1>1. n \in Nat
  OBVIOUS
<1>2. /\ IsOrder(n, less) /\ Ranks(n, before) = Ranks(n, less)
      /\ \A i, j \in 1 .. n : i = j \/ <<i, j>> \in less \/ <<j, i>> \in less
  BY <1>1, StableIsOrder
<1> HIDE DEF less
<1>3. /\ sorted \in Seq(T) /\ Len(sorted) = n
      /\ \E place : IsSorting(place, n, less) /\ \A k \in 1 .. n : sorted[k] = s[place[k]]
  BY <1>2, SortingIsPermutation
<1> HIDE DEF sorted
<1>4. PICK place : IsSorting(place, n, less) /\ \A k \in 1 .. n : sorted[k] = s[place[k]]
  BY <1>3
<1>5. /\ \A k \in 1 .. n : place[k] \in 1 .. n
      /\ \A k, l \in 1 .. n : place[k] = place[l] => k = l
      /\ \A i \in 1 .. n : \E k \in 1 .. n : place[k] = i
      /\ \A k, l \in 1 .. n : k < l => <<place[l], place[k]>> \notin less
  BY <1>4 DEF IsSorting
<1>6. \A k, l \in 1 .. n : k < l => <<place[k], place[l]>> \in less
  <2> TAKE k, l \in 1 .. n
  <2> HAVE k < l
  <2>1. place[k] \in 1 .. n /\ place[l] \in 1 .. n /\ place[k] # place[l] /\ <<place[l], place[k]>> \notin less
    <3>1. k # l
      OBVIOUS
    <3>2. QED
      BY <1>5, <3>1
  <2>2. QED
    BY <1>2, <2>1
<1>7. IsEnumeration(place, n, 1 .. n, less)
  BY <1>5, <1>6 DEF IsEnumeration
<1>8. QED
  BY <1>2, <1>3, <1>4, <1>7 DEF sorted, less

\* A list, sorted by a relation that ranks its elements.
Ordered(s, R) == { p \in (1 .. Len(s)) \X (1 .. Len(s)) : <<s[p[1]], s[p[2]]>> \in R }
Sorted(s, R) == ByRank(s, Ranks(Len(s), Ordered(s, R)))

IsRanking(T, R) ==
    /\ \A x \in T : <<x, x>> \notin R
    /\ \A x, y, z \in T : <<x, y>> \in R /\ <<y, z>> \in R => <<x, z>> \in R
    /\ \A x, y, z \in T : <<x, z>> \in R => <<x, y>> \in R \/ <<y, z>> \in R

\* A sorting, and how it lists the places.
SortsBy(w, s, R, place) ==
    /\ Len(w) = Len(s)
    /\ IsEnumeration(place, Len(s), 1 .. Len(s), Stably(Len(s), Ordered(s, R)))
    /\ \A k \in 1 .. Len(s) : w[k] = s[place[k]]

LEMMA RankingOrdersPlaces ==
    ASSUME NEW T, NEW R, IsRanking(T, R), NEW s \in Seq(T)
    PROVE  /\ IsOrder(Len(s), Ordered(s, R))
           /\ \A i, j \in 1 .. Len(s) : <<i, j>> \in Ordered(s, R) <=> <<s[i], s[j]>> \in R
<1> DEFINE n == Len(s)
<1>1. n \in Nat /\ \A i \in 1 .. n : s[i] \in T
  BY ElementOfSeq
<1>2. \A i, j \in 1 .. n : <<i, j>> \in Ordered(s, R) <=> <<s[i], s[j]>> \in R
  BY DEF Ordered
<1>3. /\ \A x \in T : <<x, x>> \notin R
      /\ \A x, y, z \in T : <<x, y>> \in R /\ <<y, z>> \in R => <<x, z>> \in R
      /\ \A x, y, z \in T : <<x, z>> \in R => <<x, y>> \in R \/ <<y, z>> \in R
  BY DEF IsRanking
<1> HIDE DEF n
<1>4. IsOrder(n, Ordered(s, R))
  <2>1. \A i \in 1 .. n : <<i, i>> \notin Ordered(s, R)
    BY <1>1, <1>2, <1>3
  <2>2. \A i, j, k \in 1 .. n :
            <<i, j>> \in Ordered(s, R) /\ <<j, k>> \in Ordered(s, R) => <<i, k>> \in Ordered(s, R)
    BY <1>1, <1>2, <1>3
  <2>3. \A i, j, k \in 1 .. n :
            <<i, k>> \in Ordered(s, R) => <<i, j>> \in Ordered(s, R) \/ <<j, k>> \in Ordered(s, R)
    BY <1>1, <1>2, <1>3
  <2>4. QED
    BY <2>1, <2>2, <2>3 DEF IsOrder
<1>5. QED
  BY <1>2, <1>4 DEF n

LEMMA SortedIsSorted ==
    ASSUME NEW T, NEW R, IsRanking(T, R), NEW s \in Seq(T)
    PROVE  Sorted(s, R) \in Seq(T) /\ \E place : SortsBy(Sorted(s, R), s, R, place)
<1> DEFINE n == Len(s)
           before == Ordered(s, R)
           sorted == ByRank(s, Ranks(n, before))
<1>1. IsOrder(n, before)
  BY RankingOrdersPlaces
<1> HIDE DEF before
<1>2. /\ sorted \in Seq(T) /\ Len(sorted) = n
      /\ \E place : /\ IsEnumeration(place, n, 1 .. n, Stably(n, before))
                    /\ \A k \in 1 .. n : sorted[k] = s[place[k]]
  BY <1>1, SortedIsEnumerated
<1> HIDE DEF sorted
<1>3. \E place : SortsBy(sorted, s, R, place)
  BY <1>2 DEF SortsBy, before
<1>4. QED
  BY <1>2, <1>3 DEF sorted, Sorted, before

\* A sorting has the same elements.
LEMMA SortedHasSame ==
    ASSUME NEW T, NEW R, IsRanking(T, R), NEW s \in Seq(T)
    PROVE  ToSet(Sorted(s, R)) = ToSet(s)
<1> DEFINE w == Sorted(s, R)
<1>1. w \in Seq(T) /\ \E place : SortsBy(w, s, R, place)
  BY SortedIsSorted
<1> HIDE DEF w
<1>2. PICK place : SortsBy(w, s, R, place)
  BY <1>1
<1>3. /\ DOMAIN w = 1 .. Len(s) /\ DOMAIN s = 1 .. Len(s)
      /\ \A k \in 1 .. Len(s) : place[k] \in 1 .. Len(s) /\ w[k] = s[place[k]]
      /\ \A i \in 1 .. Len(s) : \E k \in 1 .. Len(s) : place[k] = i
  BY <1>1, <1>2 DEF SortsBy, IsEnumeration
<1>4. \A k \in 1 .. Len(s) : \E i \in 1 .. Len(s) : w[k] = s[i]
  BY <1>3
<1>5. \A i \in 1 .. Len(s) : \E k \in 1 .. Len(s) : s[i] = w[k]
  BY <1>3
<1>6. ToSet(w) = ToSet(s)
  <2>1. IsTakenFrom(w, s) /\ IsTakenFrom(s, w)
    BY <1>3, <1>4, <1>5 DEF IsTakenFrom
  <2>2. QED
    BY <2>1, SameElements
<1>7. QED
  BY <1>6 DEF w

\* A part of a sorted list is the part, sorted.
LEMMA PartOfSorted ==
    ASSUME NEW T, NEW R, IsRanking(T, R), NEW s \in Seq(T), NEW P
    PROVE  /\ Sorted(s, R) \in Seq(T) /\ Part(s, P) \in Seq(T)
           /\ Part(Sorted(s, R), P) = Sorted(Part(s, P), R)
<1> DEFINE n == Len(s)
           less == Stably(n, Ordered(s, R))
           C == Chosen(s, P)
           S == Sorted(s, R)
           v == Part(s, P)
           x == Part(S, P)
           w == Sorted(v, R)
           m == Len(v)
           l == Len(x)
<1>1. S \in Seq(T) /\ \E place : SortsBy(S, s, R, place)
  BY SortedIsSorted
<1>2. v \in Seq(T) /\ \E at : IsPart(v, at, s, P)
  BY PartIsEnumerated
<1> HIDE DEF S, v
<1>3. x \in Seq(T) /\ \E at : IsPart(x, at, S, P)
  BY <1>1, PartIsEnumerated
<1>4. w \in Seq(T) /\ \E place : SortsBy(w, v, R, place)
  BY <1>2, SortedIsSorted
<1> HIDE DEF x, w
<1>5. PICK place : SortsBy(S, s, R, place)
  BY <1>1
<1>6. PICK at : IsPart(v, at, s, P)
  BY <1>2
<1>7. PICK pick : IsPart(x, pick, S, P)
  BY <1>3
<1>8. PICK rank : SortsBy(w, v, R, rank)
  BY <1>4
<1>9. /\ n \in Nat /\ m \in Nat /\ l \in Nat /\ DOMAIN s = 1 .. n /\ DOMAIN S = 1 .. n
      /\ DOMAIN v = 1 .. m
  BY <1>1, <1>2, <1>3, <1>5 DEF SortsBy
<1>10. /\ IsOrder(n, Ordered(s, R))
       /\ \A i, j \in 1 .. n : <<i, j>> \in Ordered(s, R) <=> <<s[i], s[j]>> \in R
  BY RankingOrdersPlaces
<1>11. \A i, j \in 1 .. m : <<i, j>> \in Ordered(v, R) <=> <<v[i], v[j]>> \in R
  BY <1>2, RankingOrdersPlaces
<1>12. \A i, j \in 1 .. n : <<i, j>> \in less <=>
           <<s[i], s[j]>> \in R \/ (i < j /\ <<s[j], s[i]>> \notin R)
  BY <1>10 DEF Stably
<1>13. IsStrict(1 .. n, less)
  BY <1>9, <1>10, StableIsOrder
<1>14. \A i : i \in C <=> i \in 1 .. n /\ s[i] \in P
  BY <1>9 DEF Chosen
<1>15. IsStrict(C, less)
  BY <1>13, <1>14 DEF IsStrict
<1>16. /\ \A k \in 1 .. n : place[k] \in 1 .. n /\ S[k] = s[place[k]]
       /\ \A k, j \in 1 .. n : k < j => <<place[k], place[j]>> \in less
       /\ \A i \in 1 .. n : \E k \in 1 .. n : place[k] = i
  BY <1>5 DEF SortsBy, IsEnumeration
<1>17. /\ \A k \in 1 .. m : at[k] \in C /\ v[k] = s[at[k]]
       /\ \A k, j \in 1 .. m : k < j => at[k] < at[j]
       /\ \A i \in C : \E k \in 1 .. m : at[k] = i
  BY <1>6 DEF IsPart, IsEnumeration, Earlier
<1>18. /\ \A k \in 1 .. l : pick[k] \in 1 .. n /\ S[pick[k]] \in P /\ x[k] = S[pick[k]]
       /\ \A k, j \in 1 .. l : k < j => pick[k] < pick[j]
       /\ \A i \in 1 .. n : S[i] \in P => \E k \in 1 .. l : pick[k] = i
  <2>1. Len(S) = n
    BY <1>5 DEF SortsBy
  <2>2. \A i : i \in Chosen(S, P) <=> i \in 1 .. n /\ S[i] \in P
    BY <1>9 DEF Chosen
  <2>3. /\ \A k \in 1 .. l : pick[k] \in Chosen(S, P) /\ x[k] = S[pick[k]]
        /\ \A k, j \in 1 .. l : k < j => pick[k] < pick[j]
        /\ \A i \in Chosen(S, P) : \E k \in 1 .. l : pick[k] = i
    BY <1>7, <2>1 DEF IsPart, IsEnumeration, Earlier
  <2>4. QED
    BY <2>2, <2>3
<1>19. /\ Len(w) = m
       /\ \A k \in 1 .. m : rank[k] \in 1 .. m /\ w[k] = v[rank[k]]
       /\ \A k, j \in 1 .. m : k < j =>
              \/ <<v[rank[k]], v[rank[j]]>> \in R
              \/ rank[k] < rank[j] /\ <<v[rank[j]], v[rank[k]]>> \notin R
       /\ \A i \in 1 .. m : \E k \in 1 .. m : rank[k] = i
  <2>1. \A i, j \in 1 .. m : <<i, j>> \in Stably(m, Ordered(v, R)) <=>
            <<v[i], v[j]>> \in R \/ (i < j /\ <<v[j], v[i]>> \notin R)
    BY <1>11 DEF Stably
  <2>2. /\ Len(w) = m
        /\ \A k \in 1 .. m : rank[k] \in 1 .. m /\ w[k] = v[rank[k]]
        /\ \A k, j \in 1 .. m : k < j => <<rank[k], rank[j]>> \in Stably(m, Ordered(v, R))
        /\ \A i \in 1 .. m : \E k \in 1 .. m : rank[k] = i
    BY <1>8 DEF SortsBy, IsEnumeration
  <2>3. QED
    BY <2>1, <2>2
<1> DEFINE f == [k \in 1 .. l |-> place[pick[k]]]
           g == [k \in 1 .. m |-> at[rank[k]]]
<1>20. \A k \in 1 .. l : f[k] = place[pick[k]]
  OBVIOUS
<1>21. \A k \in 1 .. m : g[k] = at[rank[k]]
  OBVIOUS
<1> HIDE DEF n, m, l, less, C, f, g
<1>22. IsEnumeration(f, l, C, less)
  <2>1. \A k \in 1 .. l : f[k] \in C
    BY <1>14, <1>16, <1>18, <1>20
  <2>2. \A k, j \in 1 .. l : k < j => <<f[k], f[j]>> \in less
    <3> TAKE k, j \in 1 .. l
    <3> HAVE k < j
    <3>1. pick[k] \in 1 .. n /\ pick[j] \in 1 .. n /\ pick[k] < pick[j]
      BY <1>18
    <3>2. <<place[pick[k]], place[pick[j]]>> \in less
      BY <1>16, <3>1
    <3>3. QED
      BY <1>20, <3>2
  <2>3. ASSUME NEW i \in C PROVE \E k \in 1 .. l : f[k] = i
    <3>1. i \in 1 .. n /\ s[i] \in P
      BY <1>14
    <3>2. PICK k \in 1 .. n : place[k] = i
      BY <1>16, <3>1
    <3>3. S[k] \in P
      BY <1>16, <3>1, <3>2
    <3>4. PICK j \in 1 .. l : pick[j] = k
      BY <1>18, <3>3
    <3>5. f[j] = i
      BY <1>20, <3>2, <3>4
    <3>6. QED
      BY <3>5
  <2>4. QED
    BY <2>1, <2>2, <2>3 DEF IsEnumeration
<1>23. IsEnumeration(g, m, C, less)
  <2>1. ASSUME NEW k \in 1 .. m PROVE g[k] \in C /\ g[k] \in 1 .. n
    <3>1. rank[k] \in 1 .. m /\ g[k] = at[rank[k]]
      BY <1>19, <1>21
    <3>2. at[rank[k]] \in C
      BY <1>17, <3>1
    <3>3. QED
      BY <1>14, <3>1, <3>2
  <2>2. ASSUME NEW k \in 1 .. m, NEW j \in 1 .. m, k < j PROVE <<g[k], g[j]>> \in less
    <3>1. /\ rank[k] \in 1 .. m /\ rank[j] \in 1 .. m
          /\ \/ <<v[rank[k]], v[rank[j]]>> \in R
             \/ rank[k] < rank[j] /\ <<v[rank[j]], v[rank[k]]>> \notin R
      BY <1>19, <2>2
    <3>2. v[rank[k]] = s[g[k]] /\ v[rank[j]] = s[g[j]]
      BY <1>17, <1>21, <3>1
    <3>3. rank[k] < rank[j] => g[k] < g[j]
      BY <1>17, <1>21, <3>1
    <3>4. QED
      BY <1>12, <2>1, <3>1, <3>2, <3>3
  <2>3. ASSUME NEW i \in C PROVE \E k \in 1 .. m : g[k] = i
    <3>1. PICK j \in 1 .. m : at[j] = i
      BY <1>17
    <3>2. PICK k \in 1 .. m : rank[k] = j
      BY <1>19
    <3>3. QED
      BY <1>21, <3>1, <3>2
  <2>4. QED
    BY <2>1, <2>2, <2>3 DEF IsEnumeration
<1>24. l = m /\ \A k \in 1 .. l : f[k] = g[k]
  BY <1>9, <1>15, <1>22, <1>23, EnumerationIsUnique
<1>25. Len(x) = Len(w) /\ \A k \in 1 .. Len(x) : x[k] = w[k]
  <2>1. Len(x) = l
    BY DEF l
  <2>2. \A k \in 1 .. l : x[k] = s[f[k]]
    <3> TAKE k \in 1 .. l
    <3>1. pick[k] \in 1 .. n /\ x[k] = S[pick[k]]
      BY <1>18
    <3>2. S[pick[k]] = s[place[pick[k]]]
      BY <1>16, <3>1
    <3>3. QED
      BY <1>20, <3>1, <3>2
  <2>3. \A k \in 1 .. m : w[k] = s[g[k]]
    <3> TAKE k \in 1 .. m
    <3>1. rank[k] \in 1 .. m /\ w[k] = v[rank[k]]
      BY <1>19
    <3>2. v[rank[k]] = s[at[rank[k]]]
      BY <1>17, <3>1
    <3>3. QED
      BY <1>21, <3>1, <3>2
  <2>4. \A k \in 1 .. l : x[k] = w[k]
    BY <1>24, <2>2, <2>3
  <2>5. QED
    BY <1>19, <1>24, <2>1, <2>4
<1>26. x = w
  BY <1>3, <1>4, <1>25, SameLists
<1>27. QED
  BY <1>1, <1>2, <1>26 DEF x, w, S, v

\* Two runs that begin alike, go on alike from states that are alike, and end
\* alike.
RunAlike(f, m, g, n) ==
    /\ f[0] = g[0]
    /\ \A k \in Nat : (k < m /\ k < n /\ f[k] = g[k]) => f[k + 1] = g[k + 1]
    /\ \A k \in Nat : (k <= m /\ k <= n /\ f[k] = g[k]) => (k = m <=> k = n)

\* Such runs are the same.
LEMMA RunsAreTheSame ==
    ASSUME NEW m \in Nat, NEW n \in Nat, NEW f, NEW g, RunAlike(f, m, g, n)
    PROVE  m = n /\ f[m] = g[n]
<1> USE DEF RunAlike
<1> DEFINE P == { k \in Nat : (k <= m /\ k <= n) => f[k] = g[k] }
<1>1. 0 \in P
  OBVIOUS
<1>2. \A k \in Nat : k \in P => k + 1 \in P
  <2> TAKE k \in Nat
  <2> HAVE k \in P
  <2> DEFINE j == k + 1
  <2>1. (j <= m /\ j <= n) => f[j] = g[j]
    <3>1. j <= m /\ j <= n => k < m /\ k < n /\ k <= m /\ k <= n
      OBVIOUS
    <3>2. QED
      BY <3>1
  <2>2. j \in Nat
    OBVIOUS
  <2> HIDE DEF j
  <2>3. j \in P
    BY <2>1, <2>2
  <2>4. QED
    BY <2>3 DEF j
<1>3. Nat \subseteq P
  <2> HIDE DEF P
  <2>1. QED
    BY <1>1, <1>2, SetInduction
<1>4. \A k \in Nat : k <= m /\ k <= n => f[k] = g[k]
  BY <1>3
<1>5. m = n
  <2>1. CASE m <= n
    BY <1>4, <2>1
  <2>2. CASE n <= m
    BY <1>4, <2>2
  <2>3. QED
    BY <2>1, <2>2
<1>6. QED
  BY <1>4, <1>5
=============================================================================
