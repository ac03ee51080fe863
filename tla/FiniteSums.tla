----------------------------- MODULE FiniteSums -----------------------------
(***************************************************************************)
(* What the proofs need of SumFunctionOnSet: it is well defined over a     *)
(* finite set, its elements may be taken in any order, and it follows the  *)
(* values of the function.  The recursion behind it is CHOOSEn, so that    *)
(* its existence and uniqueness come first, by induction on the size of    *)
(* the set; induction comes from the least counterexample.                 *)
(***************************************************************************)
EXTENDS Integers, FiniteSets, Functions, FiniteSetTheorems, WellFoundedInduction, TLAPS

\* A set of natural numbers that is not empty has a least one.
LEMMA LeastNatural ==
    ASSUME NEW T \in SUBSET Nat, T # {}
    PROVE  \E n \in T : \A m \in T : n <= m
<1>1. IsWellFoundedOn(OpToRel(<, Nat), Nat)
  BY NatLessThanWellFounded
<1>2. PICK n \in T : \A m \in T : ~(<<m, n>> \in OpToRel(<, Nat))
  BY <1>1, WFMin
<1>3. \A m \in T : ~(m < n)
  BY <1>2 DEF OpToRel
<1>4. n \in Nat /\ \A m \in T : m \in Nat
  OBVIOUS
<1>5. n \in T /\ \A m \in T : n <= m
  BY <1>3, <1>4
<1> QED
  BY <1>5

\* A set of natural numbers with 0 and every successor has all of them.
LEMMA Induction ==
    ASSUME NEW T, 0 \in T, \A n \in Nat : n \in T => n + 1 \in T
    PROVE  Nat \subseteq T
<1> SUFFICES ASSUME Nat \ T # {}
             PROVE  FALSE
  OBVIOUS
<1>1. PICK n \in Nat \ T : \A m \in Nat \ T : n <= m
  BY LeastNatural
<1>2. n # 0 /\ n - 1 \in Nat
  BY <1>1
<1>3. n - 1 \in T
  BY <1>1, <1>2
<1> QED
  BY <1>1, <1>2, <1>3

\* The recursion behind SumFunctionOnSet.
Chosen(s) == CHOOSE x \in s : TRUE
IsSum(sum, f, D) ==
    sum = [s \in D |->
              IF s = {} THEN 0 ELSE f[Chosen(s)] + sum[s \ {Chosen(s)}]]

\* The sum of the library is this recursion at the whole set.
LEMMA SumUnfolds ==
    ASSUME NEW f, NEW S
    PROVE  SumFunctionOnSet(f, S) = (CHOOSE sum : IsSum(sum, f, SUBSET S))[S]
BY DEF SumFunctionOnSet, FoldFunctionOnSet, MapThenFoldSet, IsSum, Chosen

\* What is chosen from a set is of the set.
LEMMA ChosenIsElement ==
    ASSUME NEW s, s # {}
    PROVE  Chosen(s) \in s
BY DEF Chosen

\* The subsets of at most n elements.
Smaller(S, n) == {s \in SUBSET S : Cardinality(s) <= n}

\* A subset without its chosen element is one smaller.
LEMMA SmallerByOne ==
    ASSUME NEW S, IsFiniteSet(S), NEW s \in SUBSET S, s # {}
    PROVE  /\ IsFiniteSet(s) /\ Cardinality(s) \in Nat \ {0}
           /\ Cardinality(s \ {Chosen(s)}) = Cardinality(s) - 1
           /\ s \ {Chosen(s)} \in SUBSET S
<1>1. IsFiniteSet(s) /\ Cardinality(s) \in Nat
  BY FS_Subset, FS_CardinalityType
<1>2. Cardinality(s) # 0
  BY <1>1, FS_EmptySet
<1> QED
  BY <1>1, <1>2, ChosenIsElement, FS_RemoveElement

\* The only subset of 0 elements is the empty one.
LEMMA SmallestIsEmpty ==
    ASSUME NEW S, IsFiniteSet(S)
    PROVE  \A s \in Smaller(S, 0) : s = {}
<1> SUFFICES ASSUME NEW s \in Smaller(S, 0), s # {}
             PROVE  FALSE
  OBVIOUS
<1>1. s \in SUBSET S /\ Cardinality(s) <= 0
  BY DEF Smaller
<1>2. Cardinality(s) \in Nat \ {0}
  BY <1>1, SmallerByOne
<1> QED
  BY <1>1, <1>2

\* The recursion has a solution over the subsets of a finite set.
LEMMA SumExists ==
    ASSUME NEW f, NEW S, IsFiniteSet(S)
    PROVE  \E sum : IsSum(sum, f, SUBSET S)
<1> DEFINE T == {n \in Nat : \E sum : IsSum(sum, f, Smaller(S, n))}
<1>1. 0 \in T
  <2>1. \A s \in Smaller(S, 0) : s = {}
    BY SmallestIsEmpty
  <2>2. IsSum([s \in Smaller(S, 0) |-> 0], f, Smaller(S, 0))
    BY <2>1 DEF IsSum
  <2> QED
    BY <2>2
<1>2. ASSUME NEW n \in Nat, n \in T
      PROVE  n + 1 \in T
  <2>1. PICK sum : IsSum(sum, f, Smaller(S, n))
    BY <1>2
  <2> DEFINE next == [s \in Smaller(S, n + 1) |->
                         IF s = {} THEN 0 ELSE f[Chosen(s)] + sum[s \ {Chosen(s)}]]
  <2>2. \A s \in Smaller(S, n) : s \in Smaller(S, n + 1)
    <3> TAKE s \in Smaller(S, n)
    <3>1. Cardinality(s) \in Nat
      BY FS_Subset, FS_CardinalityType DEF Smaller
    <3> QED
      BY <3>1 DEF Smaller
  <2>3. \A s \in Smaller(S, n) : next[s] = sum[s]
    BY <2>1, <2>2 DEF IsSum
  <2>4. \A s \in Smaller(S, n + 1) : s # {} => s \ {Chosen(s)} \in Smaller(S, n)
    BY SmallerByOne DEF Smaller
  <2>5. IsSum(next, f, Smaller(S, n + 1))
    BY <2>3, <2>4 DEF IsSum
  <2> QED
    BY <2>5
<1>3. Cardinality(S) \in T
  <2>1. Nat \subseteq T
    <3> HIDE DEF T
    <3> QED
      BY <1>1, <1>2, Induction
  <2> QED
    BY <2>1, FS_CardinalityType
<1>4. Smaller(S, Cardinality(S)) = SUBSET S
  BY FS_Subset DEF Smaller
<1> QED
  BY <1>3, <1>4

\* Two solutions on two domains agree where both are defined.
LEMMA SumIsUnique ==
    ASSUME NEW f, NEW S, NEW g, NEW R, IsFiniteSet(S), S \subseteq R, IsFiniteSet(R),
           \A x \in S : f[x] = g[x],
           NEW sum, IsSum(sum, f, SUBSET S), NEW other, IsSum(other, g, SUBSET R)
    PROVE  \A s \in SUBSET S : sum[s] = other[s]
<1> DEFINE T == {n \in Nat : \A s \in Smaller(S, n) : sum[s] = other[s]}
<1>1. 0 \in T
  <2>1. \A s \in Smaller(S, 0) : s = {} /\ s \in SUBSET S /\ s \in SUBSET R
    BY SmallestIsEmpty DEF Smaller
  <2> QED
    BY <2>1 DEF IsSum
<1>2. ASSUME NEW n \in Nat, n \in T
      PROVE  n + 1 \in T
  <2> SUFFICES ASSUME NEW s \in Smaller(S, n + 1)
               PROVE  sum[s] = other[s]
    OBVIOUS
  <2>1. s \in SUBSET S /\ s \in SUBSET R
    BY DEF Smaller
  <2>2. CASE s = {}
    BY <2>1, <2>2 DEF IsSum
  <2>3. CASE s # {}
    <3>1. s \ {Chosen(s)} \in Smaller(S, n)
      BY <2>1, <2>3, SmallerByOne DEF Smaller
    <3>2. sum[s \ {Chosen(s)}] = other[s \ {Chosen(s)}]
      BY <1>2, <3>1
    <3>3. f[Chosen(s)] = g[Chosen(s)]
      BY <2>1, <2>3, ChosenIsElement
    <3>4. /\ sum[s] = f[Chosen(s)] + sum[s \ {Chosen(s)}]
          /\ other[s] = g[Chosen(s)] + other[s \ {Chosen(s)}]
      BY <2>1, <2>3 DEF IsSum
    <3> QED
      BY <3>2, <3>3, <3>4
  <2> QED
    BY <2>2, <2>3
<1>3. Nat \subseteq T
  <2> HIDE DEF T
  <2> QED
    BY <1>1, <1>2, Induction
<1>4. \A s \in SUBSET S : Cardinality(s) \in Nat /\ s \in Smaller(S, Cardinality(s))
  BY FS_Subset, FS_CardinalityType DEF Smaller
<1> QED
  BY <1>3, <1>4

\* The recursion over fewer subsets has the values of the one over more.
LEMMA SumRestricts ==
    ASSUME NEW f, NEW S, IsFiniteSet(S), NEW s \in SUBSET S,
           NEW part, IsSum(part, f, SUBSET s), NEW whole, IsSum(whole, f, SUBSET S)
    PROVE  part[s] = whole[s]
<1>1. \A x \in s : f[x] = f[x]
  OBVIOUS
<1>2. s \subseteq S /\ IsFiniteSet(s) /\ s \in SUBSET s
  BY FS_Subset
<1>3. \A t \in SUBSET s : part[t] = whole[t]
  BY <1>1, <1>2, SumIsUnique
<1> QED
  BY <1>2, <1>3

\* The solution of the recursion.
SumOf(f, S) == CHOOSE sum : IsSum(sum, f, SUBSET S)

\* SumOf solves the recursion, and the library's sum is its value.
LEMMA SumIsSum ==
    ASSUME NEW f, NEW S, IsFiniteSet(S)
    PROVE  /\ IsSum(SumOf(f, S), f, SUBSET S)
           /\ SumFunctionOnSet(f, S) = SumOf(f, S)[S]
BY SumExists, SumUnfolds DEF SumOf

\* Equal functions have equal sums.
LEMMA SumOfEqual ==
    ASSUME NEW f, NEW g, NEW S, IsFiniteSet(S), \A x \in S : f[x] = g[x]
    PROVE  SumFunctionOnSet(f, S) = SumFunctionOnSet(g, S)
<1>1. IsSum(SumOf(f, S), f, SUBSET S) /\ IsSum(SumOf(g, S), g, SUBSET S)
  BY SumIsSum
<1>2. \A s \in SUBSET S : SumOf(f, S)[s] = SumOf(g, S)[s]
  <2> HIDE DEF SumOf
  <2> QED
    BY <1>1, SumIsUnique
<1>3. SumOf(f, S)[S] = SumOf(g, S)[S]
  BY <1>2
<1> QED
  BY <1>3, SumIsSum

\* The sum over a subset is a value of the recursion over the whole.
LEMMA SumOfSubset ==
    ASSUME NEW f, NEW S, IsFiniteSet(S), NEW s \in SUBSET S
    PROVE  SumFunctionOnSet(f, s) = SumOf(f, S)[s]
<1>1. IsFiniteSet(s)
  BY FS_Subset
<1>2. IsSum(SumOf(f, s), f, SUBSET s) /\ IsSum(SumOf(f, S), f, SUBSET S)
  BY <1>1, SumIsSum
<1>3. \A part, whole : IsSum(part, f, SUBSET s) /\ IsSum(whole, f, SUBSET S)
                            => part[s] = whole[s]
  BY SumRestricts
<1>4. SumOf(f, s)[s] = SumOf(f, S)[s]
  BY <1>2, <1>3
<1> QED
  BY <1>1, <1>4, SumIsSum

\* The sum over nothing is 0.
LEMMA SumOfNone ==
    ASSUME NEW f
    PROVE  SumFunctionOnSet(f, {}) = 0
<1>1. IsSum(SumOf(f, {}), f, SUBSET {}) /\ SumFunctionOnSet(f, {}) = SumOf(f, {})[{}]
  BY SumIsSum, FS_EmptySet
<1>2. {} \in SUBSET {}
  OBVIOUS
<1>3. SumOf(f, {})[{}] = 0
  BY <1>1, <1>2 DEF IsSum
<1> QED
  BY <1>1, <1>3

\* The chosen element is summed first.
LEMMA SumOfChosen ==
    ASSUME NEW f, NEW S, IsFiniteSet(S), S # {}
    PROVE  SumFunctionOnSet(f, S)
               = f[Chosen(S)] + SumFunctionOnSet(f, S \ {Chosen(S)})
<1>1. SumFunctionOnSet(f, S \ {Chosen(S)}) = SumOf(f, S)[S \ {Chosen(S)}]
  BY SumOfSubset
<1>2. IsSum(SumOf(f, S), f, SUBSET S) /\ SumFunctionOnSet(f, S) = SumOf(f, S)[S]
  BY SumIsSum
<1>3. SumOf(f, S)[S] = f[Chosen(S)] + SumOf(f, S)[S \ {Chosen(S)}]
  BY <1>2 DEF IsSum
<1> QED
  BY <1>1, <1>2, <1>3

\* A sum of integers is an integer.
LEMMA SumType ==
    ASSUME NEW f, NEW S, IsFiniteSet(S), \A x \in S : f[x] \in Int
    PROVE  SumFunctionOnSet(f, S) \in Int
<1> DEFINE T == {n \in Nat : \A s \in Smaller(S, n) : SumFunctionOnSet(f, s) \in Int}
<1>1. 0 \in T
  <2>1. \A s \in Smaller(S, 0) : s = {}
    BY SmallestIsEmpty
  <2>2. SumFunctionOnSet(f, {}) \in Int
    BY SumOfNone
  <2> QED
    BY <2>1, <2>2
<1>2. ASSUME NEW n \in Nat, n \in T
      PROVE  n + 1 \in T
  <2> SUFFICES ASSUME NEW s \in Smaller(S, n + 1)
               PROVE  SumFunctionOnSet(f, s) \in Int
    OBVIOUS
  <2>1. s \in SUBSET S /\ IsFiniteSet(s)
    BY FS_Subset DEF Smaller
  <2>2. CASE s = {}
    BY <2>2, SumOfNone
  <2>3. CASE s # {}
    <3>1. s \ {Chosen(s)} \in Smaller(S, n)
      BY <2>1, <2>3, SmallerByOne DEF Smaller
    <3>2. SumFunctionOnSet(f, s \ {Chosen(s)}) \in Int
      BY <1>2, <3>1
    <3>3. f[Chosen(s)] \in Int
      BY <2>1, <2>3, ChosenIsElement
    <3> QED
      BY <2>1, <2>3, <3>2, <3>3, SumOfChosen
  <2> QED
    BY <2>2, <2>3
<1>3. Nat \subseteq T
  <2> HIDE DEF T
  <2> QED
    BY <1>1, <1>2, Induction
<1>4. Cardinality(S) \in Nat /\ S \in Smaller(S, Cardinality(S))
  BY FS_CardinalityType DEF Smaller
<1> QED
  BY <1>3, <1>4

\* Any element may be taken out of a sum first.
LEMMA SumTakesOut ==
    ASSUME NEW f, NEW S, IsFiniteSet(S), \A x \in S : f[x] \in Int
    PROVE  \A x \in S : SumFunctionOnSet(f, S) = f[x] + SumFunctionOnSet(f, S \ {x})
<1> DEFINE T == {n \in Nat : \A s \in Smaller(S, n) : \A x \in s :
                    SumFunctionOnSet(f, s) = f[x] + SumFunctionOnSet(f, s \ {x})}
<1>1. 0 \in T
  BY SmallestIsEmpty
<1>2. ASSUME NEW n \in Nat, n \in T
      PROVE  n + 1 \in T
  <2> SUFFICES ASSUME NEW s \in Smaller(S, n + 1), NEW x \in s
               PROVE  SumFunctionOnSet(f, s) = f[x] + SumFunctionOnSet(f, s \ {x})
    OBVIOUS
  <2>1. s \in SUBSET S /\ IsFiniteSet(s) /\ s # {}
    BY FS_Subset DEF Smaller
  <2>2. PICK c \in s : c = Chosen(s)
    BY <2>1, ChosenIsElement
  <2>3. SumFunctionOnSet(f, s) = f[c] + SumFunctionOnSet(f, s \ {c})
    BY <2>1, <2>2, SumOfChosen
  <2>4. CASE x = c
    BY <2>3, <2>4
  <2>5. CASE x # c
    <3>1. Cardinality(s \ {x}) = Cardinality(s) - 1 /\ Cardinality(s \ {c}) = Cardinality(s) - 1
          /\ Cardinality(s) \in Nat
      BY <2>1, FS_RemoveElement, FS_CardinalityType
    <3>2. s \ {x} \in Smaller(S, n) /\ s \ {c} \in Smaller(S, n)
      BY <2>1, <3>1 DEF Smaller
    <3>3. c \in s \ {x} /\ x \in s \ {c} /\ (s \ {x}) \ {c} = (s \ {c}) \ {x}
      BY <2>5
    <3>4. SumFunctionOnSet(f, s \ {x}) = f[c] + SumFunctionOnSet(f, (s \ {x}) \ {c})
      BY <1>2, <3>2, <3>3
    <3>5. SumFunctionOnSet(f, s \ {c}) = f[x] + SumFunctionOnSet(f, (s \ {c}) \ {x})
      BY <1>2, <3>2, <3>3
    <3>6. SumFunctionOnSet(f, (s \ {c}) \ {x}) \in Int
      <4>1. IsFiniteSet((s \ {c}) \ {x}) /\ (s \ {c}) \ {x} \subseteq S
        BY <2>1, FS_RemoveElement
      <4> QED
        BY <4>1, SumType
    <3>7. f[x] \in Int /\ f[c] \in Int
      BY <2>1
    <3>8. PICK rest \in Int : rest = SumFunctionOnSet(f, (s \ {c}) \ {x})
      BY <3>6
    <3>9. /\ SumFunctionOnSet(f, s) = f[c] + (f[x] + rest)
          /\ SumFunctionOnSet(f, s \ {x}) = f[c] + rest
      BY <2>3, <3>3, <3>4, <3>5, <3>8
    <3> QED
      BY <3>7, <3>9
  <2> QED
    BY <2>4, <2>5
<1>3. Nat \subseteq T
  <2> HIDE DEF T
  <2> QED
    BY <1>1, <1>2, Induction
<1>4. Cardinality(S) \in Nat /\ S \in Smaller(S, Cardinality(S))
  BY FS_CardinalityType DEF Smaller
<1> QED
  BY <1>3, <1>4

\* A new element adds its value to the sum.
LEMMA SumAdds ==
    ASSUME NEW f, NEW S, IsFiniteSet(S), NEW x, x \notin S, \A y \in S \cup {x} : f[y] \in Int
    PROVE  SumFunctionOnSet(f, S \cup {x}) = f[x] + SumFunctionOnSet(f, S)
<1>1. IsFiniteSet(S \cup {x}) /\ (S \cup {x}) \ {x} = S
  BY FS_AddElement
<1> QED
  BY <1>1, SumTakesOut

\* The sum of a function that is extended by one element.
LEMMA SumGrows ==
    ASSUME NEW f, NEW g, IsFiniteSet(DOMAIN f), NEW x, x \notin DOMAIN f,
           DOMAIN g = DOMAIN f \cup {x}, g[x] \in Int,
           \A y \in DOMAIN f : f[y] \in Int /\ g[y] = f[y]
    PROVE  SumFunction(f) \in Int /\ SumFunction(g) = SumFunction(f) + g[x]
<1> DEFINE S == DOMAIN f
<1>1. SumFunctionOnSet(f, S) \in Int
  BY SumType
<1>2. SumFunctionOnSet(g, S) = SumFunctionOnSet(f, S)
  BY SumOfEqual
<1>3. SumFunctionOnSet(g, S \cup {x}) = g[x] + SumFunctionOnSet(g, S)
  <2>1. \A y \in S \cup {x} : g[y] \in Int
    OBVIOUS
  <2> QED
    BY <2>1, SumAdds
<1> QED
  BY <1>1, <1>2, <1>3 DEF SumFunction

\* The sum of a function that is changed at one element.
LEMMA SumChanges ==
    ASSUME NEW f, NEW g, NEW S, IsFiniteSet(S), NEW x \in S,
           \A y \in S : f[y] \in Int /\ g[y] \in Int,
           \A y \in S \ {x} : g[y] = f[y]
    PROVE  /\ SumFunctionOnSet(f, S) \in Int
           /\ SumFunctionOnSet(g, S) = SumFunctionOnSet(f, S) + g[x] - f[x]
<1> DEFINE R == S \ {x}
<1>1. IsFiniteSet(R)
  BY FS_RemoveElement
<1>2. SumFunctionOnSet(g, R) = SumFunctionOnSet(f, R)
  BY <1>1, SumOfEqual
<1>3. SumFunctionOnSet(f, R) \in Int
  BY <1>1, SumType
<1>4. SumFunctionOnSet(f, S) = f[x] + SumFunctionOnSet(f, R)
  BY SumTakesOut
<1>5. SumFunctionOnSet(g, S) = g[x] + SumFunctionOnSet(g, R)
  BY SumTakesOut
<1> HIDE DEF R
<1>6. PICK rest \in Int : rest = SumFunctionOnSet(f, R)
  BY <1>3
<1> QED
  BY <1>2, <1>4, <1>5, <1>6

\* The sum of values within bounds.
LEMMA SumBounds ==
    ASSUME NEW f, NEW S, IsFiniteSet(S), NEW n \in Nat, \A x \in S : f[x] \in 0..n
    PROVE  SumFunctionOnSet(f, S) \in Nat /\ SumFunctionOnSet(f, S) <= n * Cardinality(S)
<1> DEFINE T == {m \in Nat : \A s \in Smaller(S, m) :
                    /\ SumFunctionOnSet(f, s) \in Nat
                    /\ SumFunctionOnSet(f, s) <= n * Cardinality(s)}
<1>1. 0 \in T
  <2>1. \A s \in Smaller(S, 0) : s = {}
    BY SmallestIsEmpty
  <2>2. /\ SumFunctionOnSet(f, {}) \in Nat
        /\ SumFunctionOnSet(f, {}) <= n * Cardinality({})
    BY SumOfNone, FS_EmptySet
  <2> QED
    BY <2>1, <2>2
<1>2. ASSUME NEW m \in Nat, m \in T
      PROVE  m + 1 \in T
  <2> SUFFICES ASSUME NEW s \in Smaller(S, m + 1)
               PROVE  /\ SumFunctionOnSet(f, s) \in Nat
                      /\ SumFunctionOnSet(f, s) <= n * Cardinality(s)
    OBVIOUS
  <2>1. s \in SUBSET S
    BY DEF Smaller
  <2>2. CASE s = {}
    BY <2>2, SumOfNone, FS_EmptySet
  <2>3. CASE s # {}
    <3>1. PICK c \in s : c = Chosen(s)
      BY <2>3, ChosenIsElement
    <3>2. PICK k \in Nat : k = Cardinality(s \ {c})
      BY <2>1, FS_Subset, FS_CardinalityType
    <3>3. Cardinality(s) = k + 1 /\ s \ {c} \in Smaller(S, m)
      BY <2>1, <2>3, <3>1, <3>2, SmallerByOne DEF Smaller
    <3>4. PICK rest \in Nat : rest = SumFunctionOnSet(f, s \ {c}) /\ rest <= n * k
      BY <1>2, <3>2, <3>3
    <3>5. SumFunctionOnSet(f, s) = f[c] + rest
      BY <2>1, <2>3, <3>1, <3>4, SumOfChosen, FS_Subset
    <3>6. f[c] \in Nat /\ f[c] <= n
      BY <2>1
    <3>7. n * (k + 1) = n * k + n /\ n * k \in Nat
      OBVIOUS
    <3> QED
      BY <3>3, <3>4, <3>5, <3>6, <3>7
  <2> QED
    BY <2>2, <2>3
<1>3. Nat \subseteq T
  <2> HIDE DEF T
  <2> QED
    BY <1>1, <1>2, Induction
<1>4. Cardinality(S) \in Nat /\ S \in Smaller(S, Cardinality(S))
  BY FS_CardinalityType DEF Smaller
<1> QED
  BY <1>3, <1>4

\* The sum of a function that is 1 on a part of a set and 0 elsewhere counts
\* the part.
LEMMA SumCounts ==
    ASSUME NEW f, NEW S, IsFiniteSet(S), NEW P \in SUBSET S,
           \A x \in P : f[x] = 1, \A x \in S \ P : f[x] = 0
    PROVE  SumFunctionOnSet(f, S) = Cardinality(P)
<1> DEFINE T == {m \in Nat : \A s \in Smaller(S, m) :
                    SumFunctionOnSet(f, s) = Cardinality(P \cap s)}
<1>1. 0 \in T
  <2>1. \A s \in Smaller(S, 0) : s = {}
    BY SmallestIsEmpty
  <2>2. SumFunctionOnSet(f, {}) = Cardinality({}) /\ P \cap {} = {}
    BY SumOfNone, FS_EmptySet
  <2> QED
    BY <2>1, <2>2
<1>2. ASSUME NEW m \in Nat, m \in T
      PROVE  m + 1 \in T
  <2> SUFFICES ASSUME NEW s \in Smaller(S, m + 1)
               PROVE  SumFunctionOnSet(f, s) = Cardinality(P \cap s)
    OBVIOUS
  <2>1. s \in SUBSET S /\ IsFiniteSet(s)
    BY FS_Subset DEF Smaller
  <2>2. CASE s = {}
    <3>1. P \cap s = {}
      BY <2>2
    <3> QED
      BY <2>2, <3>1, SumOfNone, FS_EmptySet
  <2>3. CASE s # {}
    <3>1. PICK c \in s : c = Chosen(s)
      BY <2>3, ChosenIsElement
    <3>2. s \ {c} \in Smaller(S, m)
      BY <2>1, <2>3, <3>1, SmallerByOne DEF Smaller
    <3>3. SumFunctionOnSet(f, s \ {c}) = Cardinality(P \cap (s \ {c}))
      BY <1>2, <3>2
    <3>4. SumFunctionOnSet(f, s) = f[c] + Cardinality(P \cap (s \ {c}))
      BY <2>1, <2>3, <3>1, <3>3, SumOfChosen
    <3>5. IsFiniteSet(P \cap s) /\ Cardinality(P \cap s) \in Nat
      BY <2>1, FS_Subset, FS_CardinalityType
    <3>6. CASE c \in P
      <4>1. P \cap (s \ {c}) = (P \cap s) \ {c} /\ c \in P \cap s
        BY <3>6
      <4>2. Cardinality((P \cap s) \ {c}) = Cardinality(P \cap s) - 1
        BY <3>5, <4>1, FS_RemoveElement
      <4> QED
        BY <3>4, <3>5, <3>6, <4>1, <4>2
    <3>7. CASE c \notin P
      <4>1. P \cap (s \ {c}) = P \cap s
        BY <3>7
      <4>2. f[c] = 0
        BY <2>1, <3>7
      <4> QED
        BY <3>4, <3>5, <4>1, <4>2
    <3> QED
      BY <3>6, <3>7
  <2> QED
    BY <2>2, <2>3
<1>3. Nat \subseteq T
  <2> HIDE DEF T
  <2> QED
    BY <1>1, <1>2, Induction
<1>4. Cardinality(S) \in Nat /\ S \in Smaller(S, Cardinality(S)) /\ P \cap S = P
  BY FS_CardinalityType DEF Smaller
<1> QED
  BY <1>3, <1>4

=============================================================================
