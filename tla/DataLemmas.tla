------------------------------- MODULE DataLemmas -------------------------------
(***************************************************************************)
(* Lemmas about the data the models are built from: sums over finite sets, *)
(* powers, sequences that are joined into one, elements and suffixes of    *)
(* sequences.  The theorems of the library about induction are stated for  *)
(* predicates; here they are for sets (of numbers, of subsets), which      *)
(* come to the same.                                                       *)
(***************************************************************************)
EXTENDS Integers, Sequences, SequencesExt, Functions, FiniteSets, FiniteSetTheorems,
        SequenceTheorems, WellFoundedInduction, TLAPS

\* A set of subsets that has every set all of whose proper subsets it has, has
\* all the subsets of a finite set.
LEMMA SubsetInduction ==
  ASSUME NEW S, IsFiniteSet(S), NEW T \in SUBSET SUBSET S,
         \A s \in SUBSET S : (\A r \in SUBSET s : r # s => r \in T) => s \in T
  PROVE  T = SUBSET S
<1> SUFFICES ASSUME T # SUBSET S PROVE FALSE
  OBVIOUS
<1> DEFINE Rest == (SUBSET S) \ T
<1>1. FiniteSubsetsOf(S) = SUBSET S
  BY FS_FiniteSubsetsOfFinite
<1>2. IsWellFoundedOn(StrictSubsetOrdering(S), SUBSET S)
  <2>1. IsWellFoundedOn(StrictSubsetOrdering(S), FiniteSubsetsOf(S))
    BY FS_StrictSubsetOrderingWellFounded
  <2> QED BY <1>1, <2>1
<1>3. Rest \subseteq SUBSET S /\ Rest # {}
  OBVIOUS
<1>4. PICK s \in Rest : \A r \in Rest : ~(<<r, s>> \in StrictSubsetOrdering(S))
  <2> HIDE DEF Rest
  <2> QED BY <1>2, <1>3, WFMin
<1>5. \A r \in SUBSET s : r # s => r \in T
  BY <1>4 DEF StrictSubsetOrdering
<1> QED BY <1>4, <1>5

LEMMA LeastElement ==
  ASSUME NEW T \in SUBSET Nat, T # {}
  PROVE  \E n \in T : \A m \in T : n <= m
<1>1. IsWellFoundedOn(OpToRel(<, Nat), Nat)
  BY NatLessThanWellFounded
<1>2. PICK n \in T : \A m \in T : ~(<<m, n>> \in OpToRel(<, Nat))
  BY <1>1, WFMin
<1>3. \A m \in T : ~(m < n)
  BY <1>2 DEF OpToRel
<1> QED BY <1>3

\* A set of natural numbers that has 0, and n + 1 whenever it has n, has all.
LEMMA SetInduction ==
  ASSUME NEW T \in SUBSET Nat, 0 \in T, \A n \in T : n + 1 \in T
  PROVE  T = Nat
<1> SUFFICES ASSUME T # Nat PROVE FALSE
  OBVIOUS
<1>1. PICK n \in Nat \ T : \A m \in Nat \ T : n <= m
  BY LeastElement
<1>2. n # 0 /\ n - 1 \in T
  BY <1>1
<1> QED BY <1>1, <1>2

-----------------------------------------------------------------------------
\* Sums.

SumOver(f, S) == FoldFunctionOnSet(+, 0, f, S)

\* The fold takes the elements in the order of this choice.
AnyOf(s) == CHOOSE x \in s : TRUE

LEMMA AnyIn ==
  ASSUME NEW s, s # {}
  PROVE  AnyOf(s) \in s
BY DEF AnyOf

\* g is what the fold computes for all the sets of D.
IsTable(f, D, g) ==
  g = [s \in D |-> IF s = {} THEN 0 ELSE f[AnyOf(s)] + g[s \ {AnyOf(s)}]]

IsFold(f, S, g) == IsTable(f, SUBSET S, g)

LEMMA SumIsInTable ==
  ASSUME NEW f, NEW S
  PROVE  SumOver(f, S) = (CHOOSE g : IsFold(f, S, g))[S]
BY DEF SumOver, FoldFunctionOnSet, MapThenFoldSet, IsFold, IsTable, AnyOf

UpTo(S, n) == {s \in SUBSET S : Cardinality(s) <= n}

LEMMA SmallerSet ==
  ASSUME NEW S, IsFiniteSet(S), S # {}
  PROVE  /\ AnyOf(S) \in S
         /\ IsFiniteSet(S \ {AnyOf(S)})
         /\ Cardinality(S) \in Nat
         /\ Cardinality(S \ {AnyOf(S)}) = Cardinality(S) - 1
BY AnyIn, FS_RemoveElement, FS_CardinalityType

\* The recursion of the fold has a solution for the subsets of a finite set.
LEMMA TableExists ==
  ASSUME NEW f, NEW S, IsFiniteSet(S)
  PROVE  \E g : IsFold(f, S, g)
<1> DEFINE T == {n \in Nat : \E g : IsTable(f, UpTo(S, n), g)}
<1>1. 0 \in T
  <2>1. \A s \in UpTo(S, 0) : s = {}
    BY FS_Subset, FS_EmptySet, FS_CardinalityType DEF UpTo
  <2>2. IsTable(f, UpTo(S, 0), [s \in UpTo(S, 0) |-> 0])
    BY <2>1 DEF IsTable
  <2> QED BY <2>2
<1>2. ASSUME NEW n \in T
      PROVE  n + 1 \in T
  <2>1. PICK g : IsTable(f, UpTo(S, n), g)
    OBVIOUS
  <2> DEFINE h == [s \in UpTo(S, n + 1) |->
                     IF s = {} THEN 0 ELSE f[AnyOf(s)] + g[s \ {AnyOf(s)}]]
  <2>2. ASSUME NEW s \in UpTo(S, n + 1), s # {}
        PROVE  s \ {AnyOf(s)} \in UpTo(S, n) /\ s \ {AnyOf(s)} \in UpTo(S, n + 1)
    <3>1. IsFiniteSet(s) /\ Cardinality(s) <= n + 1
      BY FS_Subset DEF UpTo
    <3> QED BY <2>2, <3>1, SmallerSet DEF UpTo
  <2>3. ASSUME NEW s \in UpTo(S, n)
        PROVE  g[s] = h[s]
    <3>1. Cardinality(s) \in Nat
      BY FS_Subset, FS_CardinalityType DEF UpTo
    <3>2. s \in UpTo(S, n + 1)
      BY <3>1 DEF UpTo
    <3> QED BY <2>1, <3>2 DEF IsTable
  <2>4. h = [s \in UpTo(S, n + 1) |->
               IF s = {} THEN 0 ELSE f[AnyOf(s)] + h[s \ {AnyOf(s)}]]
    <3> HIDE DEF h
    <3>1. \A s \in UpTo(S, n + 1) : s # {} => g[s \ {AnyOf(s)}] = h[s \ {AnyOf(s)}]
      BY <2>2, <2>3
    <3>2. h = [s \in UpTo(S, n + 1) |->
                 IF s = {} THEN 0 ELSE f[AnyOf(s)] + g[s \ {AnyOf(s)}]]
      BY DEF h
    <3> QED BY <3>1, <3>2
  <2>5. \E t : IsTable(f, UpTo(S, n + 1), t)
    BY <2>4 DEF IsTable
  <2> QED BY <2>5
<1>3. T = Nat
  <2> HIDE DEF T
  <2>1. T \in SUBSET Nat
    BY DEF T
  <2> QED BY <1>1, <1>2, <2>1, SetInduction
<1>4. Cardinality(S) \in T
  BY <1>3, FS_CardinalityType
<1>5. UpTo(S, Cardinality(S)) = SUBSET S
  BY FS_Subset DEF UpTo
<1> QED BY <1>4, <1>5 DEF IsFold

\* And only one.
LEMMA TablesAgree ==
  ASSUME NEW f, NEW S, NEW R, NEW g, NEW h, IsFiniteSet(S), R \subseteq S,
         IsFold(f, S, g), IsFold(f, R, h)
  PROVE  g[R] = h[R]
<1> DEFINE T == {s \in SUBSET R : g[s] = h[s]}
<1>1. ASSUME NEW s \in SUBSET R, \A r \in SUBSET s : r # s => r \in T
      PROVE  s \in T
  <2>1. g[s] = IF s = {} THEN 0 ELSE f[AnyOf(s)] + g[s \ {AnyOf(s)}]
    BY DEF IsFold, IsTable
  <2>2. h[s] = IF s = {} THEN 0 ELSE f[AnyOf(s)] + h[s \ {AnyOf(s)}]
    BY DEF IsFold, IsTable
  <2>3. s # {} => g[s \ {AnyOf(s)}] = h[s \ {AnyOf(s)}]
    BY <1>1, AnyIn
  <2> QED BY <2>1, <2>2, <2>3
<1>2. IsFiniteSet(R)
  BY FS_Subset
<1>3. T = SUBSET R
  <2> HIDE DEF T
  <2>1. T \in SUBSET SUBSET R
    BY DEF T
  <2> QED BY <1>1, <1>2, <2>1, SubsetInduction
<1> QED BY <1>3

LEMMA SumEmpty ==
  ASSUME NEW f
  PROVE  SumOver(f, {}) = 0
<1>1. PICK g : IsFold(f, {}, g)
  BY TableExists, FS_EmptySet
<1>2. IsFold(f, {}, CHOOSE t : IsFold(f, {}, t))
  BY <1>1
<1> QED BY <1>2, SumIsInTable DEF IsFold, IsTable

LEMMA SumAny ==
  ASSUME NEW f, NEW S, IsFiniteSet(S), S # {}
  PROVE  SumOver(f, S) = f[AnyOf(S)] + SumOver(f, S \ {AnyOf(S)})
<1>1. PICK R : R = S \ {AnyOf(S)}
  OBVIOUS
<1>2. IsFiniteSet(R) /\ R \subseteq S
  BY <1>1, FS_Subset
<1>3. PICK g : g = CHOOSE t : IsFold(f, S, t)
  OBVIOUS
<1>4. PICK h : h = CHOOSE t : IsFold(f, R, t)
  OBVIOUS
<1>5. IsFold(f, S, g)
  BY <1>3, TableExists
<1>6. IsFold(f, R, h)
  BY <1>2, <1>4, TableExists
<1>7. g[R] = h[R]
  BY <1>2, <1>5, <1>6, TablesAgree
<1>8. g[S] = f[AnyOf(S)] + g[R]
  BY <1>1, <1>5 DEF IsFold, IsTable
<1> QED BY <1>1, <1>3, <1>4, <1>7, <1>8, SumIsInTable

IntegersOn(f, S) == \A x \in S : f[x] \in Int

LEMMA SumType ==
  ASSUME NEW f, NEW S, IsFiniteSet(S), IntegersOn(f, S)
  PROVE  SumOver(f, S) \in Int
<1> DEFINE T == {s \in SUBSET S : SumOver(f, s) \in Int}
<1>1. ASSUME NEW s \in SUBSET S, \A r \in SUBSET s : r # s => r \in T
      PROVE  s \in T
  <2>1. CASE s = {}
    BY <2>1, SumEmpty
  <2>2. CASE s # {}
    <3>1. AnyOf(s) \in s /\ f[AnyOf(s)] \in Int /\ IsFiniteSet(s)
      BY <2>2, AnyIn, FS_Subset DEF IntegersOn
    <3>2. SumOver(f, s \ {AnyOf(s)}) \in Int
      BY <1>1, <3>1
    <3> QED BY <2>2, <3>1, <3>2, SumAny
  <2> QED BY <2>1, <2>2
<1>2. T = SUBSET S
  <2> HIDE DEF T
  <2>1. T \in SUBSET SUBSET S
    BY DEF T
  <2> QED BY <1>1, <2>1, SubsetInduction
<1> QED BY <1>2

\* Whatever the order of the fold, any element may be taken out.
LEMMA SumRemove ==
  ASSUME NEW f, NEW S, IsFiniteSet(S), IntegersOn(f, S), NEW x \in S
  PROVE  SumOver(f, S) = f[x] + SumOver(f, S \ {x})
<1> DEFINE T == {s \in SUBSET S : \A y \in s : SumOver(f, s) = f[y] + SumOver(f, s \ {y})}
<1>0. ASSUME NEW s \in SUBSET S
      PROVE  IsFiniteSet(s) /\ SumOver(f, s) \in Int
  <2>1. IsFiniteSet(s) /\ IntegersOn(f, s)
    BY FS_Subset DEF IntegersOn
  <2> QED BY <2>1, SumType
<1>1. ASSUME NEW s \in SUBSET S, \A r \in SUBSET s : r # s => r \in T, NEW y \in s
      PROVE  SumOver(f, s) = f[y] + SumOver(f, s \ {y})
  <2>1. PICK a : a = AnyOf(s)
    OBVIOUS
  <2>2. a \in s /\ f[a] \in Int /\ f[y] \in Int
    BY <2>1, AnyIn DEF IntegersOn
  <2>3. SumOver(f, s) = f[a] + SumOver(f, s \ {a})
    BY <1>0, <2>1, SumAny
  <2>4. CASE y = a
    BY <2>3, <2>4
  <2>5. CASE y # a
    <3>1. s \ {a} \in T /\ s \ {y} \in T /\ y \in s \ {a} /\ a \in s \ {y}
      BY <1>1, <2>2, <2>5
    <3>2. PICK r : r = (s \ {a}) \ {y}
      OBVIOUS
    <3>3. r = (s \ {y}) \ {a} /\ r \in SUBSET S
      BY <3>2
    <3>4. SumOver(f, s \ {a}) = f[y] + SumOver(f, r)
      BY <3>1, <3>2
    <3>5. SumOver(f, s \ {y}) = f[a] + SumOver(f, r)
      BY <3>1, <3>3
    <3>6. SumOver(f, r) \in Int
      BY <1>0, <3>3
    <3>7. \A i, j, k \in Int : i + (j + k) = j + (i + k)
      OBVIOUS
    <3> QED BY <2>2, <2>3, <3>4, <3>5, <3>6, <3>7
  <2> QED BY <2>4, <2>5
<1>2. T = SUBSET S
  <2>1. \A s \in SUBSET S : (\A r \in SUBSET s : r # s => r \in T) => s \in T
    BY <1>1
  <2> HIDE DEF T
  <2>2. T \in SUBSET SUBSET S
    BY DEF T
  <2> QED BY <2>1, <2>2, SubsetInduction
<1> QED BY <1>2

LEMMA SumSame ==
  ASSUME NEW f, NEW g, NEW S, IsFiniteSet(S), \A x \in S : f[x] = g[x]
  PROVE  SumOver(f, S) = SumOver(g, S)
<1> DEFINE T == {s \in SUBSET S : SumOver(f, s) = SumOver(g, s)}
<1>1. ASSUME NEW s \in SUBSET S, \A r \in SUBSET s : r # s => r \in T
      PROVE  s \in T
  <2>1. CASE s = {}
    BY <2>1, SumEmpty
  <2>2. CASE s # {}
    <3>1. AnyOf(s) \in s /\ IsFiniteSet(s)
      BY <2>2, AnyIn, FS_Subset
    <3>2. SumOver(f, s \ {AnyOf(s)}) = SumOver(g, s \ {AnyOf(s)})
      BY <1>1, <3>1
    <3> QED BY <2>2, <3>1, <3>2, SumAny
  <2> QED BY <2>1, <2>2
<1>2. T = SUBSET S
  <2> HIDE DEF T
  <2>1. T \in SUBSET SUBSET S
    BY DEF T
  <2> QED BY <1>1, <2>1, SubsetInduction
<1> QED BY <1>2

\* What is at most k everywhere adds up to at most k times as much as there are.
LEMMA SumBound ==
  ASSUME NEW f, NEW S, IsFiniteSet(S), IntegersOn(f, S), NEW k \in Int,
         \A x \in S : f[x] <= k
  PROVE  SumOver(f, S) <= k * Cardinality(S)
<1> DEFINE T == {s \in SUBSET S : SumOver(f, s) <= k * Cardinality(s)}
<1>1. ASSUME NEW s \in SUBSET S, \A r \in SUBSET s : r # s => r \in T
      PROVE  s \in T
  <2>1. CASE s = {}
    BY <2>1, SumEmpty, FS_EmptySet
  <2>2. CASE s # {}
    <3>1. /\ AnyOf(s) \in s /\ f[AnyOf(s)] \in Int /\ f[AnyOf(s)] <= k
          /\ IsFiniteSet(s)
      BY <2>2, AnyIn, FS_Subset DEF IntegersOn
    <3>2. /\ IsFiniteSet(s \ {AnyOf(s)})
          /\ Cardinality(s) \in Nat
          /\ Cardinality(s \ {AnyOf(s)}) = Cardinality(s) - 1
      BY <2>2, <3>1, SmallerSet
    <3>3. SumOver(f, s \ {AnyOf(s)}) <= k * (Cardinality(s) - 1)
      BY <1>1, <3>1, <3>2
    <3>4. SumOver(f, s) = f[AnyOf(s)] + SumOver(f, s \ {AnyOf(s)})
      BY <2>2, <3>1, SumAny
    <3>5. SumOver(f, s \ {AnyOf(s)}) \in Int
      BY <3>2, SumType DEF IntegersOn
    <3>6. \A c \in Nat : k * (c - 1) = k * c - k /\ k * c \in Int
      OBVIOUS
    <3> QED BY <3>1, <3>2, <3>3, <3>4, <3>5, <3>6
  <2> QED BY <2>1, <2>2
<1>2. T = SUBSET S
  <2> HIDE DEF T
  <2>1. T \in SUBSET SUBSET S
    BY DEF T
  <2> QED BY <1>1, <2>1, SubsetInduction
<1> QED BY <1>2

LEMMA SumNatural ==
  ASSUME NEW f, NEW S, IsFiniteSet(S), \A x \in S : f[x] \in Nat
  PROVE  SumOver(f, S) \in Nat
<1> DEFINE T == {s \in SUBSET S : SumOver(f, s) \in Nat}
<1>1. ASSUME NEW s \in SUBSET S, \A r \in SUBSET s : r # s => r \in T
      PROVE  s \in T
  <2>1. CASE s = {}
    BY <2>1, SumEmpty
  <2>2. CASE s # {}
    <3>1. AnyOf(s) \in s /\ f[AnyOf(s)] \in Nat /\ IsFiniteSet(s)
      BY <2>2, AnyIn, FS_Subset
    <3>2. SumOver(f, s \ {AnyOf(s)}) \in Nat
      BY <1>1, <3>1
    <3>3. SumOver(f, s) = f[AnyOf(s)] + SumOver(f, s \ {AnyOf(s)})
      BY <2>2, <3>1, SumAny
    <3> QED BY <3>1, <3>2, <3>3
  <2> QED BY <2>1, <2>2
<1>2. T = SUBSET S
  <2> HIDE DEF T
  <2>1. T \in SUBSET SUBSET S
    BY DEF T
  <2> QED BY <1>1, <2>1, SubsetInduction
<1> QED BY <1>2

\* The sum where one value is replaced.
LEMMA SumUpdate ==
  ASSUME NEW f, NEW g, NEW S, IsFiniteSet(S), IntegersOn(f, S), IntegersOn(g, S),
         NEW x \in S, \A y \in S \ {x} : g[y] = f[y]
  PROVE  SumOver(g, S) = SumOver(f, S) - f[x] + g[x]
<1>1. IsFiniteSet(S \ {x})
  BY FS_Subset
<1>2. SumOver(g, S \ {x}) = SumOver(f, S \ {x})
  BY <1>1, SumSame
<1>3. SumOver(f, S \ {x}) \in Int /\ f[x] \in Int /\ g[x] \in Int
  BY <1>1, SumType DEF IntegersOn
<1>4. SumOver(f, S) = f[x] + SumOver(f, S \ {x}) /\ SumOver(g, S) = g[x] + SumOver(g, S \ {x})
  BY SumRemove
<1> QED BY <1>2, <1>3, <1>4

\* Sums over the first numbers, of all of them or of those in a set.
LEMMA SumNextIn ==
  ASSUME NEW f, NEW n \in Nat, IntegersOn(f, 1..(n + 1)), NEW S, NEW T,
         S = T \cup {n + 1}, T \subseteq 1..n
  PROVE  /\ SumOver(f, S) = SumOver(f, T) + f[n + 1]
         /\ SumOver(f, T) \in Int
         /\ f[n + 1] \in Int
<1>1. S \subseteq 1..(n + 1) /\ T \subseteq 1..(n + 1) /\ n + 1 \in S /\ n + 1 \notin T
  OBVIOUS
<1>2. IsFiniteSet(S) /\ IsFiniteSet(T)
  <2>1. IsFiniteSet(1..(n + 1))
    BY FS_Interval
  <2> QED BY <1>1, <2>1, FS_Subset
<1>3. IntegersOn(f, S) /\ IntegersOn(f, T) /\ f[n + 1] \in Int
  BY <1>1 DEF IntegersOn
<1>4. PICK x, R : x = n + 1 /\ R = S \ {x}
  OBVIOUS
<1>5. R = T /\ x \in S
  BY <1>1, <1>4
<1>6. SumOver(f, S) = f[x] + SumOver(f, S \ {x})
  BY <1>2, <1>3, <1>5, SumRemove
<1>7. SumOver(f, S) = f[x] + SumOver(f, T)
  BY <1>4, <1>5, <1>6
<1>8. SumOver(f, T) \in Int
  BY <1>2, <1>3, SumType
<1> QED BY <1>3, <1>4, <1>7, <1>8

LEMMA SumNext ==
  ASSUME NEW f, NEW n \in Nat, IntegersOn(f, 1..(n + 1)), NEW S, NEW T,
         S = 1..(n + 1), T = 1..n
  PROVE  /\ SumOver(f, S) = SumOver(f, T) + f[n + 1]
         /\ SumOver(f, T) \in Int
         /\ f[n + 1] \in Int
<1>1. S = T \cup {n + 1} /\ T \subseteq 1..n
  OBVIOUS
<1> QED BY <1>1, SumNextIn

-----------------------------------------------------------------------------
\* Powers of two, by way of the sets they count.

LEMMA PowerType ==
  ASSUME NEW n \in Nat
  PROVE  2^n \in Nat \ {0}
<1>1. IsFiniteSet(1..n) /\ Cardinality(1..n) = n
  BY FS_Interval
<1>2. IsFiniteSet(SUBSET (1..n)) /\ Cardinality(SUBSET (1..n)) = 2^Cardinality(1..n)
  BY <1>1, FS_SUBSET
<1>3. SUBSET (1..n) # {}
  OBVIOUS
<1> QED BY <1>1, <1>2, <1>3, FS_CardinalityType, FS_EmptySet

LEMMA Doubling ==
  ASSUME NEW n \in Nat
  PROVE  2^(n + 1) = 2 * 2^n
<1> DEFINE Old == SUBSET (1..n)
           New == {s \in SUBSET (1..(n + 1)) : n + 1 \in s}
<1>1. /\ IsFiniteSet(1..n) /\ Cardinality(1..n) = n
      /\ IsFiniteSet(1..(n + 1)) /\ Cardinality(1..(n + 1)) = n + 1
  BY FS_Interval
<1>2. IsFiniteSet(Old) /\ Cardinality(Old) = 2^n
  <2>1. IsFiniteSet(Old) /\ Cardinality(Old) = 2^Cardinality(1..n)
    BY <1>1, FS_SUBSET
  <2> QED BY <1>1, <2>1
<1>3. Cardinality(SUBSET (1..(n + 1))) = 2^(n + 1)
  <2>1. Cardinality(SUBSET (1..(n + 1))) = 2^Cardinality(1..(n + 1))
    BY <1>1, FS_SUBSET
  <2> QED BY <1>1, <2>1
<1>4. SUBSET (1..(n + 1)) = Old \cup New
  <2>1. 1..n = (1..(n + 1)) \ {n + 1}
    OBVIOUS
  <2> QED BY <2>1
<1>5. Old \cap New = {}
  <2>1. n + 1 \notin 1..n
    OBVIOUS
  <2> QED BY <2>1
<1>6. IsFiniteSet(New) /\ Cardinality(New) = Cardinality(Old)
  <2> DEFINE more == [s \in Old |-> s \cup {n + 1}]
  <2>0. n + 1 \notin 1..n /\ 1..n = (1..(n + 1)) \ {n + 1} /\ n + 1 \in 1..(n + 1)
    OBVIOUS
  <2>1. more \in [Old -> New]
    BY <2>0
  <2>2. \A s, r \in Old : more[s] = more[r] => s = r
    BY <2>0
  <2>3. \A r \in New : \E s \in Old : more[s] = r
    <3>1. ASSUME NEW r \in New
          PROVE  r \ {n + 1} \in Old /\ more[r \ {n + 1}] = r
      BY <2>0
    <3> QED BY <3>1
  <2>4. more \in Bijection(Old, New)
    <3> HIDE DEF more, Old, New
    <3> QED BY <2>1, <2>2, <2>3 DEF Bijection, Injection, Surjection, IsInjective
  <2> QED BY <1>2, <2>4, FS_Bijection DEF ExistsBijection
<1>7. Cardinality(Old \cup New) = Cardinality(Old) + Cardinality(New) - Cardinality(Old \cap New)
  <2> HIDE DEF Old, New
  <2> QED BY <1>2, <1>6, FS_Union
<1>8. 2^n \in Nat
  BY PowerType
<1>9. Cardinality(Old \cup New) = 2^(n + 1)
  BY <1>3, <1>4
<1>10. Cardinality(Old \cap New) = 0
  BY <1>5, FS_EmptySet
<1> HIDE DEF Old, New
<1> QED BY <1>2, <1>6, <1>7, <1>8, <1>9, <1>10

-----------------------------------------------------------------------------
\* FlattenSeq computes the concatenations of the first sequences, one by one.

IsRow(s, n, t) == t = [i \in 1..n |-> IF i = 1 THEN s[i] ELSE t[i - 1] \o s[i]]

LEMMA RowExists ==
  ASSUME NEW s, NEW n \in Nat
  PROVE  \E t : IsRow(s, n, t)
<1> DEFINE T == {m \in Nat : \E t : IsRow(s, m, t)}
<1>1. 0 \in T
  <2>1. IsRow(s, 0, [i \in 1..0 |-> i])
    BY DEF IsRow
  <2> QED BY <2>1
<1>2. ASSUME NEW m \in T
      PROVE  m + 1 \in T
  <2>1. PICK t : IsRow(s, m, t)
    OBVIOUS
  <2> DEFINE u == [i \in 1..(m + 1) |-> IF i = 1 THEN s[i] ELSE t[i - 1] \o s[i]]
  <2>2. ASSUME NEW i \in 1..m
        PROVE  u[i] = t[i]
    <3>1. i \in 1..(m + 1)
      OBVIOUS
    <3>2. u[i] = IF i = 1 THEN s[i] ELSE t[i - 1] \o s[i]
      BY <3>1, Zenon
    <3>3. t[i] = IF i = 1 THEN s[i] ELSE t[i - 1] \o s[i]
      BY <2>1, Zenon DEF IsRow
    <3> QED BY <3>2, <3>3, Zenon
  <2>3. ASSUME NEW i \in 1..(m + 1)
        PROVE  (IF i = 1 THEN s[i] ELSE t[i - 1] \o s[i])
                 = (IF i = 1 THEN s[i] ELSE u[i - 1] \o s[i])
    <3>1. CASE i = 1
      BY <3>1
    <3>2. CASE i # 1
      <4>1. i - 1 \in 1..m
        BY <3>2
      <4> QED BY <3>2, <4>1, <2>2
    <3> QED BY <3>1, <3>2
  <2>4. IsRow(s, m + 1, u)
    BY <2>3, Zenon DEF IsRow
  <2> QED BY <2>4
<1>3. T = Nat
  <2> HIDE DEF T
  <2>1. T \in SUBSET Nat
    BY DEF T
  <2> QED BY <1>1, <1>2, <2>1, SetInduction
<1> QED BY <1>3

LEMMA RowsAgree ==
  ASSUME NEW s, NEW r, NEW k \in Nat, NEW t, NEW u,
         IsRow(s, k + 1, t), IsRow(r, k, u), \A i \in 1..k : s[i] = r[i]
  PROVE  \A i \in 1..k : t[i] = u[i]
<1> DEFINE T == {i \in Nat : i \in 1..k => t[i] = u[i]}
<1>1. 0 \in T
  OBVIOUS
<1>2. ASSUME NEW i \in T
      PROVE  i + 1 \in T
  <2> SUFFICES ASSUME i + 1 \in 1..k PROVE t[i + 1] = u[i + 1]
    OBVIOUS
  <2>1. i + 1 \in 1..(k + 1) /\ i + 1 \in 1..k /\ s[i + 1] = r[i + 1]
    OBVIOUS
  <2>2. /\ t[i + 1] = IF i + 1 = 1 THEN s[i + 1] ELSE t[(i + 1) - 1] \o s[i + 1]
        /\ u[i + 1] = IF i + 1 = 1 THEN r[i + 1] ELSE u[(i + 1) - 1] \o r[i + 1]
    BY <2>1, Zenon DEF IsRow
  <2>3. CASE i = 0
    BY <2>1, <2>2, <2>3
  <2>4. CASE i # 0
    <3>1. i \in 1..k /\ (i + 1) - 1 = i /\ i + 1 # 1
      BY <2>4
    <3>2. t[i] = u[i]
      BY <3>1
    <3> QED BY <2>1, <2>2, <3>1, <3>2
  <2> QED BY <2>3, <2>4
<1>3. T = Nat
  <2> HIDE DEF T
  <2>1. T \in SUBSET Nat
    BY DEF T
  <2> QED BY <1>1, <1>2, <2>1, SetInduction
<1> QED BY <1>3

LEMMA FlattenIsRow ==
  ASSUME NEW s, Len(s) \in Nat, Len(s) # 0
  PROVE  \E t : IsRow(s, Len(s), t) /\ FlattenSeq(s) = t[Len(s)]
<1> DEFINE t == CHOOSE u : IsRow(s, Len(s), u)
<1>1. IsRow(s, Len(s), t)
  BY RowExists
<1>2. FlattenSeq(s) = t[Len(s)]
  BY DEF FlattenSeq, IsRow
<1> QED BY <1>1, <1>2

LEMMA FlattenEmpty ==
  ASSUME NEW s, Len(s) = 0
  PROVE  FlattenSeq(s) = s
BY DEF FlattenSeq

\* Sequences of sequences.
Lists(U) == Seq(Seq(U))

LEMMA ListsAre ==
  ASSUME NEW U, NEW s \in Lists(U)
  PROVE  /\ Len(s) \in Nat
         /\ Len(s) = 0 => s = << >>
         /\ \A i \in 1..Len(s) : s[i] \in Seq(U)
<1>1. PICK M : M = Seq(U)
  OBVIOUS
<1>2. s \in Seq(M)
  BY <1>1 DEF Lists
<1>3. Len(s) \in Nat /\ (Len(s) = 0 => s = << >>) /\ \A i \in 1..Len(s) : s[i] \in M
  BY <1>2
<1> QED BY <1>1, <1>3

LEMMA ListIs ==
  ASSUME NEW U, NEW n \in Nat, NEW s, s = [i \in 1..n |-> s[i]],
         \A i \in 1..n : s[i] \in Seq(U)
  PROVE  s \in Lists(U) /\ Len(s) = n
<1>1. PICK M : M = Seq(U)
  OBVIOUS
<1>2. \A i \in 1..n : s[i] \in M
  BY <1>1
<1>3. s \in Seq(M) /\ Len(s) = n
  BY <1>2
<1> QED BY <1>1, <1>3 DEF Lists

LEMMA AllButLast ==
  ASSUME NEW U, NEW s \in Lists(U), Len(s) # 0
  PROVE  \E r \in Lists(U) : Len(s) = Len(r) + 1 /\ \A i \in 1..Len(r) : s[i] = r[i]
<1>1. PICK n \in Nat : Len(s) = n + 1
  <2>1. Len(s) \in Nat /\ Len(s) - 1 \in Nat /\ Len(s) = (Len(s) - 1) + 1
    BY ListsAre
  <2> QED BY <2>1
<1>2. PICK r : r = [i \in 1..n |-> s[i]]
  OBVIOUS
<1>3. \A i \in 1..n : s[i] \in Seq(U) /\ r[i] = s[i]
  BY <1>1, <1>2, ListsAre
<1>4. r = [i \in 1..n |-> r[i]]
  BY <1>2, <1>3
<1>5. r \in Lists(U) /\ Len(r) = n
  BY <1>3, <1>4, ListIs
<1> QED BY <1>1, <1>3, <1>5

\* One sequence more at the end.
LEMMA FlattenNext ==
  ASSUME NEW U, NEW s \in Lists(U), NEW r \in Lists(U),
         Len(s) = Len(r) + 1, \A i \in 1..Len(r) : s[i] = r[i]
  PROVE  FlattenSeq(s) = FlattenSeq(r) \o s[Len(s)]
<1>0. /\ Len(s) \in Nat \ {0} /\ Len(r) \in Nat
      /\ \A i \in 1..Len(s) : s[i] \in Seq(U)
  <2>1. Len(s) \in Nat /\ Len(r) \in Nat /\ \A i \in 1..Len(s) : s[i] \in Seq(U)
    BY ListsAre
  <2> QED BY <2>1
<1>1. PICK t : IsRow(s, Len(s), t) /\ FlattenSeq(s) = t[Len(s)]
  BY <1>0, FlattenIsRow
<1>2. CASE Len(r) = 0
  <2>1. r = << >> /\ FlattenSeq(r) = << >>
    BY <1>2, FlattenEmpty, ListsAre
  <2>2. t[Len(s)] = s[Len(s)]
    <3>1. Len(s) = 1 /\ 1 \in 1..Len(s)
      BY <1>2
    <3> QED BY <1>1, <3>1, Zenon DEF IsRow
  <2>3. s[Len(s)] \in Seq(U)
    BY <1>0
  <2> QED BY <1>1, <2>1, <2>2, <2>3
<1>3. CASE Len(r) # 0
  <2>1. PICK u : IsRow(r, Len(r), u) /\ FlattenSeq(r) = u[Len(r)]
    BY <1>3, FlattenIsRow
  <2>2. t[Len(r)] = u[Len(r)]
    <3>1. \A i \in 1..Len(r) : t[i] = u[i]
      <4>1. PICK k \in Nat : k = Len(r)
        BY <1>0
      <4>2. k \in Nat
        BY <4>1
      <4>3. IsRow(s, k + 1, t) /\ IsRow(r, k, u) /\ \A i \in 1..k : s[i] = r[i]
        BY <1>1, <2>1, <4>1
      <4>4. \A i \in 1..k : t[i] = u[i]
        BY ONLY <4>2, <4>3, RowsAgree, SMT
      <4> QED BY <4>1, <4>4
    <3> QED BY <1>0, <1>3, <3>1
  <2>3. Len(s) \in 1..Len(s) /\ Len(s) # 1 /\ Len(s) - 1 = Len(r)
    BY <1>0, <1>3
  <2>4. t[Len(s)] = IF Len(s) = 1 THEN s[Len(s)] ELSE t[Len(s) - 1] \o s[Len(s)]
    BY <1>1, <2>3, Zenon DEF IsRow
  <2> QED BY <1>1, <2>1, <2>2, <2>3, <2>4
<1> QED BY <1>2, <1>3

LEMMA FlattenType ==
  ASSUME NEW U, NEW s \in Lists(U)
  PROVE  FlattenSeq(s) \in Seq(U)
<1> DEFINE T == {n \in Nat : \A q \in Lists(U) : Len(q) = n => FlattenSeq(q) \in Seq(U)}
<1>1. 0 \in T
  <2>1. ASSUME NEW q \in Lists(U), Len(q) = 0
        PROVE  FlattenSeq(q) \in Seq(U)
    <3>1. q = << >> /\ FlattenSeq(q) = q
      BY <2>1, ListsAre, FlattenEmpty
    <3>2. << >> \in Seq(U)
      OBVIOUS
    <3> QED BY <3>1, <3>2, Zenon
  <2> QED BY <2>1
<1>2. ASSUME NEW n \in T
      PROVE  n + 1 \in T
  <2>1. ASSUME NEW q \in Lists(U), Len(q) = n + 1
        PROVE  FlattenSeq(q) \in Seq(U)
    <3>1. PICK r \in Lists(U) : Len(q) = Len(r) + 1 /\ \A i \in 1..Len(r) : q[i] = r[i]
      BY ListsAre, <2>1, AllButLast
    <3>2. FlattenSeq(q) = FlattenSeq(r) \o q[Len(q)]
      BY ListsAre, <3>1, FlattenNext
    <3>3. Len(r) = n
      BY <2>1, <3>1
    <3>4. FlattenSeq(r) \in Seq(U)
      BY ListsAre, <3>3
    <3>5. q[Len(q)] \in Seq(U)
      BY ListsAre, <2>1
    <3> QED BY <3>2, <3>4, <3>5
  <2> QED BY <2>1
<1>3. T = Nat
  <2> HIDE DEF T
  <2>1. T \in SUBSET Nat
    BY DEF T
  <2> QED BY <1>1, <1>2, <2>1, SetInduction
<1>4. Len(s) \in T
  BY <1>3, ListsAre
<1> QED BY <1>4

\* One sequence more at the beginning.
LEMMA FlattenFirst ==
  ASSUME NEW U, NEW s \in Lists(U), NEW r \in Lists(U),
         Len(s) = Len(r) + 1, \A i \in 1..Len(r) : s[i + 1] = r[i]
  PROVE  FlattenSeq(s) = s[1] \o FlattenSeq(r)
<1> DEFINE Shifted(p, q) == /\ Len(p) = Len(q) + 1
                            /\ \A i \in 1..Len(q) : p[i + 1] = q[i]
           T == {n \in Nat : \A p, q \in Lists(U) :
                   Len(q) = n /\ Shifted(p, q) => FlattenSeq(p) = p[1] \o FlattenSeq(q)}
<1>1. 0 \in T
  <2>1. ASSUME NEW p \in Lists(U), NEW q \in Lists(U), Len(q) = 0, Shifted(p, q)
        PROVE  FlattenSeq(p) = p[1] \o FlattenSeq(q)
    <3>1. FlattenSeq(p) = FlattenSeq(q) \o p[Len(p)]
      <4>1. \A i \in 1..Len(q) : p[i] = q[i]
        BY <2>1
      <4> QED BY ListsAre, <2>1, <4>1, FlattenNext
    <3>2. FlattenSeq(q) = << >> /\ Len(p) = 1
      BY ListsAre, <2>1, FlattenEmpty
    <3>3. p[1] \in Seq(U)
      <4>1. 1 \in 1..Len(p)
        BY <3>2
      <4> QED BY <4>1, ListsAre, Zenon
    <3> QED BY <3>1, <3>2, <3>3
  <2> QED BY <2>1
<1>2. ASSUME NEW n \in T
      PROVE  n + 1 \in T
  <2>1. ASSUME NEW p \in Lists(U), NEW q \in Lists(U), Len(q) = n + 1, Shifted(p, q)
        PROVE  FlattenSeq(p) = p[1] \o FlattenSeq(q)
    <3>0. n \in Nat /\ Len(p) = n + 2
      BY <2>1
    <3>a. Len(p) # 0
      BY <3>0
    <3>1. PICK a \in Lists(U) : Len(p) = Len(a) + 1 /\ \A i \in 1..Len(a) : p[i] = a[i]
      BY ONLY <2>1, <3>a, AllButLast
    <3>2. PICK b \in Lists(U) : Len(q) = Len(b) + 1 /\ \A i \in 1..Len(b) : q[i] = b[i]
      BY ListsAre, <3>0, <2>1, AllButLast
    <3>3. Len(a) = n + 1 /\ Len(b) = n
      BY ListsAre, <3>0, <3>1, <3>2, <2>1
    <3>4. Shifted(a, b)
      <4>1. \A i \in 1..n : a[i + 1] = b[i]
        <5> TAKE i \in 1..n
        <5>1. i + 1 \in 1..Len(a) /\ i \in 1..Len(b) /\ i \in 1..Len(q)
          BY <3>0, <3>3, <2>1
        <5> QED BY <5>1, <3>1, <3>2, <2>1
      <4> QED BY <4>1, <3>3
    <3>5. FlattenSeq(a) = a[1] \o FlattenSeq(b)
      BY <3>3, <3>4
    <3>6. FlattenSeq(p) = FlattenSeq(a) \o p[Len(p)] /\ FlattenSeq(q) = FlattenSeq(b) \o q[Len(q)]
      BY ListsAre, <3>1, <3>2, FlattenNext
    <3>7. a[1] = p[1] /\ p[Len(p)] = q[Len(q)]
      BY <3>0, <3>1, <3>3, <2>1
    <3>8. 1 \in 1..Len(a) /\ Len(q) \in 1..Len(q)
      BY <3>0, <3>3, <2>1
    <3>9. a[1] \in Seq(U) /\ FlattenSeq(b) \in Seq(U) /\ q[Len(q)] \in Seq(U)
      BY <3>8, ListsAre, FlattenType, Zenon
    <3>10. PICK x \in Seq(U), y \in Seq(U), z \in Seq(U) :
             x = a[1] /\ y = FlattenSeq(b) /\ z = q[Len(q)]
      BY <3>9, Zenon
    <3>11. (x \o y) \o z = x \o (y \o z)
      BY ConcatAssociative
    <3> QED BY <3>5, <3>6, <3>7, <3>10, <3>11
  <2> QED BY <2>1
<1>3. T = Nat
  <2> HIDE DEF T
  <2>1. T \in SUBSET Nat
    BY DEF T
  <2> QED BY <1>1, <1>2, <2>1, SetInduction
<1>4. Len(r) \in T
  BY <1>3, ListsAre
<1> QED BY <1>4

\* If one sequence grows at its end, and those behind it are empty, so does the whole.
Grows(U, s, r, x, k) ==
  /\ s \in Lists(U) /\ r \in Lists(U) /\ x \in Seq(U) /\ Len(r) = Len(s)
  /\ k \in 1..Len(s) /\ r[k] = s[k] \o x
  /\ \A i \in 1..Len(s) : i # k => r[i] = s[i]
  /\ \A i \in 1..Len(s) : i > k => s[i] = << >>

LEMMA FlattenGrow ==
  ASSUME NEW U, NEW s, NEW r, NEW x, NEW k, Grows(U, s, r, x, k)
  PROVE  FlattenSeq(r) = FlattenSeq(s) \o x
<1>0. /\ s \in Lists(U) /\ r \in Lists(U) /\ x \in Seq(U) /\ Len(r) = Len(s)
      /\ k \in 1..Len(s) /\ r[k] = s[k] \o x
      /\ \A i \in 1..Len(s) : i # k => r[i] = s[i]
      /\ \A i \in 1..Len(s) : i > k => s[i] = << >>
  BY DEF Grows
<1> x \in Seq(U)
  BY <1>0
<1> DEFINE Grown(n, p, q, m) == /\ Len(p) = n /\ Len(q) = n /\ m \in 1..n
                                /\ q[m] = p[m] \o x
                                /\ \A i \in 1..n : i # m => q[i] = p[i]
                                /\ \A i \in 1..n : i > m => p[i] = << >>
           T == {n \in Nat : \A p, q \in Lists(U) : \A m \in Nat :
                   Grown(n, p, q, m) => FlattenSeq(q) = FlattenSeq(p) \o x}
<1>1. 0 \in T
  OBVIOUS
<1>2. ASSUME NEW n \in T
      PROVE  n + 1 \in T
  <2>1. ASSUME NEW p \in Lists(U), NEW q \in Lists(U), NEW m \in Nat, Grown(n + 1, p, q, m)
        PROVE  FlattenSeq(q) = FlattenSeq(p) \o x
    <3>0. n \in Nat /\ Len(p) = n + 1 /\ Len(q) = n + 1 /\ n + 1 \in 1..(n + 1)
      BY <2>1
    <3>1. PICK a \in Lists(U) : Len(p) = Len(a) + 1 /\ \A i \in 1..Len(a) : p[i] = a[i]
      <4>1. p \in Lists(U) /\ Len(p) # 0
        BY <3>0
      <4> QED BY ONLY <4>1, AllButLast
    <3>2. PICK b \in Lists(U) : Len(q) = Len(b) + 1 /\ \A i \in 1..Len(b) : q[i] = b[i]
      BY <3>0, AllButLast
    <3>3. Len(a) = n /\ Len(b) = n
      BY <3>0, <3>1, <3>2, ListsAre
    <3>4. FlattenSeq(p) = FlattenSeq(a) \o p[n + 1] /\ FlattenSeq(q) = FlattenSeq(b) \o q[n + 1]
      BY <3>0, <3>1, <3>2, FlattenNext
    <3>5. PICK A \in Seq(U), B \in Seq(U), y \in Seq(U) :
            A = FlattenSeq(a) /\ B = FlattenSeq(b) /\ y = p[n + 1]
      BY <3>0, ListsAre, FlattenType, Zenon
    <3>6. CASE m = n + 1
      <4>1. \A i \in 1..Len(a) : q[i] = a[i]
        BY <2>1, <3>1, <3>3, <3>6
      <4>2. FlattenSeq(q) = FlattenSeq(a) \o q[Len(q)]
        BY <3>0, <3>3, <4>1, FlattenNext
      <4>3. q[n + 1] = y \o x
        BY <2>1, <3>5, <3>6
      <4>4. (A \o y) \o x = A \o (y \o x)
        <5>1. A \in Seq(U) /\ y \in Seq(U) /\ x \in Seq(U)
          OBVIOUS
        <5> QED BY ONLY <5>1, ConcatAssociative
      <4> QED BY <3>0, <3>4, <3>5, <4>2, <4>3, <4>4
    <3>7. CASE m # n + 1
      <4>1. m \in 1..n
        BY <2>1, <3>0, <3>7
      <4>2. /\ b[m] = a[m] \o x
            /\ \A i \in 1..n : i # m => b[i] = a[i]
            /\ \A i \in 1..n : i > m => a[i] = << >>
        <5>1. \A i \in 1..n : i \in 1..(n + 1) /\ p[i] = a[i] /\ q[i] = b[i]
          BY <3>0, <3>1, <3>2, <3>3
        <5> QED BY <2>1, <4>1, <5>1
      <4>3. Grown(n, a, b, m)
        BY <3>3, <4>1, <4>2
      <4>4. B = A \o x
        BY <3>5, <4>3
      <4>5. q[n + 1] = << >> /\ p[n + 1] = << >>
        BY <2>1, <3>0, <3>7
      <4>6. B \o << >> = B /\ A \o << >> = A
        BY ConcatEmptySeq
      <4> QED BY <3>4, <3>5, <4>4, <4>5, <4>6
    <3> QED BY <3>6, <3>7
  <2>2. n + 1 \in Nat
    OBVIOUS
  <2> HIDE DEF Grown
  <2> QED BY <2>1, <2>2
<1>3. T = Nat
  <2> HIDE DEF T
  <2>1. T \in SUBSET Nat
    BY DEF T
  <2> QED BY <1>1, <1>2, <2>1, SetInduction
<1>4. Len(s) \in T
  BY <1>0, <1>3, ListsAre
<1>5. Grown(Len(s), s, r, k) /\ k \in Nat
  BY <1>0
<1> QED BY <1>0, <1>4, <1>5

\* What is in the whole is in one of them.
Has(t, y) == \E k \in 1..Len(t) : t[k] = y

LEMMA HasEither ==
  ASSUME NEW U, NEW t \in Seq(U), NEW u \in Seq(U), NEW y
  PROVE  Has(t \o u, y) <=> Has(t, y) \/ Has(u, y)
<1>1. /\ Len(t) \in Nat /\ Len(u) \in Nat /\ Len(t \o u) = Len(t) + Len(u)
      /\ \A i \in 1..(Len(t) + Len(u)) :
           (t \o u)[i] = IF i <= Len(t) THEN t[i] ELSE u[i - Len(t)]
  OBVIOUS
<1>2. ASSUME NEW k \in 1..Len(t), t[k] = y
      PROVE  Has(t \o u, y)
  <2>1. k \in 1..(Len(t) + Len(u)) /\ (t \o u)[k] = y
    BY <1>1, <1>2
  <2> QED BY <1>1, <2>1 DEF Has
<1>3. ASSUME NEW k \in 1..Len(u), u[k] = y
      PROVE  Has(t \o u, y)
  <2>1. /\ k + Len(t) \in 1..(Len(t) + Len(u)) /\ ~(k + Len(t) <= Len(t))
        /\ (k + Len(t)) - Len(t) = k
    BY <1>1
  <2>2. (t \o u)[k + Len(t)] = y
    BY <1>1, <1>3, <2>1
  <2> QED BY <1>1, <2>1, <2>2 DEF Has
<1>4. ASSUME NEW k \in 1..Len(t \o u), (t \o u)[k] = y
      PROVE  Has(t, y) \/ Has(u, y)
  <2>1. CASE k <= Len(t)
    <3>1. k \in 1..Len(t) /\ t[k] = y
      BY <1>1, <1>4, <2>1
    <3> QED BY <3>1 DEF Has
  <2>2. CASE ~(k <= Len(t))
    <3>1. k - Len(t) \in 1..Len(u) /\ u[k - Len(t)] = y
      BY <1>1, <1>4, <2>2
    <3> QED BY <3>1 DEF Has
  <2> QED BY <2>1, <2>2
<1> QED BY <1>2, <1>3, <1>4 DEF Has

LEMMA FlattenHas ==
  ASSUME NEW U, NEW s \in Lists(U), NEW y
  PROVE  Has(FlattenSeq(s), y) <=> \E i \in 1..Len(s) : Has(s[i], y)
<1> DEFINE T == {n \in Nat : \A p \in Lists(U) : Len(p) = n =>
                   (Has(FlattenSeq(p), y) <=> \E i \in 1..Len(p) : Has(p[i], y))}
<1>1. 0 \in T
  <2>1. ASSUME NEW p \in Lists(U), Len(p) = 0
        PROVE  ~Has(FlattenSeq(p), y) /\ 1..Len(p) = {}
    <3>1. p = << >> /\ FlattenSeq(p) = p
      BY <2>1, ListsAre, FlattenEmpty
    <3> QED BY <3>1 DEF Has
  <2> QED BY <2>1
<1>2. ASSUME NEW n \in T
      PROVE  n + 1 \in T
  <2>1. ASSUME NEW p \in Lists(U), Len(p) = n + 1
        PROVE  Has(FlattenSeq(p), y) <=> \E i \in 1..Len(p) : Has(p[i], y)
    <3>0. n \in Nat /\ n + 1 \in 1..Len(p)
      BY <2>1
    <3>1. PICK a \in Lists(U) : Len(p) = Len(a) + 1 /\ \A i \in 1..Len(a) : p[i] = a[i]
      BY <2>1, <3>0, AllButLast
    <3>2. Len(a) = n
      BY <2>1, <3>0, <3>1, ListsAre
    <3>3. FlattenSeq(p) = FlattenSeq(a) \o p[n + 1]
      BY <2>1, <3>1, FlattenNext
    <3>4. FlattenSeq(a) \in Seq(U) /\ p[n + 1] \in Seq(U)
      BY <3>0, ListsAre, FlattenType, Zenon
    <3>5. Has(FlattenSeq(p), y) <=> Has(FlattenSeq(a), y) \/ Has(p[n + 1], y)
      <4>1. PICK A \in Seq(U), B \in Seq(U) : A = FlattenSeq(a) /\ B = p[n + 1]
        BY <3>4, Zenon
      <4>2. Has(A \o B, y) <=> Has(A, y) \/ Has(B, y)
        BY HasEither
      <4> QED BY <3>3, <4>1, <4>2
    <3>6. Has(FlattenSeq(a), y) <=> \E i \in 1..n : Has(a[i], y)
      BY <3>2
    <3>7. \A i \in 1..n : Has(a[i], y) <=> Has(p[i], y)
      BY <3>1, <3>2
    <3>8. 1..Len(p) = (1..n) \cup {n + 1}
      BY <2>1, <3>0
    <3> QED BY <3>5, <3>6, <3>7, <3>8, Zenon
  <2> QED BY <2>1
<1>3. T = Nat
  <2> HIDE DEF T
  <2>1. T \in SUBSET Nat
    BY DEF T
  <2> QED BY <1>1, <1>2, <2>1, SetInduction
<1>4. Len(s) \in T
  BY <1>3, ListsAre
<1> QED BY <1>4

LEMMA FlattenNone ==
  ASSUME NEW U, NEW s \in Lists(U), \A i \in 1..Len(s) : s[i] = << >>
  PROVE  FlattenSeq(s) = << >>
<1>1. FlattenSeq(s) \in Seq(U)
  BY FlattenType
<1>2. ~Has(FlattenSeq(s), FlattenSeq(s)[1])
  <2>1. \A i \in 1..Len(s) : ~Has(s[i], FlattenSeq(s)[1])
    BY DEF Has
  <2> QED BY <2>1, FlattenHas
<1>3. Len(FlattenSeq(s)) = 0
  BY <1>1, <1>2 DEF Has
<1> QED BY <1>1, <1>3

-----------------------------------------------------------------------------
\* What is left of a sequence without its first n elements.

Suffix(s, n) == SubSeq(s, n + 1, Len(s))

LEMMA SuffixType ==
  ASSUME NEW U, NEW s \in Seq(U), NEW n \in 0..Len(s)
  PROVE  /\ Suffix(s, n) \in Seq(U) /\ Len(Suffix(s, n)) = Len(s) - n
         /\ \A i \in 1..(Len(s) - n) : Suffix(s, n)[i] = s[n + i]
         /\ Len(s) \in Nat /\ n \in Nat
<1>1. Len(s) \in Nat /\ n \in Nat /\ n <= Len(s)
  OBVIOUS
<1>2. PICK l \in Nat : l = Len(s)
  BY <1>1
<1>3. \A i \in (n + 1)..l : s[i] \in U
  BY <1>2, ElementOfSeq
<1>4. n + 1 \in Int /\ l \in Int
  BY <1>1
<1>5. /\ SubSeq(s, n + 1, l) \in Seq(U)
      /\ Len(SubSeq(s, n + 1, l)) = IF n + 1 <= l THEN l - (n + 1) + 1 ELSE 0
      /\ \A i \in 1..(l - (n + 1) + 1) : SubSeq(s, n + 1, l)[i] = s[(n + 1) + i - 1]
  BY ONLY <1>3, <1>4, SubSeqProperties
<1>6. Len(SubSeq(s, n + 1, l)) = l - n
  BY <1>1, <1>2, <1>5
<1>7. \A i \in 1..(l - n) : SubSeq(s, n + 1, l)[i] = s[n + i]
  <2> TAKE i \in 1..(l - n)
  <2>1. i \in 1..(l - (n + 1) + 1) /\ (n + 1) + i - 1 = n + i
    BY <1>1, <1>2
  <2> QED BY <1>5, <2>1
<1> QED BY <1>1, <1>2, <1>5, <1>6, <1>7 DEF Suffix

LEMMA SuffixNone ==
  ASSUME NEW U, NEW s \in Seq(U)
  PROVE  Suffix(s, 0) = s
BY SubSeqFull DEF Suffix

\* What comes later comes at the end of what is left.
LEMMA SuffixGrow ==
  ASSUME NEW U, NEW s \in Seq(U), NEW x \in Seq(U), NEW n \in 0..Len(s)
  PROVE  Suffix(s \o x, n) = Suffix(s, n) \o x /\ n \in 0..Len(s \o x)
<1>1. /\ s \o x \in Seq(U) /\ Len(s \o x) = Len(s) + Len(x) /\ Len(s) \in Nat /\ Len(x) \in Nat
      /\ \A i \in 1..(Len(s) + Len(x)) : (s \o x)[i] = IF i <= Len(s) THEN s[i] ELSE x[i - Len(s)]
  BY ConcatProperties
<1>2. PICK r : r = s \o x
  OBVIOUS
<1>3. PICK a, b : a = Suffix(r, n) /\ b = Suffix(s, n)
  OBVIOUS
<1>4. n \in 0..Len(r)
  BY <1>1, <1>2
<1>5. /\ a \in Seq(U) /\ Len(a) = Len(s) + Len(x) - n
      /\ \A i \in 1..(Len(s) + Len(x) - n) : a[i] = r[n + i]
  <2>1. r \in Seq(U) /\ Len(r) = Len(s) + Len(x)
    BY <1>1, <1>2
  <2>2. /\ a \in Seq(U) /\ Len(a) = Len(r) - n
        /\ \A i \in 1..(Len(r) - n) : a[i] = r[n + i]
    BY <1>3, <1>4, <2>1, SuffixType
  <2> QED BY <2>1, <2>2
<1>6. /\ b \in Seq(U) /\ Len(b) = Len(s) - n
      /\ \A i \in 1..(Len(s) - n) : b[i] = s[n + i]
  BY <1>3, SuffixType
<1>7. /\ b \o x \in Seq(U) /\ Len(b \o x) = Len(b) + Len(x)
      /\ \A i \in 1..(Len(b) + Len(x)) : (b \o x)[i] = IF i <= Len(b) THEN b[i] ELSE x[i - Len(b)]
  BY <1>6, ConcatProperties
<1>8. ASSUME NEW i \in 1..Len(a)
      PROVE  a[i] = (b \o x)[i]
  <2>1. i \in 1..(Len(s) + Len(x) - n) /\ i \in 1..(Len(b) + Len(x)) /\ n + i \in 1..(Len(s) + Len(x))
    BY <1>1, <1>5, <1>6
  <2>2. a[i] = IF n + i <= Len(s) THEN s[n + i] ELSE x[n + i - Len(s)]
    BY <1>1, <1>2, <1>5, <2>1
  <2>3. (b \o x)[i] = IF i <= Len(b) THEN b[i] ELSE x[i - Len(b)]
    BY <1>7, <2>1
  <2>4. CASE n + i <= Len(s)
    <3>1. i <= Len(b) /\ i \in 1..(Len(s) - n)
      BY <1>1, <1>6, <2>1, <2>4
    <3> QED BY <1>6, <2>2, <2>3, <2>4, <3>1
  <2>5. CASE ~(n + i <= Len(s))
    <3>1. ~(i <= Len(b)) /\ i - Len(b) = n + i - Len(s)
      BY <1>1, <1>6, <2>1, <2>5
    <3> QED BY <2>2, <2>3, <2>5, <3>1
  <2> QED BY <2>4, <2>5
<1>9. Len(a) = Len(b \o x)
  BY <1>1, <1>5, <1>6, <1>7
<1>10. a = b \o x
  BY <1>5, <1>7, <1>8, <1>9, SeqEqual
<1> QED BY <1>2, <1>3, <1>4, <1>10

\* One more is taken from the front.
LEMMA SuffixNext ==
  ASSUME NEW U, NEW s \in Seq(U), NEW n \in 0..Len(s), Suffix(s, n) # << >>
  PROVE  /\ n + 1 \in 0..Len(s) /\ n + 1 \in 1..Len(s)
         /\ Suffix(s, n)[1] = s[n + 1] /\ Tail(Suffix(s, n)) = Suffix(s, n + 1)
<1>1. PICK a : a = Suffix(s, n)
  OBVIOUS
<1>2. /\ a \in Seq(U) /\ Len(a) = Len(s) - n /\ Len(s) \in Nat /\ n \in Nat /\ a # << >>
      /\ \A i \in 1..(Len(s) - n) : a[i] = s[n + i]
  BY <1>1, SuffixType
<1>3. /\ Tail(a) \in Seq(U) /\ Len(Tail(a)) = Len(a) - 1 /\ Len(a) \in Nat \ {0}
      /\ \A i \in 1..Len(Tail(a)) : Tail(a)[i] = a[i + 1]
  BY <1>2, HeadTailProperties, EmptySeq
<1>4. n + 1 \in 0..Len(s) /\ n + 1 \in 1..Len(s)
  BY <1>2, <1>3
<1>5. PICK b, k : k = n + 1 /\ b = Suffix(s, k)
  OBVIOUS
<1>6. k \in 0..Len(s)
  BY <1>4, <1>5
<1>7. /\ b \in Seq(U) /\ Len(b) = Len(s) - k
      /\ \A i \in 1..(Len(s) - k) : b[i] = s[k + i]
  BY <1>5, <1>6, SuffixType
<1>8. ASSUME NEW i \in 1..Len(b)
      PROVE  b[i] = Tail(a)[i]
  <2>1. i \in 1..(Len(s) - k) /\ i \in 1..Len(Tail(a)) /\ i + 1 \in 1..(Len(s) - n)
        /\ k + i = n + (i + 1)
    BY <1>2, <1>3, <1>5, <1>7
  <2> QED BY <1>2, <1>3, <1>7, <2>1
<1>9. Len(b) = Len(Tail(a))
  BY <1>2, <1>3, <1>5, <1>7
<1>10. b = Tail(a)
  BY <1>3, <1>7, <1>8, <1>9, SeqEqual
<1>11. a[1] = s[n + 1]
  BY <1>2, <1>3
<1> QED BY <1>1, <1>4, <1>5, <1>10, <1>11

LEMMA SuffixPast ==
  ASSUME NEW U, NEW a \in Seq(U), NEW b \in Seq(U)
  PROVE  Suffix(a \o b, Len(a)) = b
<1>1. PICK r, n : r = a \o b /\ n = Len(a)
  OBVIOUS
<1>2. /\ r \in Seq(U) /\ Len(r) = Len(a) + Len(b) /\ Len(a) \in Nat /\ Len(b) \in Nat
      /\ \A i \in 1..(Len(a) + Len(b)) : r[i] = IF i <= Len(a) THEN a[i] ELSE b[i - Len(a)]
  BY <1>1, ConcatProperties
<1>3. n \in 0..Len(r)
  BY <1>1, <1>2
<1>4. PICK c : c = Suffix(r, n)
  OBVIOUS
<1>5. /\ c \in Seq(U) /\ Len(c) = Len(r) - n
      /\ \A i \in 1..(Len(r) - n) : c[i] = r[n + i]
  BY <1>2, <1>3, <1>4, SuffixType
<1>6. ASSUME NEW i \in 1..Len(c)
      PROVE  c[i] = b[i]
  <2>1. /\ i \in 1..(Len(r) - n) /\ n + i \in 1..(Len(a) + Len(b)) /\ ~(n + i <= Len(a))
        /\ n + i - Len(a) = i
    BY <1>1, <1>2, <1>5
  <2>0. n \in Nat /\ i \in Nat /\ n = Len(a)
    BY <1>1, <1>2
  <2>2. PICK j \in Nat : j = n + i
    BY <2>0
  <2>3. j \in 1..(Len(a) + Len(b)) /\ ~(j <= Len(a)) /\ j - Len(a) = i
    BY <1>2, <2>0, <2>1, <2>2
  <2>4. r[j] = IF j <= Len(a) THEN a[j] ELSE b[j - Len(a)]
    BY <1>2, <2>3
  <2>5. r[j] = b[i]
    BY <2>3, <2>4
  <2> QED BY <1>5, <2>1, <2>2, <2>5
<1>7. Len(c) = Len(b)
  BY <1>1, <1>2, <1>5
<1>8. c = b
  BY <1>5, <1>6, <1>7, SeqEqual
<1> QED BY <1>1, <1>4, <1>8

LEMMA TailJoin ==
  ASSUME NEW U, NEW a \in Seq(U), a # << >>, NEW b \in Seq(U)
  PROVE  Tail(a \o b) = Tail(a) \o b /\ a \o b # << >>
<1>1. PICK r, t : r = a \o b /\ t = Tail(a)
  OBVIOUS
<1>2. /\ r \in Seq(U) /\ Len(r) = Len(a) + Len(b) /\ Len(b) \in Nat
      /\ \A i \in 1..(Len(a) + Len(b)) : r[i] = IF i <= Len(a) THEN a[i] ELSE b[i - Len(a)]
  BY <1>1, ConcatProperties
<1>3. /\ t \in Seq(U) /\ Len(t) = Len(a) - 1 /\ Len(a) \in Nat \ {0}
      /\ \A i \in 1..Len(t) : t[i] = a[i + 1]
  BY <1>1, HeadTailProperties, EmptySeq
<1>4. r # << >>
  BY <1>2, <1>3
<1>5. /\ Tail(r) \in Seq(U) /\ Len(Tail(r)) = Len(r) - 1
      /\ \A i \in 1..Len(Tail(r)) : Tail(r)[i] = r[i + 1]
  BY <1>2, <1>4, HeadTailProperties
<1>6. /\ t \o b \in Seq(U) /\ Len(t \o b) = Len(t) + Len(b)
      /\ \A i \in 1..(Len(t) + Len(b)) : (t \o b)[i] = IF i <= Len(t) THEN t[i] ELSE b[i - Len(t)]
  BY <1>3, ConcatProperties
<1>7. ASSUME NEW i \in 1..Len(Tail(r))
      PROVE  Tail(r)[i] = (t \o b)[i]
  <2>1. i + 1 \in 1..(Len(a) + Len(b)) /\ i \in 1..(Len(t) + Len(b))
    BY <1>2, <1>3, <1>5
  <2>2. Tail(r)[i] = IF i + 1 <= Len(a) THEN a[i + 1] ELSE b[i + 1 - Len(a)]
    BY <1>2, <1>5, <2>1
  <2>3. (t \o b)[i] = IF i <= Len(t) THEN t[i] ELSE b[i - Len(t)]
    BY <1>6, <2>1
  <2>4. CASE i + 1 <= Len(a)
    <3>1. i <= Len(t) /\ i \in 1..Len(t)
      BY <1>3, <2>1, <2>4
    <3> QED BY <1>3, <2>2, <2>3, <2>4, <3>1
  <2>5. CASE ~(i + 1 <= Len(a))
    <3>1. ~(i <= Len(t)) /\ i - Len(t) = i + 1 - Len(a)
      BY <1>3, <2>1, <2>5
    <3> QED BY <2>2, <2>3, <2>5, <3>1
  <2> QED BY <2>4, <2>5
<1>8. Len(Tail(r)) = Len(t \o b)
  BY <1>2, <1>3, <1>5, <1>6
<1>9. Tail(r) = t \o b
  BY <1>5, <1>6, <1>7, <1>8, SeqEqual
<1> QED BY <1>1, <1>4, <1>9

\* The first of one sequence becomes the last of the one before it.
LEMMA PassOn ==
  ASSUME NEW U, NEW a \in Seq(U), NEW b \in Seq(U), b # << >>
  PROVE  Append(a, b[1]) \o Tail(b) = a \o b /\ Append(a, b[1]) \in Seq(U) /\ Tail(b) \in Seq(U)
<1>1. PICK x, t : x = b[1] /\ t = Tail(b)
  OBVIOUS
<1>2. /\ t \in Seq(U) /\ Len(t) = Len(b) - 1 /\ Len(b) \in Nat \ {0}
      /\ \A i \in 1..Len(t) : t[i] = b[i + 1]
  BY <1>1, HeadTailProperties, EmptySeq
<1>3. x \in U
  BY <1>1, <1>2, ElementOfSeq
<1>4. PICK c : c = Append(a, x)
  OBVIOUS
<1>5. /\ c \in Seq(U) /\ Len(c) = Len(a) + 1 /\ Len(a) \in Nat
      /\ \A i \in 1..Len(a) : c[i] = a[i]
      /\ c[Len(a) + 1] = x
  BY <1>3, <1>4
<1>6. /\ a \o b \in Seq(U) /\ Len(a \o b) = Len(a) + Len(b)
      /\ \A i \in 1..(Len(a) + Len(b)) : (a \o b)[i] = IF i <= Len(a) THEN a[i] ELSE b[i - Len(a)]
  BY ConcatProperties
<1>7. /\ c \o t \in Seq(U) /\ Len(c \o t) = Len(c) + Len(t)
      /\ \A i \in 1..(Len(c) + Len(t)) : (c \o t)[i] = IF i <= Len(c) THEN c[i] ELSE t[i - Len(c)]
  BY <1>2, <1>5, ConcatProperties
<1>8. ASSUME NEW i \in 1..Len(a \o b)
      PROVE  (a \o b)[i] = (c \o t)[i]
  <2>1. i \in 1..(Len(a) + Len(b)) /\ i \in 1..(Len(c) + Len(t))
    BY <1>2, <1>5, <1>6
  <2>2. CASE i <= Len(a)
    <3>1. i <= Len(c) /\ i \in 1..Len(a)
      BY <1>5, <2>1, <2>2
    <3> QED BY <1>5, <1>6, <1>7, <2>1, <2>2, <3>1
  <2>3. CASE i = Len(a) + 1
    <3>1. i <= Len(c) /\ ~(i <= Len(a)) /\ i - Len(a) = 1
      BY <1>5, <2>3
    <3> QED BY <1>1, <1>5, <1>6, <1>7, <2>1, <2>3, <3>1
  <2>4. CASE i > Len(a) + 1
    <3>1. /\ ~(i <= Len(c)) /\ ~(i <= Len(a)) /\ i - Len(c) \in 1..Len(t)
          /\ (i - Len(c)) + 1 = i - Len(a)
      BY <1>2, <1>5, <2>1, <2>4
    <3>2. t[i - Len(c)] = b[i - Len(a)]
      BY <1>2, <3>1
    <3> QED BY <1>6, <1>7, <2>1, <3>1, <3>2
  <2> QED BY <1>5, <2>1, <2>2, <2>3, <2>4
<1>9. Len(a \o b) = Len(c \o t)
  BY <1>2, <1>5, <1>6, <1>7
<1>10. a \o b = c \o t
  BY <1>6, <1>7, <1>8, <1>9, SeqEqual
<1> QED BY <1>1, <1>2, <1>4, <1>5, <1>10
=============================================================================
