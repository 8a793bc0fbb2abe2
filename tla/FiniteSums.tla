----------------------------- MODULE FiniteSums -----------------------------
(***************************************************************************)
(* Sums over finite sets, as SumFunctionOnSet of the library computes them:*)
(* an element chosen first, then the sum of the others.                    *)
(***************************************************************************)
EXTENDS Integers, FiniteSets, Functions, FiniteSetTheorems, TLAPS

First(s) == CHOOSE x \in s : TRUE

\* One step of the sum of f over s, the sum of what is left given by g.
SumStep(f, g, s) == IF s = {} THEN 0 ELSE f[First(s)] + g[s \ {First(s)}]

IsSum(f, g, S) == g = [s \in SUBSET S |-> SumStep(f, g, s)]

SumsUpTo(f, S, n) ==
  \E g : \A s \in SUBSET S : Cardinality(s) <= n => g[s] = SumStep(f, g, s)

LEMMA NatMin ==
  ASSUME NEW T \in SUBSET Nat, T # {}
  PROVE  \E n \in T : \A m \in T : n <= m
<1> DEFINE Less == {p \in Nat \X Nat : p[1] < p[2]}
<1>1. IsWellFoundedOn(Less, Nat)
  BY NatLessThanWellFounded DEF OpToRel
<1>2. PICK n \in T : \A m \in T : <<m, n>> \notin Less
  <2> HIDE DEF Less
  <2> QED
    BY <1>1, WFMin
<1>3. ASSUME NEW m \in T
      PROVE  n <= m
  <2>1. m \in Nat /\ n \in Nat
    OBVIOUS
  <2>2. m < n => <<m, n>> \in Less
    BY <2>1
  <2>3. ~ (m < n)
    BY <1>2, <2>2
  <2> QED
    BY <2>1, <2>3
<1> QED
  BY <1>3

LEMMA FirstIn ==
  ASSUME NEW s, s # {}
  PROVE  First(s) \in s
BY DEF First

LEMMA SmallerSet ==
  ASSUME NEW s, IsFiniteSet(s), NEW x \in s
  PROVE  /\ IsFiniteSet(s \ {x})
         /\ Cardinality(s \ {x}) \in Nat
         /\ Cardinality(s \ {x}) = Cardinality(s) - 1
BY FS_RemoveElement, FS_CardinalityType

LEMMA SumsStep ==
  ASSUME NEW S, IsFiniteSet(S), NEW f, NEW n \in Nat, SumsUpTo(f, S, n)
  PROVE  SumsUpTo(f, S, n + 1)
<1>1. PICK g : \A s \in SUBSET S : Cardinality(s) <= n => g[s] = SumStep(f, g, s)
  BY DEF SumsUpTo
<1> DEFINE h == [s \in SUBSET S |-> IF Cardinality(s) <= n THEN g[s] ELSE SumStep(f, g, s)]
<1>2. ASSUME NEW s \in SUBSET S, Cardinality(s) <= n + 1
      PROVE  h[s] = SumStep(f, h, s)
  <2>1. h[s] = SumStep(f, g, s)
    BY <1>1
  <2>2. CASE s = {}
    BY <2>1, <2>2 DEF SumStep
  <2>3. CASE s # {}
    <3>1. First(s) \in s /\ IsFiniteSet(s) /\ Cardinality(s) \in Nat
      BY <2>3, FirstIn, FS_Subset, FS_CardinalityType
    <3>2. s \ {First(s)} \in SUBSET S /\ Cardinality(s \ {First(s)}) <= n
      BY <1>2, <3>1, SmallerSet
    <3>3. h[s \ {First(s)}] = g[s \ {First(s)}]
      BY <3>2
    <3> QED
      BY <2>1, <2>3, <3>3 DEF SumStep
  <2> QED
    BY <2>2, <2>3
<1> QED
  BY <1>2 DEF SumsUpTo

LEMMA SumsExist ==
  ASSUME NEW S, IsFiniteSet(S), NEW f, NEW n \in Nat
  PROVE  SumsUpTo(f, S, n)
<1> DEFINE T == {m \in Nat : ~ SumsUpTo(f, S, m)}
<1>1. SUFFICES T = {}
  OBVIOUS
<1>2. SUFFICES ASSUME T # {}
               PROVE  FALSE
  OBVIOUS
<1>3. PICK m \in T : \A k \in T : m <= k
  BY <1>2, NatMin
<1>4. SumsUpTo(f, S, 0)
  <2> DEFINE g == [s \in SUBSET S |-> 0]
  <2>1. ASSUME NEW s \in SUBSET S, Cardinality(s) <= 0
        PROVE  g[s] = SumStep(f, g, s)
    BY <2>1, FS_Subset, FS_EmptySet, FS_CardinalityType DEF SumStep
  <2> QED
    BY <2>1 DEF SumsUpTo
<1>5. m # 0 /\ m \in Nat
  BY <1>4
<1>6. SumsUpTo(f, S, m - 1) /\ m - 1 \in Nat
  BY <1>3, <1>5
<1>7. SumsUpTo(f, S, (m - 1) + 1)
  BY <1>6, SumsStep
<1>8. (m - 1) + 1 = m
  BY <1>5
<1> QED
  BY <1>7, <1>8

LEMMA SumsDefined ==
  ASSUME NEW S, IsFiniteSet(S), NEW f
  PROVE  \E g : IsSum(f, g, S)
<1>1. Cardinality(S) \in Nat
  BY FS_CardinalityType
<1>2. PICK g : \A s \in SUBSET S : Cardinality(s) <= Cardinality(S) => g[s] = SumStep(f, g, s)
  BY <1>1, SumsExist DEF SumsUpTo
<1> DEFINE h == [s \in SUBSET S |-> g[s]]
<1>3. ASSUME NEW s \in SUBSET S
      PROVE  h[s] = SumStep(f, h, s)
  <2>1. g[s] = SumStep(f, g, s)
    BY <1>2, FS_Subset
  <2>2. s # {} => h[s \ {First(s)}] = g[s \ {First(s)}]
    OBVIOUS
  <2> QED
    BY <2>1, <2>2 DEF SumStep
<1>4. h = [s \in SUBSET S |-> SumStep(f, h, s)]
  BY <1>3
<1> QED
  BY <1>4 DEF IsSum

LEMMA SumIsStep ==
  ASSUME NEW S, IsFiniteSet(S), NEW f
  PROVE  \E g : IsSum(f, g, S) /\ SumFunctionOnSet(f, S) = g[S]
<1> DEFINE it == CHOOSE g : IsSum(f, g, S)
<1>1. IsSum(f, it, S)
  BY SumsDefined
<1>2. SumFunctionOnSet(f, S) = it[S]
  BY DEF SumFunctionOnSet, FoldFunctionOnSet, MapThenFoldSet, IsSum, SumStep, First
<1> QED
  BY <1>1, <1>2

-----------------------------------------------------------------------------
(* Induction over finite sets, as the fewest elements of a counterexample.  *)

LEMMA FewestElements ==
  ASSUME NEW S, IsFiniteSet(S), NEW T \in SUBSET (SUBSET S), T # {}
  PROVE  \E s \in T : \A x \in s : s \ {x} \notin T
<1> DEFINE sizes == {Cardinality(s) : s \in T}
<1>1. ASSUME NEW s \in T
      PROVE  IsFiniteSet(s) /\ Cardinality(s) \in Nat
  BY FS_Subset, FS_CardinalityType
<1>2. sizes \in SUBSET Nat /\ sizes # {}
  BY <1>1
<1>3. PICK n \in sizes : \A m \in sizes : n <= m
  <2> HIDE DEF sizes
  <2> QED
    BY <1>2, NatMin
<1>4. PICK s \in T : Cardinality(s) = n
  OBVIOUS
<1>5. ASSUME NEW x \in s, s \ {x} \in T
      PROVE  FALSE
  <2>1. Cardinality(s \ {x}) = Cardinality(s) - 1 /\ Cardinality(s) \in Nat
    BY <1>1, SmallerSet
  <2>2. Cardinality(s \ {x}) \in sizes
    BY <1>5
  <2>3. n <= Cardinality(s \ {x})
    BY <1>3, <2>2
  <2> QED
    BY <1>4, <2>1, <2>3
<1> QED
  BY <1>5

\* Two sums that choose alike agree where their functions do.
LEMMA SumsAgree ==
  ASSUME NEW S, IsFiniteSet(S), NEW R, IsFiniteSet(R), NEW f, NEW h, NEW g, NEW k,
         IsSum(f, g, S), IsSum(h, k, R), S \subseteq R, \A x \in S : f[x] = h[x]
  PROVE  \A s \in SUBSET S : g[s] = k[s]
<1> DEFINE T == {s \in SUBSET S : g[s] # k[s]}
<1>1. SUFFICES ASSUME T # {}
               PROVE  FALSE
  OBVIOUS
<1>2. PICK s \in T : \A x \in s : s \ {x} \notin T
  <2>1. T \in SUBSET (SUBSET S)
    OBVIOUS
  <2> HIDE DEF T
  <2> QED
    BY <1>1, <2>1, FewestElements
<1>3. s \in SUBSET S /\ s \in SUBSET R
  OBVIOUS
<1>4. g[s] = SumStep(f, g, s) /\ k[s] = SumStep(h, k, s)
  BY <1>3 DEF IsSum
<1>5. s # {}
  BY <1>4 DEF SumStep
<1>6. First(s) \in s
  BY <1>5, FirstIn
<1>7. g[s \ {First(s)}] = k[s \ {First(s)}]
  BY <1>2, <1>3, <1>6
<1> QED
  BY <1>3, <1>4, <1>5, <1>6, <1>7 DEF SumStep

LEMMA SumUnfolds ==
  ASSUME NEW S, IsFiniteSet(S), NEW f, S # {}
  PROVE  SumFunctionOnSet(f, S) = f[First(S)] + SumFunctionOnSet(f, S \ {First(S)})
<1> DEFINE R == S \ {First(S)}
<1>1. IsFiniteSet(R) /\ R \subseteq S
  BY FS_Subset
<1>2. PICK g : IsSum(f, g, S) /\ SumFunctionOnSet(f, S) = g[S]
  BY SumIsStep
<1>3. PICK k : IsSum(f, k, R) /\ SumFunctionOnSet(f, R) = k[R]
  <2> HIDE DEF R
  <2> QED
    BY <1>1, SumIsStep
<1>4. k[R] = g[R]
  <2> HIDE DEF R
  <2> QED
    BY <1>1, <1>2, <1>3, SumsAgree
<1>5. g[S] = f[First(S)] + g[R]
  BY <1>2 DEF IsSum, SumStep
<1> QED
  BY <1>2, <1>3, <1>4, <1>5

-----------------------------------------------------------------------------
(* What the proofs about balances use.                                      *)

LEMMA SumEmpty ==
  ASSUME NEW f
  PROVE  SumFunctionOnSet(f, {}) = 0
<1>1. PICK g : IsSum(f, g, {}) /\ SumFunctionOnSet(f, {}) = g[{}]
  BY SumIsStep, FS_EmptySet
<1> QED
  BY <1>1 DEF IsSum, SumStep

LEMMA SumSame ==
  ASSUME NEW S, IsFiniteSet(S), NEW f, NEW h, \A x \in S : f[x] = h[x]
  PROVE  SumFunctionOnSet(f, S) = SumFunctionOnSet(h, S)
<1>1. PICK g : IsSum(f, g, S) /\ SumFunctionOnSet(f, S) = g[S]
  BY SumIsStep
<1>2. PICK k : IsSum(h, k, S) /\ SumFunctionOnSet(h, S) = k[S]
  BY SumIsStep
<1> QED
  BY <1>1, <1>2, SumsAgree

LEMMA SumType ==
  ASSUME NEW S, IsFiniteSet(S), NEW A, 0 \in A, \A a, b \in A : a + b \in A,
         NEW f, \A x \in S : f[x] \in A
  PROVE  SumFunctionOnSet(f, S) \in A
<1> DEFINE T == {s \in SUBSET S : SumFunctionOnSet(f, s) \notin A}
<1>1. SUFFICES ASSUME T # {}
               PROVE  FALSE
  OBVIOUS
<1>2. PICK s \in T : \A x \in s : s \ {x} \notin T
  <2>1. T \in SUBSET (SUBSET S)
    OBVIOUS
  <2> HIDE DEF T
  <2> QED
    BY <1>1, <2>1, FewestElements
<1>3. s # {} /\ IsFiniteSet(s)
  <2>1. SumFunctionOnSet(f, s) \notin A /\ s \in SUBSET S
    OBVIOUS
  <2>2. SumFunctionOnSet(f, {}) \in A
    BY SumEmpty
  <2>3. s # {}
    BY <2>1, <2>2
  <2> QED
    BY <2>1, <2>3, FS_Subset
<1>4. First(s) \in s /\ f[First(s)] \in A
  BY <1>3, FirstIn
<1>5. SumFunctionOnSet(f, s \ {First(s)}) \in A
  BY <1>2, <1>4
<1>6. SumFunctionOnSet(f, s) = f[First(s)] + SumFunctionOnSet(f, s \ {First(s)})
  BY <1>3, SumUnfolds
<1> QED
  BY <1>4, <1>5, <1>6

LEMMA SumIsInt ==
  ASSUME NEW S, IsFiniteSet(S), NEW f, \A x \in S : f[x] \in Int
  PROVE  SumFunctionOnSet(f, S) \in Int
<1>1. 0 \in Int /\ \A a, b \in Int : a + b \in Int
  OBVIOUS
<1> QED
  BY <1>1, SumType, Zenon

LEMMA SumIsNat ==
  ASSUME NEW S, IsFiniteSet(S), NEW f, \A x \in S : f[x] \in Nat
  PROVE  SumFunctionOnSet(f, S) \in Nat
<1>1. 0 \in Nat /\ \A a, b \in Nat : a + b \in Nat
  OBVIOUS
<1> QED
  BY <1>1, SumType, Zenon

\* Whichever element is taken out, it is its own amount that goes.
LEMMA SumRemove ==
  ASSUME NEW S, IsFiniteSet(S), NEW f, \A x \in S : f[x] \in Int
  PROVE  \A x \in S : SumFunctionOnSet(f, S) = f[x] + SumFunctionOnSet(f, S \ {x})
<1> DEFINE Off(s, x) == SumFunctionOnSet(f, s) # f[x] + SumFunctionOnSet(f, s \ {x})
           T == {s \in SUBSET S : \E x \in s : Off(s, x)}
<1>1. SUFFICES ASSUME T # {}
               PROVE  FALSE
  OBVIOUS
<1>2. PICK s \in T : \A x \in s : s \ {x} \notin T
  <2>1. T \in SUBSET (SUBSET S)
    OBVIOUS
  <2> HIDE DEF T
  <2> QED
    BY <1>1, <2>1, FewestElements
<1>3. PICK x \in s : Off(s, x)
  OBVIOUS
<1> DEFINE y == First(s)
<1>4. IsFiniteSet(s) /\ s # {} /\ y \in s
  BY FS_Subset, FirstIn
<1>5. SumFunctionOnSet(f, s) = f[y] + SumFunctionOnSet(f, s \ {y})
  BY <1>4, SumUnfolds
<1>6. x # y
  BY <1>3, <1>5
<1>7. ~ Off(s \ {y}, x) /\ ~ Off(s \ {x}, y)
  <2>1. s \ {y} \in SUBSET S /\ s \ {x} \in SUBSET S /\ x \in s \ {y} /\ y \in s \ {x}
    BY <1>4, <1>6
  <2>2. s \ {y} \notin T /\ s \ {x} \notin T
    BY <1>2, <1>4
  <2> QED
    BY <2>1, <2>2
<1>8. (s \ {y}) \ {x} = (s \ {x}) \ {y}
  OBVIOUS
<1>9. /\ SumFunctionOnSet(f, (s \ {x}) \ {y}) \in Int
      /\ f[x] \in Int /\ f[y] \in Int
  <2>1. IsFiniteSet((s \ {x}) \ {y})
    BY FS_Subset
  <2>2. \A z \in (s \ {x}) \ {y} : f[z] \in Int
    OBVIOUS
  <2> QED
    BY <2>1, <2>2, <1>4, SumIsInt
<1> DEFINE rest == SumFunctionOnSet(f, (s \ {x}) \ {y})
<1>10. /\ SumFunctionOnSet(f, s \ {y}) = f[x] + rest
       /\ SumFunctionOnSet(f, s \ {x}) = f[y] + rest
  BY <1>7, <1>8
<1>11. SumFunctionOnSet(f, s) # f[x] + SumFunctionOnSet(f, s \ {x})
  BY <1>3
<1> HIDE DEF y
<1> QED
  BY <1>5, <1>9, <1>10, <1>11

\* One more element, the amounts of the others left alone.
LEMMA SumAdd ==
  ASSUME NEW S, IsFiniteSet(S), NEW x, x \notin S, NEW f, NEW h,
         \A y \in S : f[y] \in Int /\ h[y] = f[y], h[x] \in Int
  PROVE  SumFunctionOnSet(h, S \cup {x}) = SumFunctionOnSet(f, S) + h[x]
<1> DEFINE R == S \cup {x}
<1>1. IsFiniteSet(R) /\ x \in R /\ R \ {x} = S /\ \A y \in R : h[y] \in Int
  BY FS_AddElement
<1>2. SumFunctionOnSet(h, R) = h[x] + SumFunctionOnSet(h, S)
  <2> HIDE DEF R
  <2>1. \A y \in R : SumFunctionOnSet(h, R) = h[y] + SumFunctionOnSet(h, R \ {y})
    BY <1>1, SumRemove
  <2> QED
    BY <1>1, <2>1
<1>3. SumFunctionOnSet(h, S) = SumFunctionOnSet(f, S) /\ SumFunctionOnSet(f, S) \in Int
  BY SumSame, SumIsInt
<1> QED
  BY <1>2, <1>3

\* The amount of one element changes.
LEMMA SumUpdate ==
  ASSUME NEW S, IsFiniteSet(S), NEW x \in S, NEW f, NEW h,
         \A y \in S : f[y] \in Int /\ h[y] \in Int,
         \A y \in S \ {x} : h[y] = f[y]
  PROVE  SumFunctionOnSet(h, S) = SumFunctionOnSet(f, S) - f[x] + h[x]
<1> DEFINE R == S \ {x}
<1>1. IsFiniteSet(R) /\ \A y \in R : f[y] \in Int /\ h[y] = f[y]
  BY FS_Subset
<1>2. SumFunctionOnSet(h, R) = SumFunctionOnSet(f, R) /\ SumFunctionOnSet(f, R) \in Int
  BY <1>1, SumSame, SumIsInt
<1>3. /\ SumFunctionOnSet(f, S) = f[x] + SumFunctionOnSet(f, R)
      /\ SumFunctionOnSet(h, S) = h[x] + SumFunctionOnSet(h, R)
  BY SumRemove
<1> QED
  BY <1>2, <1>3

\* More elements with amounts that are not negative sum to no less.
LEMMA SumSubset ==
  ASSUME NEW S, IsFiniteSet(S), NEW f, \A x \in S : f[x] \in Nat
  PROVE  \A R \in SUBSET S : SumFunctionOnSet(f, R) <= SumFunctionOnSet(f, S)
<1> DEFINE T == {s \in SUBSET S : \E R \in SUBSET s : ~ (SumFunctionOnSet(f, R) <= SumFunctionOnSet(f, s))}
<1>1. SUFFICES ASSUME T # {}
               PROVE  FALSE
  OBVIOUS
<1>2. PICK s \in T : \A x \in s : s \ {x} \notin T
  <2>1. T \in SUBSET (SUBSET S)
    OBVIOUS
  <2> HIDE DEF T
  <2> QED
    BY <1>1, <2>1, FewestElements
<1>3. PICK R \in SUBSET s : ~ (SumFunctionOnSet(f, R) <= SumFunctionOnSet(f, s))
  OBVIOUS
<1>4. IsFiniteSet(s) /\ IsFiniteSet(R) /\ \A x \in s : f[x] \in Nat
  BY FS_Subset
<1>5. SumFunctionOnSet(f, s) \in Nat
  BY <1>4, SumIsNat
<1>6. R # s
  BY <1>3, <1>5
<1>7. PICK x \in s : x \notin R
  BY <1>6
<1>8. SumFunctionOnSet(f, R) <= SumFunctionOnSet(f, s \ {x})
  <2>1. s \ {x} \in SUBSET S /\ R \in SUBSET (s \ {x})
    BY <1>7
  <2>2. s \ {x} \notin T
    BY <1>2
  <2> QED
    BY <2>1, <2>2
<1>9. SumFunctionOnSet(f, s) = f[x] + SumFunctionOnSet(f, s \ {x})
  BY <1>4, SumRemove
<1>10. /\ SumFunctionOnSet(f, s \ {x}) \in Nat
       /\ SumFunctionOnSet(f, R) \in Nat
  <2>1. IsFiniteSet(s \ {x}) /\ \A z \in s \ {x} : f[z] \in Nat
    BY <1>4, FS_Subset
  <2> QED
    BY <1>4, <2>1, SumIsNat
<1> QED
  BY <1>3, <1>4, <1>8, <1>9, <1>10

\* What is taken out of a sum and what is left make up the sum.
LEMMA SumSplit ==
  ASSUME NEW S, IsFiniteSet(S), NEW f, \A x \in S : f[x] \in Int
  PROVE  \A R \in SUBSET S :
           SumFunctionOnSet(f, S) = SumFunctionOnSet(f, R) + SumFunctionOnSet(f, S \ R)
<1> DEFINE Off(s) == SumFunctionOnSet(f, S) # SumFunctionOnSet(f, s) + SumFunctionOnSet(f, S \ s)
           T == {s \in SUBSET S : Off(s)}
<1>1. SUFFICES ASSUME T # {}
               PROVE  FALSE
  OBVIOUS
<1>2. PICK s \in T : \A x \in s : s \ {x} \notin T
  <2>1. T \in SUBSET (SUBSET S)
    OBVIOUS
  <2> HIDE DEF T
  <2> QED
    BY <1>1, <2>1, FewestElements
<1>3. SumFunctionOnSet(f, S) \in Int
  BY SumIsInt
<1>4. s # {}
  <2>1. s = {} => S \ s = S
    OBVIOUS
  <2> QED
    BY <1>2, <1>3, <2>1, SumEmpty
<1>5. PICK x \in s : TRUE
  BY <1>4
<1> DEFINE less == s \ {x}
<1>6. SumFunctionOnSet(f, S) = SumFunctionOnSet(f, less) + SumFunctionOnSet(f, S \ less)
  BY <1>2, <1>5
<1>7. SumFunctionOnSet(f, s) = f[x] + SumFunctionOnSet(f, less)
  <2>1. IsFiniteSet(s) /\ \A y \in s : f[y] \in Int
    BY FS_Subset
  <2> QED
    BY <1>5, <2>1, SumRemove
<1>8. SumFunctionOnSet(f, S \ less) = f[x] + SumFunctionOnSet(f, S \ s)
  <2>1. /\ IsFiniteSet(S \ less) /\ x \in S \ less
        /\ \A y \in S \ less : f[y] \in Int
    BY <1>5, FS_Subset
  <2>2. (S \ less) \ {x} = S \ s
    BY <1>5
  <2>3. \A y \in S \ less :
          SumFunctionOnSet(f, S \ less) = f[y] + SumFunctionOnSet(f, (S \ less) \ {y})
    <3> HIDE DEF less
    <3> QED
      BY <2>1, SumRemove
  <2> QED
    BY <2>1, <2>2, <2>3
<1>9. /\ f[x] \in Int /\ SumFunctionOnSet(f, less) \in Int
      /\ SumFunctionOnSet(f, S \ s) \in Int
  <2>1. IsFiniteSet(less) /\ IsFiniteSet(S \ s)
    BY FS_Subset
  <2>2. \A y \in less : f[y] \in Int
    BY <1>5
  <2>3. \A y \in S \ s : f[y] \in Int
    OBVIOUS
  <2> HIDE DEF less
  <2> QED
    BY <1>5, <2>1, <2>2, <2>3, SumIsInt
<1>10. SumFunctionOnSet(f, S) = SumFunctionOnSet(f, s) + SumFunctionOnSet(f, S \ s)
  <2> HIDE DEF less
  <2> QED
    BY <1>6, <1>7, <1>8, <1>9
<1> QED
  BY <1>10

-----------------------------------------------------------------------------
(* The same for SumFunction, the sum of all that a function gives.          *)

LEMMA TotalEmpty ==
  ASSUME NEW f, DOMAIN f = {}
  PROVE  SumFunction(f) = 0
BY SumEmpty DEF SumFunction

LEMMA TotalOne ==
  ASSUME NEW x, NEW f, DOMAIN f = {x}, f[x] \in Int
  PROVE  SumFunction(f) = f[x]
<1>1. IsFiniteSet({}) /\ x \notin {} /\ {} \cup {x} = {x}
  BY FS_EmptySet
<1>2. SumFunctionOnSet(f, {} \cup {x}) = SumFunctionOnSet(f, {}) + f[x]
  BY <1>1, SumAdd
<1> QED
  BY <1>1, <1>2, SumEmpty DEF SumFunction

LEMMA TotalIsInt ==
  ASSUME NEW S, IsFiniteSet(S), NEW f \in [S -> Int]
  PROVE  SumFunction(f) \in Int
BY SumIsInt DEF SumFunction

LEMMA TotalIsNat ==
  ASSUME NEW S, IsFiniteSet(S), NEW f \in [S -> Nat]
  PROVE  SumFunction(f) \in Nat
BY SumIsNat DEF SumFunction

LEMMA TotalAdd ==
  ASSUME NEW S, IsFiniteSet(S), NEW x, x \notin S,
         NEW f \in [S -> Int], NEW h \in [S \cup {x} -> Int], \A y \in S : h[y] = f[y]
  PROVE  SumFunction(h) = SumFunction(f) + h[x]
<1>1. \A y \in S : f[y] \in Int /\ h[y] = f[y]
  OBVIOUS
<1>2. h[x] \in Int
  OBVIOUS
<1>3. SumFunctionOnSet(h, S \cup {x}) = SumFunctionOnSet(f, S) + h[x]
  BY <1>1, <1>2, SumAdd
<1> QED
  BY <1>3 DEF SumFunction

LEMMA TotalSubset ==
  ASSUME NEW S, IsFiniteSet(S), NEW R \in SUBSET S,
         NEW f \in [S -> Nat], NEW h \in [R -> Nat], \A y \in R : h[y] = f[y]
  PROVE  SumFunction(h) <= SumFunction(f)
<1>1. \A x \in S : f[x] \in Nat
  OBVIOUS
<1>2. SumFunctionOnSet(f, R) <= SumFunctionOnSet(f, S)
  BY <1>1, SumSubset
<1>3. SumFunctionOnSet(h, R) = SumFunctionOnSet(f, R)
  BY FS_Subset, SumSame
<1> QED
  BY <1>2, <1>3 DEF SumFunction

LEMMA TotalSplit ==
  ASSUME NEW S, IsFiniteSet(S), NEW R, NEW T, S = R \cup T, R \cap T = {},
         NEW f \in [S -> Int], NEW g \in [R -> Int], NEW h \in [T -> Int],
         \A y \in R : g[y] = f[y], \A y \in T : h[y] = f[y]
  PROVE  SumFunction(f) = SumFunction(g) + SumFunction(h)
<1>1. (\A x \in S : f[x] \in Int) /\ R \in SUBSET S /\ S \ R = T
  OBVIOUS
<1>2. SumFunctionOnSet(f, S) = SumFunctionOnSet(f, R) + SumFunctionOnSet(f, S \ R)
  BY <1>1, SumSplit
<1>3. IsFiniteSet(R) /\ IsFiniteSet(T)
  BY FS_Subset
<1>4. /\ SumFunctionOnSet(g, R) = SumFunctionOnSet(f, R)
      /\ SumFunctionOnSet(h, T) = SumFunctionOnSet(f, T)
  BY <1>3, SumSame
<1> QED
  BY <1>1, <1>2, <1>4 DEF SumFunction

\* What one holder gives another stays among them.
LEMMA TotalMove ==
  ASSUME NEW S, IsFiniteSet(S), NEW f \in [S -> Int], NEW h \in [S -> Int],
         NEW from \in S, NEW to \in S, from # to, NEW amount \in Int,
         h[from] = f[from] - amount, h[to] = f[to] + amount,
         \A y \in S \ {from, to} : h[y] = f[y]
  PROVE  SumFunction(h) = SumFunction(f)
<1> DEFINE g == [f EXCEPT ![from] = h[from]]
<1>1. /\ g \in [S -> Int] /\ g[from] = h[from] /\ g[to] = f[to]
      /\ \A y \in S \ {from} : g[y] = f[y]
      /\ \A y \in S \ {to} : h[y] = g[y]
  OBVIOUS
<1>2. \A y \in S : f[y] \in Int /\ g[y] \in Int /\ h[y] \in Int
  OBVIOUS
<1> HIDE DEF g
<1>3. SumFunctionOnSet(g, S) = SumFunctionOnSet(f, S) - f[from] + g[from]
  BY <1>1, <1>2, SumUpdate
<1>4. SumFunctionOnSet(h, S) = SumFunctionOnSet(g, S) - g[to] + h[to]
  BY <1>1, <1>2, SumUpdate
<1>5. SumFunctionOnSet(f, S) \in Int
  BY <1>2, SumIsInt
<1>6. SumFunctionOnSet(h, S) = SumFunctionOnSet(f, S)
  BY <1>1, <1>2, <1>3, <1>4, <1>5
<1> QED
  BY <1>6 DEF SumFunction
=============================================================================
