---------------------------- MODULE SumTheorems ----------------------------
(***************************************************************************)
(* What a sum over a finite set is: facts about SumFunctionOnSet of the    *)
(* community module Functions, for the theorems about stock.               *)
(***************************************************************************)
EXTENDS Functions, Integers, FiniteSetTheorems, WellFoundedInduction, TLAPS

\* Induction over the subsets of a finite set: the set itself is in Has if a
\* subset is in Has whenever all its own proper subsets are.
LEMMA SubsetInduction ==
  ASSUME NEW S, IsFiniteSet(S), NEW Has,
         \A s \in SUBSET S : (\A t \in SUBSET s : t # s => t \in Has) => s \in Has
  PROVE  S \in Has
<1>1. IsWellFoundedOn(StrictSubsetOrdering(S), SUBSET S)
  BY FS_StrictSubsetOrderingWellFounded, FS_FiniteSubsetsOfFinite
<1> DEFINE Lacks == (SUBSET S) \ Has
<1> SUFFICES ASSUME Lacks # {} PROVE FALSE
  OBVIOUS
<1>2. Lacks \in SUBSET (SUBSET S)
  OBVIOUS
<1>3. PICK s \in Lacks : \A t \in Lacks : <<t, s>> \notin StrictSubsetOrdering(S)
  <2> HIDE DEF Lacks
  <2> QED
    BY <1>1, <1>2, WFMin
<1>4. ASSUME NEW t \in SUBSET s, t # s, t \notin Has PROVE FALSE
  <2>1. t \in Lacks /\ s \in SUBSET S
    BY <1>4
  <2>2. <<t, s>> \in StrictSubsetOrdering(S)
    BY <2>1, <1>4 DEF StrictSubsetOrdering
  <2> QED
    BY <2>1, <2>2, <1>3
<1> QED
  BY <1>3, <1>4

\* The element a sum draws next.
Drawn(s) == CHOOSE x \in s : TRUE

LEMMA DrawnIn ==
  ASSUME NEW s, s # {}
  PROVE  Drawn(s) \in s
BY DEF Drawn

-----------------------------------------------------------------------------
(* The recursion that defines the sum. *)

\* it adds up f over the subsets of S, drawing one element after the other.
Adding(f, S, it) ==
  it = [s \in SUBSET S |-> IF s = {} THEN 0 ELSE f[Drawn(s)] + it[s \ {Drawn(s)}]]

\* The function the recursion defines.
Solution(f, S) == CHOOSE it : Adding(f, S, it)

\* The operator of the community module is the solution of that recursion.
LEMMA SumIsAdding ==
  ASSUME NEW f, NEW S
  PROVE  SumFunctionOnSet(f, S) = Solution(f, S)[S]
BY DEF SumFunctionOnSet, FoldFunctionOnSet, MapThenFoldSet, Solution, Adding, Drawn

\* What a solution is on the empty set and on any other.
LEMMA AddingStep ==
  ASSUME NEW f, NEW S, NEW it, Adding(f, S, it)
  PROVE  /\ it[{}] = 0
         /\ \A s \in SUBSET S : s # {} => it[s] = f[Drawn(s)] + it[s \ {Drawn(s)}]
BY DEF Adding

\* A solution for a set and one for a larger set agree on it.
LEMMA AddingUnique ==
  ASSUME NEW f, NEW S, NEW T, IsFiniteSet(S), S \subseteq T,
         NEW a, NEW b, Adding(f, S, a), Adding(f, T, b)
  PROVE  a[S] = b[S]
<1> DEFINE Has == {s \in SUBSET S : a[s] = b[s]}
<1>1. ASSUME NEW s \in SUBSET S, \A t \in SUBSET s : t # s => t \in Has
      PROVE  s \in Has
  <2>1. CASE s = {}
    BY <2>1, AddingStep
  <2>2. CASE s # {}
    <3>1. Drawn(s) \in s
      BY <2>2, DrawnIn
    <3>2. s \ {Drawn(s)} \in SUBSET s /\ s \ {Drawn(s)} # s
      BY <3>1
    <3>3. a[s \ {Drawn(s)}] = b[s \ {Drawn(s)}]
      BY <1>1, <3>2
    <3>4. s \in SUBSET T
      OBVIOUS
    <3>5. a[s] = f[Drawn(s)] + a[s \ {Drawn(s)}]
      BY <2>2, AddingStep
    <3>6. b[s] = f[Drawn(s)] + b[s \ {Drawn(s)}]
      BY <2>2, <3>4, AddingStep
    <3> QED
      BY <3>3, <3>5, <3>6
  <2> QED
    BY <2>1, <2>2
<1> HIDE DEF Has
<1>2. S \in Has
  BY <1>1, SubsetInduction
<1> QED
  BY <1>2 DEF Has

\* The recursion has a solution.
LEMMA AddingExists ==
  ASSUME NEW f, NEW S, IsFiniteSet(S)
  PROVE  Adding(f, S, Solution(f, S))
<1> DEFINE Has == {s \in SUBSET S : Adding(f, s, Solution(f, s))}
<1>1. ASSUME NEW s \in SUBSET S, \A t \in SUBSET s : t # s => t \in Has
      PROVE  s \in Has
  <2> DEFINE it == [u \in SUBSET s |-> IF u = {} THEN 0
                      ELSE f[Drawn(u)] + Solution(f, u \ {Drawn(u)})[u \ {Drawn(u)}]]
  <2>1. ASSUME NEW t \in SUBSET s, t # s
        PROVE  it[t] = Solution(f, t)[t]
    <3>0. Adding(f, t, Solution(f, t))
      BY <1>1, <2>1
    <3>1. CASE t = {}
      BY <3>0, <3>1, AddingStep
    <3>2. CASE t # {}
      <4> DEFINE u == t \ {Drawn(t)}
      <4>1. Drawn(t) \in t
        BY <3>2, DrawnIn
      <4>2. u \in SUBSET s /\ u # s /\ u \subseteq t /\ IsFiniteSet(u)
        BY <4>1, FS_Subset
      <4>3. Adding(f, u, Solution(f, u))
        BY <1>1, <4>2
      <4>4. Solution(f, u)[u] = Solution(f, t)[u]
        BY <3>0, <4>2, <4>3, AddingUnique
      <4>5. Solution(f, t)[t] = f[Drawn(t)] + Solution(f, t)[u]
        BY <3>0, <3>2, AddingStep
      <4>6. it[t] = f[Drawn(t)] + Solution(f, u)[u]
        BY <3>2
      <4> QED
        BY <4>4, <4>5, <4>6
    <3> QED
      BY <3>1, <3>2
  <2>2. ASSUME NEW u \in SUBSET s, u # {}
        PROVE  it[u] = f[Drawn(u)] + it[u \ {Drawn(u)}]
    <3>1. Drawn(u) \in u
      BY <2>2, DrawnIn
    <3>2. u \ {Drawn(u)} \in SUBSET s /\ u \ {Drawn(u)} # s
      BY <3>1
    <3>3. it[u \ {Drawn(u)}] = Solution(f, u \ {Drawn(u)})[u \ {Drawn(u)}]
      BY <2>1, <3>2
    <3>4. it[u] = f[Drawn(u)] + Solution(f, u \ {Drawn(u)})[u \ {Drawn(u)}]
      BY <2>2
    <3> QED
      BY <3>3, <3>4
  <2>3. it[{}] = 0
    OBVIOUS
  <2>4. it = [u \in SUBSET s |-> it[u]]
    OBVIOUS
  <2>5. Adding(f, s, it)
    <3> HIDE DEF it
    <3> QED
      BY <2>2, <2>3, <2>4 DEF Adding
  <2>6. Adding(f, s, Solution(f, s))
    <3> HIDE DEF it
    <3> QED
      BY <2>5 DEF Solution
  <2> QED
    BY <2>6
<1> HIDE DEF Has
<1>2. S \in Has
  BY <1>1, SubsetInduction
<1> QED
  BY <1>2 DEF Has

-----------------------------------------------------------------------------
(* Sums. *)

\* Nothing adds up to zero.
LEMMA SumEmpty ==
  ASSUME NEW f
  PROVE  SumFunctionOnSet(f, {}) = 0
<1>1. Adding(f, {}, Solution(f, {}))
  BY AddingExists, FS_EmptySet
<1> QED
  BY <1>1, AddingStep, SumIsAdding

\* A sum is one of its terms and the sum of the others.
LEMMA SumDraw ==
  ASSUME NEW f, NEW S, IsFiniteSet(S), S # {}
  PROVE  SumFunctionOnSet(f, S)
           = f[Drawn(S)] + SumFunctionOnSet(f, S \ {Drawn(S)})
<1> DEFINE rest == S \ {Drawn(S)}
<1>1. IsFiniteSet(rest) /\ rest \subseteq S
  BY FS_Subset
<1>2. Adding(f, S, Solution(f, S)) /\ Adding(f, rest, Solution(f, rest))
  BY <1>1, AddingExists
<1>3. Solution(f, rest)[rest] = Solution(f, S)[rest]
  BY <1>1, <1>2, AddingUnique
<1>4. Solution(f, S)[S] = f[Drawn(S)] + Solution(f, S)[rest]
  BY <1>2, AddingStep
<1> QED
  BY <1>3, <1>4, SumIsAdding

\* A sum of integers is an integer.
LEMMA SumType ==
  ASSUME NEW S, IsFiniteSet(S), NEW f, \A x \in S : f[x] \in Int
  PROVE  SumFunctionOnSet(f, S) \in Int
<1> DEFINE Has == {s \in SUBSET S : SumFunctionOnSet(f, s) \in Int}
<1>1. ASSUME NEW s \in SUBSET S, \A t \in SUBSET s : t # s => t \in Has
      PROVE  s \in Has
  <2>1. CASE s = {}
    BY <2>1, SumEmpty
  <2>2. CASE s # {}
    <3>1. Drawn(s) \in s
      BY <2>2, DrawnIn
    <3>2. SumFunctionOnSet(f, s \ {Drawn(s)}) \in Int
      BY <3>1, <1>1
    <3>3. SumFunctionOnSet(f, s) = f[Drawn(s)] + SumFunctionOnSet(f, s \ {Drawn(s)})
      BY <2>2, SumDraw, FS_Subset
    <3> QED
      BY <3>1, <3>2, <3>3
  <2> QED
    BY <2>1, <2>2
<1> HIDE DEF Has
<1>2. S \in Has
  BY <1>1, SubsetInduction
<1> QED
  BY <1>2 DEF Has

\* The order in which the elements are drawn does not matter: any one of them
\* may come first.
LEMMA SumTake ==
  ASSUME NEW S, IsFiniteSet(S), NEW f, \A x \in S : f[x] \in Int, NEW x \in S
  PROVE  SumFunctionOnSet(f, S) = f[x] + SumFunctionOnSet(f, S \ {x})
<1> DEFINE Has == {s \in SUBSET S : \A y \in s :
                     SumFunctionOnSet(f, s) = f[y] + SumFunctionOnSet(f, s \ {y})}
<1>1. ASSUME NEW s \in SUBSET S, \A t \in SUBSET s : t # s => t \in Has
      PROVE  s \in Has
  <2> SUFFICES ASSUME NEW y \in s
               PROVE  SumFunctionOnSet(f, s) = f[y] + SumFunctionOnSet(f, s \ {y})
    OBVIOUS
  <2> DEFINE d == Drawn(s)
  <2>1. d \in s /\ IsFiniteSet(s)
    BY DrawnIn, FS_Subset
  <2>2. SumFunctionOnSet(f, s) = f[d] + SumFunctionOnSet(f, s \ {d})
    BY <2>1, SumDraw
  <2> HIDE DEF d
  <2>3. CASE y = d
    BY <2>2, <2>3
  <2>4. CASE y # d
    <3>1. SumFunctionOnSet(f, s \ {d}) = f[y] + SumFunctionOnSet(f, (s \ {d}) \ {y})
      <4>1. y \in s \ {d} /\ s \ {d} \in SUBSET s /\ s \ {d} # s
        BY <2>1, <2>4
      <4> QED
        BY <4>1, <1>1
    <3>2. SumFunctionOnSet(f, s \ {y}) = f[d] + SumFunctionOnSet(f, (s \ {y}) \ {d})
      <4>1. d \in s \ {y} /\ s \ {y} \in SUBSET s /\ s \ {y} # s
        BY <2>1, <2>4
      <4> QED
        BY <4>1, <1>1
    <3> DEFINE rest == SumFunctionOnSet(f, (s \ {d}) \ {y})
    <3>3. SumFunctionOnSet(f, (s \ {y}) \ {d}) = rest
      <4>1. (s \ {d}) \ {y} = (s \ {y}) \ {d}
        OBVIOUS
      <4> QED
        BY <4>1
    <3>4. rest \in Int
      BY <2>1, SumType, FS_Subset
    <3>5. f[d] \in Int /\ f[y] \in Int
      BY <2>1
    <3>6. SumFunctionOnSet(f, s) = f[d] + (f[y] + rest)
      BY <2>2, <3>1
    <3>7. SumFunctionOnSet(f, s \ {y}) = f[d] + rest
      BY <3>2, <3>3
    <3> HIDE DEF rest
    <3> QED
      BY <3>4, <3>5, <3>6, <3>7
  <2> QED
    BY <2>3, <2>4
<1> HIDE DEF Has
<1>2. S \in Has
  BY <1>1, SubsetInduction
<1> QED
  BY <1>2 DEF Has

\* A sum with one more term.
LEMMA SumPut ==
  ASSUME NEW S, IsFiniteSet(S), NEW x, x \notin S,
         NEW f, f[x] \in Int, \A y \in S : f[y] \in Int
  PROVE  SumFunctionOnSet(f, S \cup {x}) = f[x] + SumFunctionOnSet(f, S)
<1>1. IsFiniteSet(S \cup {x}) /\ (S \cup {x}) \ {x} = S
  BY FS_AddElement
<1>2. \A y \in S \cup {x} : f[y] \in Int
  OBVIOUS
<1> QED
  BY <1>1, <1>2, SumTake

\* The sum of sums.
LEMMA SumPlus ==
  ASSUME NEW S, IsFiniteSet(S), NEW f, NEW g, NEW h,
         \A x \in S : g[x] \in Int /\ h[x] \in Int /\ f[x] = g[x] + h[x]
  PROVE  SumFunctionOnSet(f, S) = SumFunctionOnSet(g, S) + SumFunctionOnSet(h, S)
<1> DEFINE Has == {s \in SUBSET S : SumFunctionOnSet(f, s) =
                    SumFunctionOnSet(g, s) + SumFunctionOnSet(h, s)}
<1>1. ASSUME NEW s \in SUBSET S, \A t \in SUBSET s : t # s => t \in Has
      PROVE  s \in Has
  <2>1. CASE s = {}
    BY <2>1, SumEmpty
  <2>2. CASE s # {}
    <3>1. PICK x \in s : TRUE
      BY <2>2
    <3>2. s \ {x} \in Has /\ IsFiniteSet(s) /\ IsFiniteSet(s \ {x})
      BY <1>1, FS_Subset
    <3>3. /\ SumFunctionOnSet(f, s) = f[x] + SumFunctionOnSet(f, s \ {x})
          /\ SumFunctionOnSet(g, s) = g[x] + SumFunctionOnSet(g, s \ {x})
          /\ SumFunctionOnSet(h, s) = h[x] + SumFunctionOnSet(h, s \ {x})
      <4>1. \A y \in s : f[y] \in Int /\ g[y] \in Int /\ h[y] \in Int
        OBVIOUS
      <4> QED
        BY <3>2, <4>1, SumTake
    <3>4. /\ SumFunctionOnSet(g, s \ {x}) \in Int
          /\ SumFunctionOnSet(h, s \ {x}) \in Int
      BY <3>2, SumType
    <3> QED
      BY <3>2, <3>3, <3>4
  <2> QED
    BY <2>1, <2>2
<1> HIDE DEF Has
<1>2. S \in Has
  BY <1>1, SubsetInduction
<1> QED
  BY <1>2 DEF Has

\* A sum of zeros.
LEMMA SumZero ==
  ASSUME NEW S, IsFiniteSet(S), NEW f, \A x \in S : f[x] = 0
  PROVE  SumFunctionOnSet(f, S) = 0
<1> DEFINE Has == {s \in SUBSET S : SumFunctionOnSet(f, s) = 0}
<1>1. ASSUME NEW s \in SUBSET S, \A t \in SUBSET s : t # s => t \in Has
      PROVE  s \in Has
  <2>1. CASE s = {}
    BY <2>1, SumEmpty
  <2>2. CASE s # {}
    <3>1. PICK x \in s : TRUE
      BY <2>2
    <3>2. s \ {x} \in Has /\ IsFiniteSet(s) /\ IsFiniteSet(s \ {x})
      BY <1>1, FS_Subset
    <3>3. SumFunctionOnSet(f, s) = f[x] + SumFunctionOnSet(f, s \ {x})
      BY <3>2, SumTake
    <3> QED
      BY <3>2, <3>3
  <2> QED
    BY <2>1, <2>2
<1> HIDE DEF Has
<1>2. S \in Has
  BY <1>1, SubsetInduction
<1> QED
  BY <1>2 DEF Has

\* Functions that agree on a set have the same sum over it.
LEMMA SumEqual ==
  ASSUME NEW S, IsFiniteSet(S), NEW f, NEW g, \A x \in S : f[x] \in Int /\ f[x] = g[x]
  PROVE  SumFunctionOnSet(f, S) = SumFunctionOnSet(g, S)
<1> DEFINE zeros == [x \in S |-> 0]
<1>1. SumFunctionOnSet(zeros, S) = 0
  BY SumZero
<1>2. \A x \in S : g[x] \in Int /\ zeros[x] \in Int /\ f[x] = g[x] + zeros[x]
  OBVIOUS
<1> HIDE DEF zeros
<1>3. SumFunctionOnSet(f, S) = SumFunctionOnSet(g, S) + SumFunctionOnSet(zeros, S)
  BY <1>2, SumPlus
<1>4. SumFunctionOnSet(g, S) \in Int
  BY <1>2, SumType
<1> QED
  BY <1>1, <1>3, <1>4

\* A function changed at one point.
LEMMA SumAt ==
  ASSUME NEW S, IsFiniteSet(S), NEW f, NEW g, NEW x \in S,
         \A y \in S : f[y] \in Int /\ g[y] \in Int,
         \A y \in S : y # x => f[y] = g[y]
  PROVE  SumFunctionOnSet(f, S) = SumFunctionOnSet(g, S) + f[x] - g[x]
<1>1. /\ SumFunctionOnSet(f, S) = f[x] + SumFunctionOnSet(f, S \ {x})
      /\ SumFunctionOnSet(g, S) = g[x] + SumFunctionOnSet(g, S \ {x})
  BY SumTake
<1>2. SumFunctionOnSet(f, S \ {x}) = SumFunctionOnSet(g, S \ {x})
  BY SumEqual, FS_Subset
<1>3. SumFunctionOnSet(g, S \ {x}) \in Int
  BY SumType, FS_Subset
<1> QED
  BY <1>1, <1>2, <1>3

\* Elements at which the function is zero do not count.
LEMMA SumPart ==
  ASSUME NEW S, IsFiniteSet(S), NEW T \in SUBSET S, NEW f,
         \A x \in T : f[x] \in Int, \A x \in S \ T : f[x] = 0
  PROVE  SumFunctionOnSet(f, S) = SumFunctionOnSet(f, T)
<1> DEFINE Has == {s \in SUBSET S : SumFunctionOnSet(f, s) = SumFunctionOnSet(f, s \cap T)}
<1>1. ASSUME NEW s \in SUBSET S, \A t \in SUBSET s : t # s => t \in Has
      PROVE  s \in Has
  <2>1. CASE s \subseteq T
    <3>1. s \cap T = s
      BY <2>1
    <3> QED
      BY <3>1
  <2>2. CASE ~(s \subseteq T)
    <3>1. PICK x \in s : x \notin T
      BY <2>2
    <3>2. SumFunctionOnSet(f, s) = f[x] + SumFunctionOnSet(f, s \ {x})
      BY SumTake, FS_Subset
    <3>3. SumFunctionOnSet(f, s \ {x}) = SumFunctionOnSet(f, s \cap T)
      <4>1. s \ {x} \in Has /\ (s \ {x}) \cap T = s \cap T
        BY <1>1, <3>1
      <4> QED
        BY <4>1
    <3>4. SumFunctionOnSet(f, s \cap T) \in Int
      BY SumType, FS_Subset
    <3>5. f[x] = 0
      BY <3>1
    <3> QED
      BY <3>2, <3>3, <3>4, <3>5
  <2> QED
    BY <2>1, <2>2
<1> HIDE DEF Has
<1>2. S \in Has
  BY <1>1, SubsetInduction
<1>3. S \cap T = T
  OBVIOUS
<1> QED
  BY <1>2, <1>3 DEF Has

\* A sum may be taken over the places that a one-to-one function moves its
\* terms to.
LEMMA SumMoved ==
  ASSUME NEW S, IsFiniteSet(S), NEW T, NEW f, NEW g, NEW b \in Bijection(S, T),
         \A x \in S : f[x] \in Int /\ f[x] = g[b[x]]
  PROVE  SumFunctionOnSet(f, S) = SumFunctionOnSet(g, T)
<1>0. /\ b \in [S -> T]
      /\ \A x, y \in S : b[x] = b[y] => x = y
      /\ \A y \in T : \E x \in S : b[x] = y
  BY DEF Bijection, Injection, Surjection, IsInjective
<1> DEFINE Has == {s \in SUBSET S : SumFunctionOnSet(f, s) =
                    SumFunctionOnSet(g, {b[x] : x \in s})}
<1>1. ASSUME NEW s \in SUBSET S, \A t \in SUBSET s : t # s => t \in Has
      PROVE  s \in Has
  <2>1. CASE s = {}
    <3>1. {b[x] : x \in s} = {}
      BY <2>1
    <3> QED
      BY <2>1, <3>1, SumEmpty
  <2>2. CASE s # {}
    <3>1. PICK x \in s : TRUE
      BY <2>2
    <3>2. s \ {x} \in Has /\ IsFiniteSet(s) /\ IsFiniteSet(s \ {x})
      BY <1>1, FS_Subset
    <3> DEFINE image == {b[y] : y \in s}
    <3>3. SumFunctionOnSet(f, s) = f[x] + SumFunctionOnSet(f, s \ {x})
      BY <3>2, SumTake
    <3>4. IsFiniteSet(image)
      <4>1. [y \in s |-> b[y]] \in Surjection(s, image)
        BY DEF Surjection
      <4> QED
        BY <3>2, <4>1, FS_Surjection
    <3>5. b[x] \in image /\ \A y \in image : g[y] \in Int
      OBVIOUS
    <3>6. image \ {b[x]} = {b[y] : y \in s \ {x}}
      BY <1>0
    <3> HIDE DEF image
    <3>7. SumFunctionOnSet(g, image) = g[b[x]] + SumFunctionOnSet(g, image \ {b[x]})
      BY <3>4, <3>5, SumTake
    <3> QED
      BY <3>2, <3>3, <3>6, <3>7 DEF image
  <2> QED
    BY <2>1, <2>2
<1> HIDE DEF Has
<1>2. S \in Has
  BY <1>1, SubsetInduction
<1>3. SumFunctionOnSet(f, S) = SumFunctionOnSet(g, {b[x] : x \in S})
  BY <1>2 DEF Has
<1>4. {b[x] : x \in S} = T
  BY <1>0
<1> QED
  BY <1>3, <1>4
=============================================================================
