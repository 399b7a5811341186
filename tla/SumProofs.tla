----------------------------- MODULE SumProofs -----------------------------
(***************************************************************************)
(* Lemmas about sums over finite sets, SumFunctionOnSet(f, S) of the       *)
(* community modules, which the balances, counters and rights of the       *)
(* components are compared with.                                           *)
(*                                                                         *)
(* Induction is done with sets: a set of naturals that contains 0 and is   *)
(* closed under successor is Nat, because a smallest natural outside it    *)
(* would have a predecessor inside it.                                     *)
(***************************************************************************)
EXTENDS FiniteSetsExt, FiniteSetTheorems, TLAPS

-----------------------------------------------------------------------------
(* Induction.                                                              *)

\* Every non-empty set of naturals has a smallest element.
LEMMA LeastNatural ==
  ASSUME NEW T \in SUBSET Nat, T # {}
  PROVE  \E m \in T : \A n \in T : m <= n
<1> DEFINE R == OpToRel(<, Nat)
<1>1. IsWellFoundedOn(R, Nat)
  BY NatLessThanWellFounded, Zenon
<1>2. R = {ss \in Nat \X Nat : ss[1] < ss[2]}
  BY DEF OpToRel
<1> HIDE DEF R
<1>3. PICK m \in T : \A n \in T : ~ (<<n, m>> \in R)
  BY <1>1, WFMin
<1>4. ASSUME NEW n \in T PROVE m <= n
  <2>1. m \in Nat /\ n \in Nat
    BY <1>3
  <2>2. n < m => <<n, m>> \in R
    BY <2>1, <1>2
  <2> QED
    BY <2>1, <2>2, <1>3
<1> QED
  BY <1>3, <1>4

\* A set of naturals with 0 and with the successor of each of its elements is
\* the set of all naturals.
LEMMA SetInduction ==
  ASSUME NEW T \in SUBSET Nat, 0 \in T, \A n \in T : n + 1 \in T
  PROVE  T = Nat
<1> SUFFICES ASSUME T # Nat PROVE FALSE
  OBVIOUS
<1> DEFINE U == Nat \ T
<1>1. U \in SUBSET Nat /\ U # {}
  OBVIOUS
<1> HIDE DEF U
<1>2. PICK m \in U : \A n \in U : m <= n
  BY <1>1, LeastNatural
<1>3. m \in Nat /\ m # 0 /\ m - 1 \in Nat /\ m - 1 \notin U
  BY <1>1, <1>2 DEF U
<1> QED
  BY <1>2, <1>3 DEF U

\* Removing an element from a subset of a finite set.
LEMMA Smaller ==
  ASSUME NEW S, IsFiniteSet(S), NEW s \in SUBSET S, NEW x \in s
  PROVE  /\ s \ {x} \in SUBSET S
         /\ IsFiniteSet(s) /\ IsFiniteSet(s \ {x})
         /\ Cardinality(s) \in Nat /\ Cardinality(s \ {x}) \in Nat
         /\ Cardinality(s) > 0
         /\ Cardinality(s \ {x}) = Cardinality(s) - 1
<1>1. IsFiniteSet(s)
  BY FS_Subset
<1>2. IsFiniteSet(s \ {x}) /\ Cardinality(s \ {x}) = Cardinality(s) - 1
  BY <1>1, FS_RemoveElement
<1>3. Cardinality(s) \in Nat /\ Cardinality(s \ {x}) \in Nat
  BY <1>1, <1>2, FS_CardinalityType
<1> QED
  BY <1>1, <1>2, <1>3

\* A set of subsets of a finite set that contains the empty one, and each subset
\* whose one-smaller subsets it contains, has them all.
LEMMA SubsetInduction ==
  ASSUME NEW U, IsFiniteSet(U), NEW Q, {} \in Q,
         \A s \in SUBSET U : s # {} /\ (\A x \in s : s \ {x} \in Q) => s \in Q
  PROVE  SUBSET U \subseteq Q
<1> DEFINE T == {n \in Nat : \A s \in SUBSET U : Cardinality(s) = n => s \in Q}
<1>1. \A s \in SUBSET U : IsFiniteSet(s) /\ Cardinality(s) \in Nat
  BY FS_Subset, FS_CardinalityType
<1>2. 0 \in T
  <2>1. \A s \in SUBSET U : Cardinality(s) = 0 => s = {}
    BY <1>1, FS_EmptySet
  <2> QED
    BY <2>1
<1>3. ASSUME NEW n \in T PROVE n + 1 \in T
  <2>0. n \in Nat
    OBVIOUS
  <2>1. ASSUME NEW s \in SUBSET U, Cardinality(s) = n + 1 PROVE s \in Q
    <3>1. s # {}
      <4>1. n + 1 # 0
        BY <2>0
      <4> QED
        BY <2>1, <4>1, FS_EmptySet, Zenon
    <3>2. ASSUME NEW x \in s PROVE s \ {x} \in Q
      <4>1. s \ {x} \in SUBSET U /\ Cardinality(s \ {x}) = n
        BY <2>1, Smaller
      <4> QED
        BY <4>1
    <3> QED
      BY <3>1, <3>2
  <2> QED
    BY <2>1
<1>4. T = Nat
  <2>1. T \in SUBSET Nat
    OBVIOUS
  <2> HIDE DEF T
  <2> QED
    BY <1>2, <1>3, <2>1, SetInduction
<1> QED
  BY <1>1, <1>4

-----------------------------------------------------------------------------
(* The fold behind SumFunctionOnSet satisfies its recursion equation.      *)

\* The element the fold takes next.
Pick(s) == CHOOSE x \in s : TRUE

\* g maps each set of D to the sum of f over it, by the fold's own recursion.
FoldsOn(f, D, g) ==
  g = [s \in D |-> IF s = {} THEN 0 ELSE f[Pick(s)] + g[s \ {Pick(s)}]]

\* The same, on all subsets of S.
FoldsAll(f, S, g) == FoldsOn(f, SUBSET S, g)

\* The sum is what such a map on the subsets of S gives for S.
LEMMA SumIsFold ==
  ASSUME NEW f, NEW S
  PROVE  SumFunctionOnSet(f, S) = (CHOOSE g : FoldsAll(f, S, g))[S]
BY DEF SumFunctionOnSet, FoldFunctionOnSet, MapThenFoldSet, FoldsAll, FoldsOn, Pick

\* The fold takes an element of the set.
LEMMA PickIn == ASSUME NEW s, s # {} PROVE Pick(s) \in s
BY DEF Pick

\* Subsets of S with at most n elements.
UpTo(S, n) == {s \in SUBSET S : Cardinality(s) <= n}

\* The recursion has a solution on the subsets of a finite set: one on the sets
\* of at most n elements extends to the sets of n + 1.
LEMMA FoldExists ==
  ASSUME NEW f, NEW S, IsFiniteSet(S)
  PROVE  \E g : FoldsAll(f, S, g)
<1> DEFINE T == {n \in Nat : \E g : FoldsOn(f, UpTo(S, n), g)}
<1>0. \A s \in SUBSET S : IsFiniteSet(s) /\ Cardinality(s) \in Nat
  BY FS_Subset, FS_CardinalityType
<1>1. 0 \in T
  <2> DEFINE g == [s \in UpTo(S, 0) |-> 0]
  <2>1. UpTo(S, 0) = {{}}
    <3>1. \A s \in SUBSET S : Cardinality(s) <= 0 => s = {}
      BY <1>0, FS_EmptySet
    <3>2. Cardinality({}) <= 0
      BY FS_EmptySet
    <3> QED
      BY <3>1, <3>2 DEF UpTo
  <2>2. FoldsOn(f, UpTo(S, 0), g)
    BY <2>1 DEF FoldsOn
  <2> QED
    BY <2>2
<1>2. ASSUME NEW n \in T PROVE n + 1 \in T
  <2>1. PICK g : FoldsOn(f, UpTo(S, n), g)
    OBVIOUS
  <2> DEFINE h == [s \in UpTo(S, n + 1) |->
                     IF s = {} THEN 0 ELSE f[Pick(s)] + g[s \ {Pick(s)}]]
  <2>2. UpTo(S, n) \subseteq UpTo(S, n + 1)
    BY <1>0 DEF UpTo
  <2>3. \A s \in UpTo(S, n) : h[s] = g[s]
    BY <2>1, <2>2 DEF FoldsOn
  <2>4. ASSUME NEW s \in UpTo(S, n + 1), s # {}
        PROVE  s \ {Pick(s)} \in UpTo(S, n)
    <3>1. s \in SUBSET S /\ Cardinality(s) <= n + 1 /\ n \in Nat
      BY DEF UpTo
    <3>2. Pick(s) \in s
      BY <2>4, PickIn
    <3>3. /\ s \ {Pick(s)} \in SUBSET S
          /\ Cardinality(s) \in Nat
          /\ Cardinality(s \ {Pick(s)}) = Cardinality(s) - 1
      BY <3>1, <3>2, Smaller
    <3> QED
      BY <3>1, <3>3 DEF UpTo
  <2>5. \A s \in UpTo(S, n + 1) :
          h[s] = IF s = {} THEN 0 ELSE f[Pick(s)] + h[s \ {Pick(s)}]
    BY <2>3, <2>4
  <2>6. h = [s \in UpTo(S, n + 1) |-> h[s]]
    OBVIOUS
  <2> HIDE DEF h
  <2>7. FoldsOn(f, UpTo(S, n + 1), h)
    BY <2>5, <2>6 DEF FoldsOn
  <2> QED
    BY <2>7
<1>3. T = Nat
  <2>1. T \in SUBSET Nat
    OBVIOUS
  <2> HIDE DEF T
  <2> QED
    BY <1>1, <1>2, <2>1, SetInduction
<1>4. PICK g : FoldsOn(f, UpTo(S, Cardinality(S)), g)
  BY <1>3, FS_CardinalityType
<1>5. UpTo(S, Cardinality(S)) = SUBSET S
  BY FS_Subset DEF UpTo
<1> QED
  BY <1>4, <1>5 DEF FoldsAll

\* Two solutions agree on the sets both are defined on.
LEMMA FoldsAgree ==
  ASSUME NEW f, NEW S, IsFiniteSet(S), NEW U \in SUBSET S, NEW g, NEW h,
         FoldsAll(f, S, g), FoldsAll(f, U, h)
  PROVE  \A s \in SUBSET U : g[s] = h[s]
<1> DEFINE Q == {s \in SUBSET U : g[s] = h[s]}
<1>1. {} \in Q
  BY DEF FoldsAll, FoldsOn
<1>2. ASSUME NEW s \in SUBSET U, s # {}, \A x \in s : s \ {x} \in Q
      PROVE  s \in Q
  <2>1. g[s \ {Pick(s)}] = h[s \ {Pick(s)}]
    BY <1>2, PickIn
  <2>2. /\ g[s] = f[Pick(s)] + g[s \ {Pick(s)}]
        /\ h[s] = f[Pick(s)] + h[s \ {Pick(s)}]
    BY <1>2 DEF FoldsAll, FoldsOn
  <2> QED
    BY <2>1, <2>2
<1>3. SUBSET U \subseteq Q
  <2>1. IsFiniteSet(U)
    BY FS_Subset
  <2> HIDE DEF Q
  <2> QED
    BY <1>1, <1>2, <2>1, SubsetInduction
<1> QED
  BY <1>3

-----------------------------------------------------------------------------
(* Sums.                                                                   *)

\* The sum over no element is zero.
LEMMA SumEmpty == ASSUME NEW f PROVE SumFunctionOnSet(f, {}) = 0
<1> DEFINE g == CHOOSE g : FoldsAll(f, {}, g)
<1>1. FoldsAll(f, {}, g)
  BY FS_EmptySet, FoldExists
<1>2. SumFunctionOnSet(f, {}) = g[{}]
  BY SumIsFold
<1> HIDE DEF g
<1> QED
  BY <1>1, <1>2 DEF FoldsAll, FoldsOn

\* The sum unfolds by the element the fold takes first.
LEMMA SumUnfold ==
  ASSUME NEW f, NEW S, IsFiniteSet(S), S # {}
  PROVE  SumFunctionOnSet(f, S) = f[Pick(S)] + SumFunctionOnSet(f, S \ {Pick(S)})
<1> DEFINE U == S \ {Pick(S)}
           g == CHOOSE g : FoldsAll(f, S, g)
           h == CHOOSE h : FoldsAll(f, U, h)
<1>1. FoldsAll(f, S, g)
  BY FoldExists
<1>2. IsFiniteSet(U) /\ U \in SUBSET S
  BY FS_Subset
<1>3. FoldsAll(f, U, h)
  BY <1>2, FoldExists
<1>4. SumFunctionOnSet(f, S) = g[S] /\ SumFunctionOnSet(f, U) = h[U]
  BY SumIsFold
<1> HIDE DEF U, g, h
<1>5. g[U] = h[U]
  BY <1>1, <1>2, <1>3, FoldsAgree
<1>6. g[S] = f[Pick(S)] + g[U]
  BY <1>1 DEF FoldsAll, FoldsOn, U
<1> QED
  BY <1>4, <1>5, <1>6 DEF U

\* A sum of integers is an integer, and one of naturals a natural.
LEMMA SumType ==
  ASSUME NEW U, IsFiniteSet(U), NEW f, NEW V \in {Nat, Int}, \A x \in U : f[x] \in V
  PROVE  SumFunctionOnSet(f, U) \in V
<1> DEFINE Q == {S \in SUBSET U : SumFunctionOnSet(f, S) \in V}
<1>1. {} \in Q
  BY SumEmpty
<1>2. ASSUME NEW S \in SUBSET U, S # {}, \A x \in S : S \ {x} \in Q
      PROVE  S \in Q
  <2>1. Pick(S) \in S
    BY <1>2, PickIn
  <2>2. SumFunctionOnSet(f, S \ {Pick(S)}) \in V /\ f[Pick(S)] \in V
    BY <1>2, <2>1
  <2>3. IsFiniteSet(S)
    BY FS_Subset
  <2>4. SumFunctionOnSet(f, S) = f[Pick(S)] + SumFunctionOnSet(f, S \ {Pick(S)})
    BY <1>2, <2>3, SumUnfold
  <2>5. SumFunctionOnSet(f, S) \in V
    BY <2>2, <2>4
  <2> QED
    BY <2>5
<1>3. SUBSET U \subseteq Q
  <2> HIDE DEF Q
  <2> QED
    BY <1>1, <1>2, SubsetInduction
<1> QED
  BY <1>3

\* The sum over S is that over S without any one of its elements, plus its value.
LEMMA SumRemove ==
  ASSUME NEW U, IsFiniteSet(U), NEW f, \A y \in U : f[y] \in Int, NEW x \in U
  PROVE  SumFunctionOnSet(f, U) = f[x] + SumFunctionOnSet(f, U \ {x})
<1> DEFINE Q == {S \in SUBSET U : \A y \in S :
                   SumFunctionOnSet(f, S) = f[y] + SumFunctionOnSet(f, S \ {y})}
<1>1. {} \in Q
  OBVIOUS
<1>2. ASSUME NEW S \in SUBSET U, S # {}, \A y \in S : S \ {y} \in Q
      PROVE  S \in Q
  <2> SUFFICES ASSUME NEW y \in S
               PROVE  SumFunctionOnSet(f, S) = f[y] + SumFunctionOnSet(f, S \ {y})
    OBVIOUS
  <2> DEFINE p == Pick(S)
             R == S \ {p}
             W == S \ {y}
  <2>1. p \in S
    BY <1>2, PickIn
  <2>2. IsFiniteSet(S)
    BY FS_Subset
  <2>3. SumFunctionOnSet(f, S) = f[p] + SumFunctionOnSet(f, R)
    BY <1>2, <2>2, SumUnfold
  <2>4. CASE y = p
    BY <2>3, <2>4
  <2>5. CASE y # p
    <3>1. SumFunctionOnSet(f, R) = f[y] + SumFunctionOnSet(f, R \ {y})
      BY <1>2, <2>1, <2>5
    <3>2. SumFunctionOnSet(f, W) = f[p] + SumFunctionOnSet(f, W \ {p})
      BY <1>2, <2>1, <2>5
    <3>3. W \ {p} = R \ {y}
      OBVIOUS
    <3>4. IsFiniteSet(R \ {y}) /\ \A z \in R \ {y} : f[z] \in Int
      BY <2>2, FS_Subset
    <3>5. SumFunctionOnSet(f, R \ {y}) \in Int
      BY <3>4, SumType
    <3>6. f[y] \in Int /\ f[p] \in Int
      BY <2>1
    <3>7. SumFunctionOnSet(f, W) = f[p] + SumFunctionOnSet(f, R \ {y})
      BY <3>2, <3>3, Zenon
    <3> HIDE DEF p, R, W
    <3>8. SumFunctionOnSet(f, S) = f[y] + SumFunctionOnSet(f, W)
      BY <2>3, <3>1, <3>5, <3>6, <3>7
    <3> QED
      BY <3>8 DEF W
  <2> QED
    BY <2>4, <2>5
<1>3. SUBSET U \subseteq Q
  <2> HIDE DEF Q
  <2> QED
    BY <1>1, <1>2, SubsetInduction
<1> QED
  BY <1>3

\* Adding an element adds its value.
LEMMA SumInsert ==
  ASSUME NEW U, IsFiniteSet(U), NEW x, x \notin U,
         NEW f, \A y \in U \cup {x} : f[y] \in Int
  PROVE  SumFunctionOnSet(f, U \cup {x}) = f[x] + SumFunctionOnSet(f, U)
<1> DEFINE S == U \cup {x}
<1>1. IsFiniteSet(S) /\ x \in S
  BY FS_AddElement
<1>2. S \ {x} = U
  OBVIOUS
<1> HIDE DEF S
<1>3. \A y \in S : f[y] \in Int
  BY DEF S
<1>4. SumFunctionOnSet(f, S) = f[x] + SumFunctionOnSet(f, S \ {x})
  BY <1>1, <1>3, SumRemove
<1> QED
  BY <1>2, <1>4, Zenon DEF S

\* Only the values on the set count.
LEMMA SumSame ==
  ASSUME NEW U, IsFiniteSet(U), NEW f, NEW g, \A x \in U : f[x] = g[x]
  PROVE  SumFunctionOnSet(f, U) = SumFunctionOnSet(g, U)
<1> DEFINE Q == {S \in SUBSET U : SumFunctionOnSet(f, S) = SumFunctionOnSet(g, S)}
<1>1. {} \in Q
  BY SumEmpty
<1>2. ASSUME NEW S \in SUBSET U, S # {}, \A x \in S : S \ {x} \in Q
      PROVE  S \in Q
  <2>1. Pick(S) \in S
    BY <1>2, PickIn
  <2>2. /\ SumFunctionOnSet(f, S \ {Pick(S)}) = SumFunctionOnSet(g, S \ {Pick(S)})
        /\ f[Pick(S)] = g[Pick(S)]
    BY <1>2, <2>1
  <2>3. IsFiniteSet(S)
    BY FS_Subset
  <2>4. /\ SumFunctionOnSet(f, S) = f[Pick(S)] + SumFunctionOnSet(f, S \ {Pick(S)})
        /\ SumFunctionOnSet(g, S) = g[Pick(S)] + SumFunctionOnSet(g, S \ {Pick(S)})
    BY <1>2, <2>3, SumUnfold
  <2>5. SumFunctionOnSet(f, S) = SumFunctionOnSet(g, S)
    BY <2>2, <2>4
  <2> QED
    BY <2>5
<1>3. SUBSET U \subseteq Q
  <2> HIDE DEF Q
  <2> QED
    BY <1>1, <1>2, SubsetInduction
<1> QED
  BY <1>3

\* When one value changes, the sum changes by as much.
LEMMA SumChange ==
  ASSUME NEW U, IsFiniteSet(U), NEW x \in U, NEW f, NEW g,
         \A y \in U : f[y] \in Int /\ g[y] \in Int,
         \A y \in U : y # x => g[y] = f[y]
  PROVE  SumFunctionOnSet(g, U) = SumFunctionOnSet(f, U) + g[x] - f[x]
<1> DEFINE W == U \ {x}
<1>1. IsFiniteSet(W)
  BY FS_Subset
<1>2. \A y \in W : f[y] = g[y]
  OBVIOUS
<1>3. SumFunctionOnSet(f, W) = SumFunctionOnSet(g, W)
  <2> HIDE DEF W
  <2> QED
    BY <1>1, <1>2, SumSame
<1>4. SumFunctionOnSet(f, W) \in Int
  <2>1. \A y \in W : f[y] \in Int
    OBVIOUS
  <2> HIDE DEF W
  <2> QED
    BY <1>1, <2>1, SumType
<1>5. /\ SumFunctionOnSet(f, U) = f[x] + SumFunctionOnSet(f, W)
      /\ SumFunctionOnSet(g, U) = g[x] + SumFunctionOnSet(g, W)
  BY SumRemove
<1> HIDE DEF W
<1> QED
  BY <1>3, <1>4, <1>5

\* Values that are zero add up to zero.
LEMMA SumZero ==
  ASSUME NEW U, IsFiniteSet(U), NEW f, \A x \in U : f[x] = 0
  PROVE  SumFunctionOnSet(f, U) = 0
<1> DEFINE Q == {S \in SUBSET U : SumFunctionOnSet(f, S) = 0}
<1>1. {} \in Q
  BY SumEmpty
<1>2. ASSUME NEW S \in SUBSET U, S # {}, \A x \in S : S \ {x} \in Q
      PROVE  S \in Q
  <2>1. Pick(S) \in S
    BY <1>2, PickIn
  <2>2. SumFunctionOnSet(f, S \ {Pick(S)}) = 0 /\ f[Pick(S)] = 0
    BY <1>2, <2>1
  <2>3. IsFiniteSet(S)
    BY FS_Subset
  <2>4. SumFunctionOnSet(f, S) = f[Pick(S)] + SumFunctionOnSet(f, S \ {Pick(S)})
    BY <1>2, <2>3, SumUnfold
  <2> QED
    BY <2>2, <2>4
<1>3. SUBSET U \subseteq Q
  <2> HIDE DEF Q
  <2> QED
    BY <1>1, <1>2, SubsetInduction
<1> QED
  BY <1>3

\* No natural value exceeds the sum it is part of.
LEMMA SumMember ==
  ASSUME NEW U, IsFiniteSet(U), NEW f, \A y \in U : f[y] \in Nat, NEW x \in U
  PROVE  f[x] <= SumFunctionOnSet(f, U)
<1> DEFINE W == U \ {x}
<1>1. IsFiniteSet(W) /\ \A y \in W : f[y] \in Nat
  BY FS_Subset
<1>2. SumFunctionOnSet(f, U) = f[x] + SumFunctionOnSet(f, W)
  <2>1. \A y \in U : f[y] \in Int
    OBVIOUS
  <2> QED
    BY <2>1, SumRemove
<1> HIDE DEF W
<1>3. SumFunctionOnSet(f, W) \in Nat
  BY <1>1, SumType
<1> QED
  BY <1>2, <1>3

\* The value of f at x, if x is in the set summed over.
At(f, S, x) == IF x \in S THEN f[x] ELSE 0

\* When the set or the function changes at one point only, the sum changes by what
\* that point contributes after and before.
LEMMA SumMoves ==
  ASSUME NEW A, IsFiniteSet(A), NEW B, IsFiniteSet(B), NEW x, A \ {x} = B \ {x},
         NEW f, \A y \in A : f[y] \in Int, NEW g, \A y \in B : g[y] \in Int,
         \A y \in A \cap B : y # x => g[y] = f[y]
  PROVE  /\ SumFunctionOnSet(g, B) = SumFunctionOnSet(f, A) + At(g, B, x) - At(f, A, x)
         /\ SumFunctionOnSet(f, A) \in Int
<1> DEFINE W == A \ {x}
<1>1. IsFiniteSet(W)
  BY FS_Subset
<1>2. \A y \in W : f[y] \in Int /\ g[y] = f[y]
  OBVIOUS
<1>3. SumFunctionOnSet(f, W) \in Int /\ SumFunctionOnSet(g, W) = SumFunctionOnSet(f, W)
  <2> HIDE DEF W
  <2> QED
    BY <1>1, <1>2, SumType, SumSame
<1>4. SumFunctionOnSet(f, A) = At(f, A, x) + SumFunctionOnSet(f, W) /\ At(f, A, x) \in Int
  <2>1. CASE x \in A
    BY <2>1, SumRemove DEF At
  <2>2. CASE x \notin A
    <3>1. A = W
      BY <2>2
    <3>2. SumFunctionOnSet(f, A) = SumFunctionOnSet(f, W)
      BY <3>1, Zenon
    <3> HIDE DEF W
    <3> QED
      BY <1>3, <2>2, <3>2 DEF At
  <2> QED
    BY <2>1, <2>2
<1>5. SumFunctionOnSet(g, B) = At(g, B, x) + SumFunctionOnSet(g, W) /\ At(g, B, x) \in Int
  <2>0. W = B \ {x}
    OBVIOUS
  <2>1. CASE x \in B
    <3>1. SumFunctionOnSet(g, B) = g[x] + SumFunctionOnSet(g, B \ {x})
      BY <2>1, SumRemove
    <3>2. SumFunctionOnSet(g, B) = g[x] + SumFunctionOnSet(g, W)
      BY <2>0, <3>1, Zenon
    <3> QED
      BY <2>1, <3>2 DEF At
  <2>2. CASE x \notin B
    <3>1. B = W
      BY <2>0, <2>2
    <3>2. SumFunctionOnSet(g, B) = SumFunctionOnSet(g, W)
      BY <3>1, Zenon
    <3> HIDE DEF W
    <3> QED
      BY <1>3, <2>2, <3>2 DEF At
  <2> QED
    BY <2>1, <2>2
<1> HIDE DEF W
<1> QED
  BY <1>3, <1>4, <1>5

====
