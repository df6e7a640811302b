------------------------------ MODULE FiniteSums ------------------------------
(***************************************************************************)
(* Laws of finite sums.  The models count bytes with MapThenSumSet, which  *)
(* folds over a set in an order given by CHOOSE; these lemmas free the     *)
(* other proofs from that order.                                           *)
(*                                                                         *)
(* The induction over finite sets that they need is stated for a set of    *)
(* good subsets instead of a predicate, and follows from the library's     *)
(* theorem that strict inclusion is well-founded.                          *)
(***************************************************************************)
EXTENDS Integers, FiniteSetsExt, FiniteSetTheorems, TLAPS

SumOf(f, S) == MapThenSumSet(LAMBDA x : f[x], S)

(* A family of subsets that contains every subset all of whose strict      *)
(* subsets it contains, contains them all.                                 *)
LEMMA SubsetInduction ==
  ASSUME NEW S, IsFiniteSet(S), NEW Good,
         \A T \in SUBSET S :
           (\A U \in SUBSET T : U # T => U \in Good) => T \in Good
  PROVE  S \in Good
<1> SUFFICES ASSUME S \notin Good  PROVE FALSE
  OBVIOUS
<1> DEFINE Bad == {T \in SUBSET S : T \notin Good}
<1>1. IsWellFoundedOn(StrictSubsetOrdering(S), SUBSET S)
  <2>1. FiniteSubsetsOf(S) = SUBSET S
    BY FS_FiniteSubsetsOfFinite
  <2>2. IsWellFoundedOn(StrictSubsetOrdering(S), FiniteSubsetsOf(S))
    BY FS_StrictSubsetOrderingWellFounded
  <2>3. QED
    BY <2>1, <2>2
<1>2. Bad \subseteq SUBSET S /\ Bad # {}
  OBVIOUS
<1> HIDE DEF Bad
<1>3. PICK T \in Bad : \A U \in Bad : <<U, T>> \notin StrictSubsetOrdering(S)
  BY <1>1, <1>2, WFMin
<1> USE DEF Bad
<1>4. \A U \in SUBSET T : U # T => U \in Good
  BY <1>3 DEF StrictSubsetOrdering
<1>5. QED
  BY <1>3, <1>4

(* The element the fold takes first.                                       *)
FirstOf(T) == CHOOSE x \in T : TRUE

(* What the function that the fold computes satisfies.                     *)
IsSum(g, f, S) ==
  g = [T \in SUBSET S |->
         IF T = {} THEN 0 ELSE f[FirstOf(T)] + g[T \ {FirstOf(T)}]]

LEMMA FirstProperties ==
  ASSUME NEW T, T # {}
  PROVE  /\ FirstOf(T) \in T
         /\ T \ {FirstOf(T)} \subseteq T
         /\ T \ {FirstOf(T)} # T
  BY DEF FirstOf

LEMMA IsSumEquation ==
  ASSUME NEW S, NEW f, NEW g, IsSum(g, f, S), NEW T \in SUBSET S
  PROVE  g[T] = IF T = {} THEN 0 ELSE f[FirstOf(T)] + g[T \ {FirstOf(T)}]
  BY DEF IsSum

(* Two such functions agree on the finite sets both are defined for.       *)
LEMMA SumUnique ==
  ASSUME NEW f, NEW S, NEW g, IsSum(g, f, S), NEW V, NEW h, IsSum(h, f, V),
         NEW T, IsFiniteSet(T), T \subseteq S, T \subseteq V
  PROVE  g[T] = h[T]
<1> DEFINE Good == {U \in SUBSET T : g[U] = h[U]}
<1>1. ASSUME NEW U \in SUBSET T,
             \A W \in SUBSET U : W # U => W \in Good
      PROVE  U \in Good
  <2>1. /\ g[U] = IF U = {} THEN 0 ELSE f[FirstOf(U)] + g[U \ {FirstOf(U)}]
        /\ h[U] = IF U = {} THEN 0 ELSE f[FirstOf(U)] + h[U \ {FirstOf(U)}]
    BY IsSumEquation
  <2>2. U # {} => g[U \ {FirstOf(U)}] = h[U \ {FirstOf(U)}]
    BY <1>1, FirstProperties
  <2>3. QED
    BY <2>1, <2>2
<1> HIDE DEF Good
<1>2. T \in Good
  BY <1>1, SubsetInduction
<1>3. QED
  BY <1>2 DEF Good

LEMMA SumExists ==
  ASSUME NEW f, NEW S, IsFiniteSet(S)
  PROVE  \E g : IsSum(g, f, S)
<1> DEFINE Good == {T \in SUBSET S : \E g : IsSum(g, f, T)}
<1>1. ASSUME NEW T \in SUBSET S,
             \A U \in SUBSET T : U # T => U \in Good
      PROVE  T \in Good
  <2> DEFINE Sum(U) == (CHOOSE g : IsSum(g, f, U))[U]
             g == [U \in SUBSET T |->
                     IF U = {} THEN 0
                     ELSE f[FirstOf(U)] + Sum(U \ {FirstOf(U)})]
  <2>1. ASSUME NEW U \in SUBSET T, U # {}, U # T
        PROVE  Sum(U) = f[FirstOf(U)] + Sum(U \ {FirstOf(U)})
    <3> DEFINE V == U \ {FirstOf(U)}
               h == CHOOSE k : IsSum(k, f, U)
               i == CHOOSE k : IsSum(k, f, V)
    <3>1. V \subseteq U /\ V # U /\ V # T /\ V \in SUBSET T
      BY <2>1, FirstProperties
    <3>2. IsSum(h, f, U) /\ IsSum(i, f, V)
      BY <1>1, <2>1, <3>1
    <3>3. IsFiniteSet(V)
      BY <3>1, FS_Subset
    <3> HIDE DEF h, i, V
    <3>4. h[V] = i[V]
      BY <3>1, <3>2, <3>3, SumUnique
    <3>5. h[U] = f[FirstOf(U)] + h[V]
      BY <2>1, <3>2, IsSumEquation DEF V
    <3>6. QED
      BY <3>4, <3>5 DEF h, i, V
  <2>2. T # {} => Sum({}) = 0
    <3> SUFFICES ASSUME T # {}  PROVE Sum({}) = 0
      OBVIOUS
    <3>1. {} \in Good
      BY <1>1
    <3> DEFINE h == CHOOSE k : IsSum(k, f, {})
    <3>2. IsSum(h, f, {})
      BY <3>1
    <3> HIDE DEF h
    <3>3. h[{}] = 0
      BY <3>2, IsSumEquation
    <3>4. QED
      BY <3>3 DEF h
  <2>3. ASSUME NEW U \in SUBSET T, U # {}
        PROVE  Sum(U \ {FirstOf(U)}) = g[U \ {FirstOf(U)}]
    <3> DEFINE V == U \ {FirstOf(U)}
    <3>1. V \in SUBSET T /\ V # T
      BY <2>3, FirstProperties
    <3> HIDE DEF V, Sum
    <3>2. V # {} => Sum(V) = g[V]
      BY <2>1, <3>1
    <3>3. V = {} => Sum(V) = g[V]
      BY <2>2, <2>3
    <3>4. QED
      BY <3>2, <3>3 DEF V
  <2>4. IsSum(g, f, T)
    <3> HIDE DEF Sum
    <3>1. QED
      BY <2>3 DEF IsSum
  <2>5. QED
    BY <2>4
<1> HIDE DEF Good
<1>2. S \in Good
  BY <1>1, SubsetInduction
<1>3. QED
  BY <1>2 DEF Good

(* The fold that MapThenSumSet stands for, as a function of this kind.     *)
LEMMA SumIsFold ==
  ASSUME NEW f, NEW S, IsFiniteSet(S)
  PROVE  \E g : IsSum(g, f, S) /\ SumOf(f, S) = g[S]
<1> DEFINE g == CHOOSE h : IsSum(h, f, S)
<1>1. SumOf(f, S) = g[S]
  BY DEF SumOf, MapThenSumSet, MapThenFoldSet, IsSum, FirstOf
<1>2. IsSum(g, f, S)
  BY SumExists
<1>3. QED
  BY <1>1, <1>2

LEMMA SumEquation ==
  ASSUME NEW f, NEW S, IsFiniteSet(S)
  PROVE  /\ S = {} => SumOf(f, S) = 0
         /\ S # {} => SumOf(f, S) = f[FirstOf(S)] + SumOf(f, S \ {FirstOf(S)})
<1>1. PICK g : IsSum(g, f, S) /\ SumOf(f, S) = g[S]
  BY SumIsFold
<1>2. g[S] = IF S = {} THEN 0 ELSE f[FirstOf(S)] + g[S \ {FirstOf(S)}]
  BY <1>1, IsSumEquation
<1>3. ASSUME S # {}  PROVE SumOf(f, S \ {FirstOf(S)}) = g[S \ {FirstOf(S)}]
  <2> DEFINE T == S \ {FirstOf(S)}
  <2>1. T \subseteq S /\ IsFiniteSet(T)
    BY FS_Subset
  <2> HIDE DEF T
  <2>2. PICK h : IsSum(h, f, T) /\ SumOf(f, T) = h[T]
    BY <2>1, SumIsFold
  <2>3. g[T] = h[T]
    BY <1>1, <2>1, <2>2, SumUnique
  <2>4. QED
    BY <2>2, <2>3 DEF T
<1>4. QED
  BY <1>1, <1>2, <1>3

-----------------------------------------------------------------------------
(* The laws.  f maps the elements of S to natural numbers.                 *)

LEMMA SumType ==
  ASSUME NEW S, IsFiniteSet(S), NEW f, \A x \in S : f[x] \in Nat
  PROVE  SumOf(f, S) \in Nat
<1> DEFINE Good == {T \in SUBSET S : SumOf(f, T) \in Nat}
<1>1. ASSUME NEW T \in SUBSET S,
             \A U \in SUBSET T : U # T => U \in Good
      PROVE  T \in Good
  <2>1. IsFiniteSet(T)
    BY FS_Subset
  <2>2. T # {} => SumOf(f, T \ {FirstOf(T)}) \in Nat /\ f[FirstOf(T)] \in Nat
    BY <1>1, FirstProperties
  <2>3. T = {} => SumOf(f, T) = 0
    BY <2>1, SumEquation
  <2>4. T # {} => SumOf(f, T) = f[FirstOf(T)] + SumOf(f, T \ {FirstOf(T)})
    BY <2>1, SumEquation
  <2>5. SumOf(f, T) \in Nat
    BY <2>2, <2>3, <2>4
  <2>6. QED
    BY <2>5
<1> HIDE DEF Good
<1>2. S \in Good
  BY <1>1, SubsetInduction
<1>3. QED
  BY <1>2 DEF Good

(* Equal summands give equal sums.                                         *)
LEMMA SumEqual ==
  ASSUME NEW S, IsFiniteSet(S), NEW f, NEW g, \A x \in S : f[x] = g[x]
  PROVE  SumOf(f, S) = SumOf(g, S)
<1> DEFINE Good == {T \in SUBSET S : SumOf(f, T) = SumOf(g, T)}
<1>1. ASSUME NEW T \in SUBSET S,
             \A U \in SUBSET T : U # T => U \in Good
      PROVE  T \in Good
  <2>1. IsFiniteSet(T)
    BY FS_Subset
  <2>2. T # {} => /\ SumOf(f, T \ {FirstOf(T)}) = SumOf(g, T \ {FirstOf(T)})
                  /\ f[FirstOf(T)] = g[FirstOf(T)]
    BY <1>1, FirstProperties
  <2>3. T = {} => SumOf(f, T) = SumOf(g, T)
    BY <2>1, SumEquation
  <2>4. T # {} => SumOf(f, T) = SumOf(g, T)
    <3>1. T # {} => SumOf(f, T) = f[FirstOf(T)] + SumOf(f, T \ {FirstOf(T)})
      BY <2>1, SumEquation
    <3>2. T # {} => SumOf(g, T) = g[FirstOf(T)] + SumOf(g, T \ {FirstOf(T)})
      BY <2>1, SumEquation
    <3>3. QED
      BY <3>1, <3>2, <2>2
  <2>5. QED
    BY <2>3, <2>4
<1> HIDE DEF Good
<1>2. S \in Good
  BY <1>1, SubsetInduction
<1>3. QED
  BY <1>2 DEF Good

(* Any element may be taken first.                                         *)
LEMMA SumRemove ==
  ASSUME NEW S, IsFiniteSet(S), NEW f, \A y \in S : f[y] \in Nat, NEW x \in S
  PROVE  SumOf(f, S) = f[x] + SumOf(f, S \ {x})
<1> DEFINE Good == {T \in SUBSET S :
                      \A y \in T : SumOf(f, T) = f[y] + SumOf(f, T \ {y})}
<1>1. ASSUME NEW T \in SUBSET S,
             \A U \in SUBSET T : U # T => U \in Good,
             NEW y \in T
      PROVE  SumOf(f, T) = f[y] + SumOf(f, T \ {y})
  <2> DEFINE p == FirstOf(T)
             rest == (T \ {p}) \ {y}
  <2>1. p \in T /\ IsFiniteSet(T) /\ IsFiniteSet(rest)
    BY FS_Subset, FirstProperties
  <2>2. SumOf(f, T) = f[p] + SumOf(f, T \ {p})
    BY <2>1, SumEquation
  <2>3. CASE p = y
    BY <2>2, <2>3
  <2>4. CASE p # y
    <3>1. T \ {p} \in Good /\ T \ {y} \in Good
      BY <1>1, <2>1
    <3>2. SumOf(f, T \ {p}) = f[y] + SumOf(f, rest)
      BY <2>4, <3>1
    <3>3. SumOf(f, T \ {y}) = f[p] + SumOf(f, (T \ {y}) \ {p})
      BY <2>1, <2>4, <3>1
    <3>4. (T \ {y}) \ {p} = rest
      OBVIOUS
    <3>5. SumOf(f, rest) \in Nat
      BY <2>1, SumType
    <3>6. f[p] \in Nat /\ f[y] \in Nat
      BY <2>1
    <3> HIDE DEF rest, p
    <3>7. QED
      BY <2>2, <3>2, <3>3, <3>4, <3>5, <3>6
  <2>5. QED
    BY <2>3, <2>4
<1>2. \A T \in SUBSET S :
        (\A U \in SUBSET T : U # T => U \in Good) => T \in Good
  BY <1>1
<1> HIDE DEF Good
<1>3. S \in Good
  BY <1>2, SubsetInduction
<1>4. QED
  BY <1>3 DEF Good

LEMMA SumAdd ==
  ASSUME NEW S, IsFiniteSet(S), NEW f, NEW x, x \notin S,
         \A y \in S \cup {x} : f[y] \in Nat
  PROVE  SumOf(f, S \cup {x}) = SumOf(f, S) + f[x]
<1> DEFINE T == S \cup {x}
<1>1. IsFiniteSet(T) /\ x \in T /\ T \ {x} = S
  BY FS_AddElement
<1> HIDE DEF T
<1>2. \A y \in T : f[y] \in Nat
  BY DEF T
<1>3. SumOf(f, T) = f[x] + SumOf(f, S)
  BY <1>1, <1>2, SumRemove
<1>4. SumOf(f, S) \in Nat /\ f[x] \in Nat
  BY SumType
<1>5. QED
  BY <1>3, <1>4 DEF T

(* One summand changes.                                                    *)
LEMMA SumChange ==
  ASSUME NEW S, IsFiniteSet(S), NEW x \in S, NEW f, NEW g,
         \A y \in S : f[y] \in Nat /\ g[y] \in Nat,
         \A y \in S \ {x} : g[y] = f[y]
  PROVE  SumOf(g, S) = SumOf(f, S) + g[x] - f[x]
<1> DEFINE T == S \ {x}
<1>1. IsFiniteSet(T) /\ T \subseteq S
  BY FS_RemoveElement
<1>2. SumOf(g, S) = g[x] + SumOf(g, T) /\ SumOf(f, S) = f[x] + SumOf(f, T)
  BY SumRemove
<1> HIDE DEF T
<1>3. SumOf(g, T) = SumOf(f, T)
  <2>1. \A y \in T : g[y] = f[y]
    BY DEF T
  <2>2. QED
    BY <1>1, <2>1, SumEqual
<1>4. SumOf(f, T) \in Nat /\ f[x] \in Nat /\ g[x] \in Nat
  BY <1>1, SumType
<1>5. QED
  BY <1>2, <1>3, <1>4

(* A part weighs no more than the whole.                                   *)
LEMMA SumSubset ==
  ASSUME NEW S, IsFiniteSet(S), NEW f, \A x \in S : f[x] \in Nat,
         NEW R \in SUBSET S
  PROVE  SumOf(f, R) <= SumOf(f, S)
<1> DEFINE Good == {T \in SUBSET S :
                      \A U \in SUBSET T : SumOf(f, U) <= SumOf(f, T)}
<1>1. ASSUME NEW T \in SUBSET S,
             \A U \in SUBSET T : U # T => U \in Good,
             NEW U \in SUBSET T
      PROVE  SumOf(f, U) <= SumOf(f, T)
  <2>1. IsFiniteSet(T) /\ IsFiniteSet(U)
    BY FS_Subset
  <2>2. SumOf(f, T) \in Nat /\ SumOf(f, U) \in Nat
    BY <2>1, SumType
  <2>3. CASE U = T
    BY <2>2, <2>3
  <2>4. CASE U # T
    <3>1. PICK x \in T : x \notin U
      BY <2>4
    <3>2. T \ {x} \in Good /\ U \in SUBSET (T \ {x})
      BY <1>1, <3>1
    <3>3. SumOf(f, U) <= SumOf(f, T \ {x})
      BY <3>2
    <3>4. SumOf(f, T) = f[x] + SumOf(f, T \ {x})
      BY <2>1, SumRemove
    <3>5. IsFiniteSet(T \ {x})
      BY <2>1, FS_RemoveElement
    <3>6. SumOf(f, T \ {x}) \in Nat /\ f[x] \in Nat
      BY <3>5, SumType
    <3>7. QED
      BY <2>2, <3>3, <3>4, <3>6
  <2>5. QED
    BY <2>3, <2>4
<1>2. \A T \in SUBSET S :
        (\A U \in SUBSET T : U # T => U \in Good) => T \in Good
  BY <1>1
<1> HIDE DEF Good
<1>3. S \in Good
  BY <1>2, SubsetInduction
<1>4. QED
  BY <1>3 DEF Good

=============================================================================
