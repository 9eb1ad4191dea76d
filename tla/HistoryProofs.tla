--------------------------- MODULE HistoryProofs ---------------------------
(***************************************************************************)
(* Theorems about the history of a container.                              *)
(*                                                                         *)
(* The database file: its types, that the history shows the extremes of    *)
(* every rollup ever stored, and that a stored median is the weighted mean *)
(* wherever a bucket's metrics are covered alike.  They rest on lemmas     *)
(* about folds over finite sets.                                           *)
(*                                                                         *)
(* The live chart drawn from it and continued from the stream: its types,  *)
(* and that it is in order and without a missing sample for a host of this *)
(* instance.  They rest on lemmas about drawing rows one after the other.  *)
(***************************************************************************)
EXTENDS TrendStore, LiveChart, FiniteSetTheorems, TLAPS

-----------------------------------------------------------------------------
(* Finite sets: induction, and recursive functions on their subsets. *)

\* A set of natural numbers that is not empty has a least member.
LEMMA LeastNat ==
  ASSUME NEW T \in SUBSET Nat, T # {}
  PROVE \E x \in T : \A y \in T : x <= y
<1> DEFINE W == {0 .. n : n \in T}
<1>1. W \subseteq FiniteSubsetsOf(Nat)
  <2> SUFFICES ASSUME NEW n \in T PROVE 0 .. n \in FiniteSubsetsOf(Nat)
    OBVIOUS
  <2>1. IsFiniteSet(0 .. n) /\ 0 .. n \in SUBSET Nat
    BY FS_Interval
  <2> QED BY <2>1 DEF FiniteSubsetsOf
<1>2. W # {}
  OBVIOUS
<1>3. IsWellFoundedOn(StrictSubsetOrdering(Nat), FiniteSubsetsOf(Nat))
  BY FS_StrictSubsetOrderingWellFounded
<1>4. PICK A \in W : \A B \in W : ~(<<B, A>> \in StrictSubsetOrdering(Nat))
  <2> HIDE DEF W
  <2> QED BY <1>1, <1>2, <1>3, WFMin
<1>5. PICK n \in T : A = 0 .. n
  BY <1>4
<1>6. ASSUME NEW m \in T, m < n PROVE FALSE
  <2>1. 0 .. m \in W
    OBVIOUS
  <2>2. <<0 .. m, A>> \in StrictSubsetOrdering(Nat)
    <3>1. 0 .. m \in SUBSET Nat /\ A \in SUBSET Nat /\ 0 .. m \subseteq A
      BY <1>5, <1>6
    <3>2. n \in A /\ n \notin 0 .. m
      BY <1>5, <1>6
    <3> QED BY <3>1, <3>2 DEF StrictSubsetOrdering
  <2> QED BY <1>4, <2>1, <2>2
<1> QED BY <1>6

\* T holds a set when it holds the set without any one of its members.
Grows(T, U) == \A S \in SUBSET U : S # {} /\ (\A x \in S : S \ {x} \in T) => S \in T

\* Induction on the subsets of a finite set.
LEMMA SubsetInduction ==
  ASSUME NEW U, IsFiniteSet(U), NEW T, {} \in T, Grows(T, U)
  PROVE SUBSET U \subseteq T
<1> DEFINE Sizes == {k \in Nat : \E S \in SUBSET U : S \notin T /\ Cardinality(S) = k}
<1>0. \A S \in SUBSET U : IsFiniteSet(S) /\ Cardinality(S) \in Nat
  BY FS_Subset, FS_CardinalityType
<1> SUFFICES ASSUME NEW S \in SUBSET U, S \notin T PROVE FALSE
  OBVIOUS
<1>1. Sizes \in SUBSET Nat /\ Sizes # {}
  BY <1>0
<1>2. PICK k \in Sizes : \A j \in Sizes : k <= j
  <2> HIDE DEF Sizes
  <2> QED BY <1>1, LeastNat
<1>3. PICK L \in SUBSET U : L \notin T /\ Cardinality(L) = k
  BY <1>2
<1>4. ASSUME NEW x \in L PROVE L \ {x} \in T
  <2>1. L \ {x} \in SUBSET U /\ Cardinality(L \ {x}) = Cardinality(L) - 1
    BY <1>0, FS_RemoveElement
  <2>2. Cardinality(L \ {x}) \in Nat /\ Cardinality(L) \in Nat
    BY <1>0, <2>1
  <2>3. Cardinality(L \ {x}) \notin Sizes
    <3> HIDE DEF Sizes
    <3> QED BY <1>2, <1>3, <2>1, <2>2, <1>1
  <2> QED BY <2>1, <2>2, <2>3
<1>5. L # {}
  BY <1>3
<1> QED BY <1>3, <1>4, <1>5 DEF Grows

\* The member of a set that the folds take first.
Pick(S) == CHOOSE x \in S : TRUE

\* It is one of them.
LEMMA PickIn == \A S : S # {} => Pick(S) \in S
BY DEF Pick

\* f is the recursive function over the sets of W with this base and steps.
Recurses(f, W, base, step) ==
    f = [S \in W |-> IF S = {} THEN base ELSE step[Pick(S)][f[S \ {Pick(S)}]]]

\* There is a recursive function on the subsets of a finite set for every base
\* and steps of a type.
LEMMA SetRecursion ==
  ASSUME NEW U, IsFiniteSet(U), NEW A, NEW base \in A, NEW step \in [U -> [A -> A]]
  PROVE \E f \in [SUBSET U -> A] : Recurses(f, SUBSET U, base, step)
<1> DEFINE W(V) == {S \in SUBSET U : Cardinality(S) <= Cardinality(V)}
           T == {V \in SUBSET U : \E f \in [W(V) -> A] : Recurses(f, W(V), base, step)}
<1>0. ASSUME NEW S \in SUBSET U
      PROVE /\ IsFiniteSet(S) /\ Cardinality(S) \in Nat
            /\ \A x \in S : Cardinality(S \ {x}) = Cardinality(S) - 1
            /\ (Cardinality(S) = 0) <=> (S = {})
  <2>1. IsFiniteSet(S)
    BY FS_Subset
  <2> QED BY <2>1, FS_CardinalityType, FS_RemoveElement, FS_EmptySet
<1>1. {} \in T
  <2>1. W({}) = {{}}
    BY <1>0, FS_EmptySet
  <2> DEFINE g == [S \in W({}) |-> base]
  <2>2. g \in [W({}) -> A]
    OBVIOUS
  <2>3. Recurses(g, W({}), base, step)
    BY <2>1 DEF Recurses
  <2>4. \E f \in [W({}) -> A] : Recurses(f, W({}), base, step)
    <3> HIDE DEF g, W
    <3> QED BY <2>2, <2>3
  <2> QED BY <2>4
<1>2. Grows(T, U)
  <2> SUFFICES ASSUME NEW V \in SUBSET U, V # {}, \A x \in V : V \ {x} \in T
               PROVE V \in T
    BY DEF Grows
  <2>1. PICK x \in V : TRUE
    OBVIOUS
  <2> DEFINE L == V \ {x}
  <2>2. L \in T /\ L \in SUBSET U /\ Cardinality(L) = Cardinality(V) - 1
    BY <2>1, <1>0
  <2>3. PICK f \in [W(L) -> A] : Recurses(f, W(L), base, step)
    BY <2>2
  <2>4. ASSUME NEW S \in W(V), S # {}
        PROVE S \ {Pick(S)} \in W(L) /\ Pick(S) \in U
    <3>1. Pick(S) \in S
      BY <2>4, PickIn
    <3>2. Cardinality(S \ {Pick(S)}) = Cardinality(S) - 1 /\ S \ {Pick(S)} \in SUBSET U
      BY <1>0, <3>1
    <3> QED BY <1>0, <2>2, <3>1, <3>2
  <2> DEFINE g == [S \in W(V) |->
                     IF S = {} THEN base ELSE step[Pick(S)][f[S \ {Pick(S)}]]]
  <2>5. g \in [W(V) -> A]
    <3> SUFFICES ASSUME NEW S \in W(V) PROVE g[S] \in A
      OBVIOUS
    <3>1. CASE S # {}
      <4>1. step[Pick(S)] \in [A -> A] /\ f[S \ {Pick(S)}] \in A
        BY <2>4, <3>1
      <4> QED BY <3>1, <4>1
    <3> QED BY <3>1
  <2>6. ASSUME NEW S \in W(L) PROVE S \in W(V) /\ f[S] = g[S]
    <3>1. S \in W(V)
      BY <2>2, <1>0
    <3>2. f[S] = IF S = {} THEN base ELSE step[Pick(S)][f[S \ {Pick(S)}]]
      <4> HIDE DEF W
      <4> QED BY <2>3 DEF Recurses
    <3> QED BY <3>1, <3>2
  <2>7. ASSUME NEW S \in W(V)
        PROVE g[S] = IF S = {} THEN base ELSE step[Pick(S)][g[S \ {Pick(S)}]]
    <3>1. CASE S = {}
      BY <3>1
    <3>2. CASE S # {}
      <4>1. f[S \ {Pick(S)}] = g[S \ {Pick(S)}]
        BY <2>4, <2>6, <3>2
      <4> QED BY <3>2, <4>1
    <3> QED BY <3>1, <3>2
  <2>8. Recurses(g, W(V), base, step)
    <3>1. g = [S \in W(V) |-> g[S]]
      OBVIOUS
    <3> HIDE DEF g, W
    <3> QED BY <2>7, <3>1, Zenon DEF Recurses
  <2>9. \E h \in [W(V) -> A] : Recurses(h, W(V), base, step)
    <3> HIDE DEF g, W
    <3> QED BY <2>5, <2>8
  <2> QED BY <2>9
<1>3. U \in T
  <2> HIDE DEF T
  <2>1. SUBSET U \subseteq T
    BY <1>1, <1>2, SubsetInduction
  <2> QED BY <2>1
<1>4. W(U) = SUBSET U
  BY <1>0, FS_Subset
<1> QED BY <1>3, <1>4

\* Two functions agree on the subsets of a set, which is a part of another's.
Agree(f, g, U) == \A S \in SUBSET U : f[S] = g[S]
Within(U, V) == U \subseteq V /\ IsFiniteSet(U)

\* Recursive functions on the subsets of two sets agree on the sets they share.
LEMMA FoldsAgree ==
  ASSUME NEW U, NEW V, Within(U, V), NEW base, NEW step,
         NEW f, Recurses(f, SUBSET U, base, step), NEW g, Recurses(g, SUBSET V, base, step)
  PROVE Agree(f, g, U)
<1> DEFINE T == {S \in SUBSET U : f[S] = g[S]}
<1>0. ASSUME NEW S \in SUBSET U
      PROVE /\ f[S] = IF S = {} THEN base ELSE step[Pick(S)][f[S \ {Pick(S)}]]
            /\ g[S] = IF S = {} THEN base ELSE step[Pick(S)][g[S \ {Pick(S)}]]
  BY DEF Recurses, Within
<1>1. {} \in T
  BY <1>0
<1>2. Grows(T, U)
  BY <1>0, PickIn DEF Grows
<1>3. SUBSET U \subseteq T
  <2> HIDE DEF T
  <2> QED BY <1>1, <1>2, SubsetInduction DEF Within
<1> QED BY <1>3 DEF Agree

\* The value of the recursive function at U.
FoldOf(U, base, step) ==
    (CHOOSE f : Recurses(f, SUBSET U, base, step))[U]

Unfolds(U, base, step) ==
    FoldOf(U, base, step) =
      IF U = {} THEN base ELSE step[Pick(U)][FoldOf(U \ {Pick(U)}, base, step)]

\* It has its type and its equation.
LEMMA FoldOfStep ==
  ASSUME NEW U, NEW R, Within(U, R), NEW A, NEW base \in A,
         NEW step \in [R -> [A -> A]]
  PROVE FoldOf(U, base, step) \in A /\ Unfolds(U, base, step)
<1> DEFINE F(V) == CHOOSE f : Recurses(f, SUBSET V, base, step)
<1>1. ASSUME NEW V \in SUBSET R, IsFiniteSet(V)
      PROVE Recurses(F(V), SUBSET V, base, step) /\ F(V)[V] \in A
  <2> DEFINE here == [x \in V |-> step[x]]
  <2>1. here \in [V -> [A -> A]]
    OBVIOUS
  <2>2. PICK f \in [SUBSET V -> A] : Recurses(f, SUBSET V, base, here)
    <3> HIDE DEF here
    <3> QED BY <1>1, <2>1, SetRecursion
  <2>3. Recurses(f, SUBSET V, base, step)
    <3>1. ASSUME NEW S \in SUBSET V
          PROVE f[S] = IF S = {} THEN base ELSE step[Pick(S)][f[S \ {Pick(S)}]]
      <4>1. f[S] = IF S = {} THEN base ELSE here[Pick(S)][f[S \ {Pick(S)}]]
        BY <2>2 DEF Recurses
      <4>2. S # {} => Pick(S) \in V
        BY PickIn
      <4> QED BY <4>1, <4>2
    <3>2. f = [S \in SUBSET V |-> f[S]]
      OBVIOUS
    <3> QED BY <3>1, <3>2, Zenon DEF Recurses
  <2>4. Recurses(F(V), SUBSET V, base, step)
    BY <2>3
  <2>5. F(V)[V] = f[V]
    <3>1. PICK h : h = F(V)
      OBVIOUS
    <3>2. Recurses(h, SUBSET V, base, step) /\ Within(V, V)
      BY <1>1, <2>4, <3>1 DEF Within
    <3>3. Agree(f, h, V)
      BY <2>3, <3>2, FoldsAgree
    <3> QED BY <3>1, <3>2, <3>3 DEF Agree
  <2> QED BY <2>2, <2>4, <2>5
<1>2. FoldOf(U, base, step) = F(U)[U] /\ U \in SUBSET R /\ IsFiniteSet(U)
  BY DEF FoldOf, Within
<1>3. CASE U = {}
  BY <1>1, <1>2, <1>3 DEF Recurses, Unfolds
<1>4. CASE U # {}
  <2> DEFINE V == U \ {Pick(U)}
  <2>1. V \in SUBSET R /\ IsFiniteSet(V) /\ V \subseteq U
    BY <1>2, FS_Subset
  <2>2. F(V)[V] = F(U)[V]
    <3>1. Recurses(F(V), SUBSET V, base, step) /\ Recurses(F(U), SUBSET U, base, step)
      BY <1>1, <1>2, <2>1
    <3>2. PICK f, g : f = F(V) /\ g = F(U)
      OBVIOUS
    <3>3. Recurses(f, SUBSET V, base, step) /\ Recurses(g, SUBSET U, base, step)
      BY <3>1, <3>2
    <3>4. Within(V, U)
      BY <2>1 DEF Within
    <3>5. Agree(f, g, V)
      <4> HIDE DEF V
      <4> QED BY <3>3, <3>4, FoldsAgree
    <3> QED BY <3>2, <3>5 DEF Agree
  <2>3. F(U)[U] = step[Pick(U)][F(U)[V]]
    <3>1. Recurses(F(U), SUBSET U, base, step)
      BY <1>1, <1>2
    <3> HIDE DEF F
    <3> QED BY <1>4, <3>1 DEF Recurses
  <2>4. FoldOf(V, base, step) = F(V)[V]
    BY DEF FoldOf
  <2> HIDE DEF F
  <2> QED BY <1>1, <1>2, <1>4, <2>2, <2>3, <2>4 DEF Unfolds
<1> QED BY <1>3, <1>4

-----------------------------------------------------------------------------
(* Sums over finite sets. *)

\* The sum of w over S.
Total(S, w) == FoldOf(S, 0, [x \in DOMAIN w |-> [a \in Int |-> w[x] + a]])
Summable(S, w) == S \subseteq DOMAIN w /\ IsFiniteSet(S) /\ w \in [DOMAIN w -> Int]

\* Parts of a summable set are summable.
LEMMA SummablePart ==
  ASSUME NEW S, NEW w, Summable(S, w), NEW T \in SUBSET S
  PROVE Summable(T, w)
BY FS_Subset DEF Summable

\* A sum is a number, and one member more than that of the others.
LEMMA TotalStep ==
  ASSUME NEW S, NEW w, Summable(S, w)
  PROVE /\ Total(S, w) \in Int
        /\ S = {} => Total(S, w) = 0
        /\ S # {} => Total(S, w) = w[Pick(S)] + Total(S \ {Pick(S)}, w)
<1> DEFINE step == [x \in DOMAIN w |-> [a \in Int |-> w[x] + a]]
<1>1. \A x \in DOMAIN w : w[x] \in Int
  BY DEF Summable
<1>2. step \in [DOMAIN w -> [Int -> Int]]
  BY <1>1
<1>3. \A T \in SUBSET S : Within(T, DOMAIN w)
  BY FS_Subset DEF Summable, Within
<1>4. \A T \in SUBSET S : FoldOf(T, 0, step) \in Int /\ Unfolds(T, 0, step)
  <2>1. 0 \in Int
    OBVIOUS
  <2> HIDE DEF step
  <2> QED BY <1>2, <1>3, <2>1, FoldOfStep
<1>5. S # {} => Pick(S) \in DOMAIN w
  BY PickIn DEF Summable
<1>6. S \ {Pick(S)} \in SUBSET S
  OBVIOUS
<1>7. \A T : Total(T, w) = FoldOf(T, 0, step)
  BY DEF Total
<1> QED BY <1>4, <1>5, <1>6, <1>7 DEF Unfolds

\* So for whichever member is taken.
TakesApart(S, w) == \A x \in S : Total(S, w) = w[x] + Total(S \ {x}, w)
LEMMA TotalRemove ==
  ASSUME NEW S, NEW w, Summable(S, w)
  PROVE TakesApart(S, w)
<1> DEFINE T == {V \in SUBSET S : TakesApart(V, w)}
<1>1. {} \in T
  BY DEF TakesApart
<1>2. Grows(T, S)
  <2> SUFFICES ASSUME NEW V \in SUBSET S, V # {}, \A x \in V : V \ {x} \in T,
                      NEW x \in V
               PROVE Total(V, w) = w[x] + Total(V \ {x}, w)
    BY DEF Grows, TakesApart
  <2>1. PICK p \in V : Total(V, w) = w[p] + Total(V \ {p}, w)
    BY SummablePart, TotalStep, PickIn
  <2>3. CASE x = p
    BY <2>1, <2>3, Zenon
  <2>4. CASE x # p
    <3>1. TakesApart(V \ {p}, w) /\ TakesApart(V \ {x}, w)
      BY <2>1
    <3>2. /\ Total(V \ {p}, w) = w[x] + Total((V \ {p}) \ {x}, w)
          /\ Total(V \ {x}, w) = w[p] + Total((V \ {x}) \ {p}, w)
      BY <2>1, <2>4, <3>1 DEF TakesApart
    <3>3. (V \ {p}) \ {x} = (V \ {x}) \ {p}
      OBVIOUS
    <3>4. Summable((V \ {x}) \ {p}, w)
      BY SummablePart
    <3>5. Total((V \ {x}) \ {p}, w) \in Int
      BY <3>4, TotalStep
    <3>6. w[p] \in Int /\ w[x] \in Int
      BY <2>1 DEF Summable
    <3>7. PICK z \in Int : /\ Total(V \ {p}, w) = w[x] + z
                          /\ Total(V \ {x}, w) = w[p] + z
      <4>1. Total((V \ {p}) \ {x}, w) = Total((V \ {x}) \ {p}, w)
        BY <3>3, Zenon
      <4> QED BY <3>2, <3>5, <4>1
    <3> QED BY <2>1, <3>6, <3>7
  <2> QED BY <2>3, <2>4
<1>3. SUBSET S \subseteq T
  <2> HIDE DEF T
  <2> QED BY <1>1, <1>2, SubsetInduction DEF Summable
<1> QED BY <1>3

\* The sum over two sets that share nothing.
LEMMA TotalUnion ==
  ASSUME NEW A, NEW B, NEW w, Summable(A \union B, w), A \intersect B = {}
  PROVE Total(A \union B, w) = Total(A, w) + Total(B, w)
<1> DEFINE T == {V \in SUBSET A : Total(V \union B, w) = Total(V, w) + Total(B, w)}
<1>0. \A V \in SUBSET A :
        /\ Summable(V \union B, w) /\ Summable(V, w)
        /\ Total(V, w) \in Int /\ Total(V \union B, w) \in Int
  <2>1. \A V \in SUBSET A : V \union B \in SUBSET (A \union B) /\ V \in SUBSET (A \union B)
    OBVIOUS
  <2>2. \A V \in SUBSET A : Summable(V \union B, w) /\ Summable(V, w)
    BY <2>1, SummablePart
  <2> QED BY <2>2, TotalStep
<1>1. Total(B, w) \in Int /\ IsFiniteSet(A)
  <2>1. Summable(B, w) /\ Summable(A, w)
    <3>1. B \in SUBSET (A \union B) /\ A \in SUBSET (A \union B)
      OBVIOUS
    <3> QED BY <3>1, SummablePart
  <2> QED BY <2>1, TotalStep DEF Summable
<1>2. {} \in T
  <2>1. Total({}, w) = 0 /\ {} \union B = B
    BY <1>0, TotalStep
  <2> QED BY <1>1, <2>1
<1>3. Grows(T, A)
  <2> SUFFICES ASSUME NEW V \in SUBSET A, V # {}, \A x \in V : V \ {x} \in T
               PROVE Total(V \union B, w) = Total(V, w) + Total(B, w)
    BY DEF Grows
  <2>1. PICK x \in V : TRUE
    OBVIOUS
  <2>2. Total(V \union B, w) = w[x] + Total((V \union B) \ {x}, w)
    <3>1. TakesApart(V \union B, w)
      BY <1>0, TotalRemove
    <3> QED BY <2>1, <3>1 DEF TakesApart
  <2>3. Total(V, w) = w[x] + Total(V \ {x}, w)
    <3>1. TakesApart(V, w)
      BY <1>0, TotalRemove
    <3> QED BY <2>1, <3>1 DEF TakesApart
  <2>4. (V \union B) \ {x} = (V \ {x}) \union B
    BY <2>1
  <2>5. Total((V \ {x}) \union B, w) = Total(V \ {x}, w) + Total(B, w)
    BY <2>1
  <2>6. w[x] \in Int
    BY <2>1 DEF Summable
  <2>7. Total(V \ {x}, w) \in Int
    BY <1>0
  <2> QED BY <1>1, <2>2, <2>3, <2>4, <2>5, <2>6, <2>7
<1>4. SUBSET A \subseteq T
  <2> HIDE DEF T
  <2> QED BY <1>1, <1>2, <1>3, SubsetInduction
<1> QED BY <1>4

\* A sum of positive numbers, if there is one, is positive.
LEMMA TotalPositive ==
  ASSUME NEW S, NEW w, Summable(S, w), \A x \in S : w[x] > 0, S # {}
  PROVE Total(S, w) > 0
<1> DEFINE T == {V \in SUBSET S : Total(V, w) >= 0 /\ (V # {} => Total(V, w) > 0)}
<1>0. \A V \in SUBSET S : Summable(V, w) /\ Total(V, w) \in Int
  BY SummablePart, TotalStep
<1>1. {} \in T
  BY <1>0, TotalStep
<1>2. Grows(T, S)
  <2> SUFFICES ASSUME NEW V \in SUBSET S, V # {}, \A x \in V : V \ {x} \in T
               PROVE Total(V, w) > 0
    BY <1>0 DEF Grows
  <2>1. Pick(V) \in V
    BY PickIn
  <2>2. Total(V, w) = w[Pick(V)] + Total(V \ {Pick(V)}, w)
    BY <1>0, TotalStep
  <2>3. Total(V \ {Pick(V)}, w) >= 0 /\ Total(V \ {Pick(V)}, w) \in Int
    BY <1>0, <2>1
  <2>4. w[Pick(V)] > 0 /\ w[Pick(V)] \in Int
    BY <2>1 DEF Summable
  <2> QED BY <2>2, <2>3, <2>4
<1>3. SUBSET S \subseteq T
  <2> HIDE DEF T
  <2> QED BY <1>1, <1>2, SubsetInduction DEF Summable
<1> QED BY <1>3

\* Two sets of rollups of which every container has one, with the same weight in
\* both, have the same sum.
Keyed(S) == \A r, q \in S : r.id = q.id => r = q
Matches(S, T, w) == \A r \in S : \E q \in T : q.id = r.id /\ w[q] = w[r]
LEMMA TotalMatch ==
  ASSUME NEW S, NEW T, NEW w, Summable(S, w), Summable(T, w), Keyed(S), Keyed(T),
         Matches(S, T, w), Matches(T, S, w)
  PROVE Total(S, w) = Total(T, w)
<1> DEFINE Same(V) == \A Y \in SUBSET T :
                        Matches(V, Y, w) /\ Matches(Y, V, w) => Total(V, w) = Total(Y, w)
           W == {V \in SUBSET S : Same(V)}
<1>1. {} \in W
  <2> SUFFICES ASSUME NEW Y \in SUBSET T, Matches(Y, {}, w)
               PROVE Total({}, w) = Total(Y, w)
    OBVIOUS
  <2> QED BY DEF Matches
<1>2. Grows(W, S)
  <2> SUFFICES ASSUME NEW V \in SUBSET S, V # {}, \A x \in V : V \ {x} \in W,
                      NEW Y \in SUBSET T, Matches(V, Y, w), Matches(Y, V, w)
               PROVE Total(V, w) = Total(Y, w)
    BY DEF Grows
  <2>1. PICK r \in V : TRUE
    OBVIOUS
  <2>2. PICK q \in Y : q.id = r.id /\ w[q] = w[r]
    BY <2>1 DEF Matches
  <2>3. Matches(V \ {r}, Y \ {q}, w)
    BY <2>1, <2>2 DEF Matches, Keyed
  <2>4. Matches(Y \ {q}, V \ {r}, w)
    BY <2>1, <2>2 DEF Matches, Keyed
  <2>5. Total(V \ {r}, w) = Total(Y \ {q}, w)
    <3>1. Same(V \ {r}) /\ Y \ {q} \in SUBSET T
      BY <2>1
    <3> HIDE DEF W
    <3> QED BY <2>3, <2>4, <3>1
  <2>6. TakesApart(V, w) /\ TakesApart(Y, w)
    BY SummablePart, TotalRemove
  <2>7. /\ Total(V, w) = w[r] + Total(V \ {r}, w)
        /\ Total(Y, w) = w[q] + Total(Y \ {q}, w)
    BY <2>1, <2>2, <2>6 DEF TakesApart
  <2> QED BY <2>2, <2>5, <2>7
<1>3. SUBSET S \subseteq W
  <2> HIDE DEF W
  <2> QED BY <1>1, <1>2, SubsetInduction DEF Summable
<1>4. Same(S)
  <2> HIDE DEF Same
  <2> QED BY <1>3
<1> QED BY <1>4

-----------------------------------------------------------------------------
(* The folds of the store: counts, weighted medians and merged envelopes. *)

\* A rollup's samples, and its median as often.
SamplesOf == [r \in Rollup |-> r.e.n]
MedianOf == [r \in Rollup |-> r.e.med * r.e.n]

\* What is known of envelopes and rollups.
RollupOK(r) ==
    /\ r.e.min \in Int /\ r.e.med \in Int /\ r.e.max \in Int
    /\ r.e.min <= r.e.med /\ r.e.med <= r.e.max
    /\ r.e.n \in Nat \ {0}
LEMMA Rollups == \A r \in Rollup : RollupOK(r)
<1> SUFFICES ASSUME NEW r \in Rollup PROVE RollupOK(r)
  OBVIOUS
<1>1. r.e \in Envelopes
  BY DEF Rollup
<1>2. r.e \in [min : Int, med : Int, max : Int, n : Nat \ {0}]
  BY <1>1, StoreAssumption
<1> QED BY <1>1, <1>2, StoreAssumption DEF RollupOK

\* A finite set of rollups can be summed.
Some(S) == S \subseteq Rollup /\ IsFiniteSet(S)
LEMMA SomeSummable ==
  ASSUME NEW S, Some(S)
  PROVE Summable(S, SamplesOf) /\ Summable(S, MedianOf)
<1>1. \A r \in Rollup : r.e.n \in Int /\ r.e.med * r.e.n \in Int
  BY Rollups DEF RollupOK
<1> QED BY <1>1 DEF Summable, Some, SamplesOf, MedianOf

\* f sums w over the subsets of S; there is such a function, and it does.
Sums(f, S, w) ==
    f = [V \in SUBSET S |-> IF V = {} THEN 0 ELSE w[Pick(V)] + f[V \ {Pick(V)}]]
LEMMA SumsTotal ==
  ASSUME NEW S, NEW w, Summable(S, w)
  PROVE /\ \E f : Sums(f, S, w)
        /\ \A f : Sums(f, S, w) => f[S] = Total(S, w)
<1>0. \A V \in SUBSET S :
        Total(V, w) = IF V = {} THEN 0 ELSE w[Pick(V)] + Total(V \ {Pick(V)}, w)
  BY SummablePart, TotalStep
<1>1. \E f : Sums(f, S, w)
  <2> DEFINE g == [V \in SUBSET S |-> Total(V, w)]
  <2>1. ASSUME NEW V \in SUBSET S
        PROVE g[V] = IF V = {} THEN 0 ELSE w[Pick(V)] + g[V \ {Pick(V)}]
    BY <1>0
  <2>2. g = [V \in SUBSET S |-> g[V]]
    OBVIOUS
  <2>3. Sums(g, S, w)
    <3> HIDE DEF g
    <3> QED BY <2>1, <2>2, Zenon DEF Sums
  <2> HIDE DEF g
  <2> QED BY <2>3
<1>2. ASSUME NEW f, Sums(f, S, w) PROVE f[S] = Total(S, w)
  <2> DEFINE T == {V \in SUBSET S : f[V] = Total(V, w)}
  <2>1. \A V \in SUBSET S : f[V] = IF V = {} THEN 0 ELSE w[Pick(V)] + f[V \ {Pick(V)}]
    BY <1>2 DEF Sums
  <2>2. {} \in T
    BY <1>0, <2>1
  <2>3. Grows(T, S)
    BY <1>0, <2>1, PickIn DEF Grows
  <2>4. SUBSET S \subseteq T
    <3> HIDE DEF T
    <3> QED BY <2>2, <2>3, SubsetInduction DEF Summable
  <2> QED BY <2>4
<1> QED BY <1>1, <1>2

\* WeightedMean is the quotient of these sums.
LEMMA MeanTotals ==
  ASSUME NEW S, Some(S)
  PROVE WeightedMean(S) = <<Total(S, MedianOf), Total(S, SamplesOf)>>
<1> DEFINE Counts(f) == f = [V \in SUBSET S |-> IF V = {} THEN 0
                               ELSE Pick(V).e.n + f[V \ {Pick(V)}]]
           Weighs(f) == f = [V \in SUBSET S |-> IF V = {} THEN 0
                               ELSE Pick(V).e.med * Pick(V).e.n + f[V \ {Pick(V)}]]
<1>1. WeightedMean(S) = <<(CHOOSE f : Weighs(f))[S], (CHOOSE f : Counts(f))[S]>>
  BY Zenon DEF WeightedMean, FoldSet, MapThenFoldSet, Pick
<1>2. \A V \in SUBSET S : V # {} => Pick(V) \in Rollup
  BY PickIn DEF Some
<1>3. ASSUME NEW f PROVE Counts(f) <=> Sums(f, S, SamplesOf)
  <2>1. \A V \in SUBSET S : V # {} => SamplesOf[Pick(V)] = Pick(V).e.n
    BY <1>2 DEF SamplesOf
  <2> QED BY <2>1 DEF Sums
<1>4. ASSUME NEW f PROVE Weighs(f) <=> Sums(f, S, MedianOf)
  <2>1. \A V \in SUBSET S : V # {} => MedianOf[Pick(V)] = Pick(V).e.med * Pick(V).e.n
    BY <1>2 DEF MedianOf
  <2> QED BY <2>1 DEF Sums
<1>5. (CHOOSE f : Counts(f))[S] = Total(S, SamplesOf)
  <2> HIDE DEF Counts
  <2>1. \E f : Counts(f)
    BY <1>3, SomeSummable, SumsTotal
  <2>2. Counts(CHOOSE f : Counts(f))
    BY <2>1
  <2> QED BY <1>3, <2>2, SomeSummable, SumsTotal
<1>6. (CHOOSE f : Weighs(f))[S] = Total(S, MedianOf)
  <2> HIDE DEF Weighs
  <2>1. \E f : Weighs(f)
    BY <1>4, SomeSummable, SumsTotal
  <2>2. Weighs(CHOOSE f : Weighs(f))
    BY <2>1
  <2> QED BY <1>4, <2>2, SomeSummable, SumsTotal
<1> QED BY <1>1, <1>5, <1>6

Count(S) == Total(S, SamplesOf)
Weight(S) == Total(S, MedianOf)

\* Counts and weights are numbers, those of no rollups zero, and counts else
\* positive.
LEMMA Totals ==
  ASSUME NEW S, Some(S)
  PROVE /\ Count(S) \in Nat /\ Weight(S) \in Int
        /\ S = {} => Count(S) = 0
        /\ S # {} => Count(S) > 0
<1>1. Summable(S, SamplesOf) /\ Summable(S, MedianOf)
  BY SomeSummable
<1>2. \A x \in S : SamplesOf[x] > 0
  BY Rollups DEF Some, SamplesOf, RollupOK
<1>3. Count(S) \in Int /\ Weight(S) \in Int /\ (S = {} => Count(S) = 0)
  BY <1>1, TotalStep DEF Count, Weight
<1>4. S # {} => Count(S) > 0
  BY <1>1, <1>2, TotalPositive DEF Count
<1> QED BY <1>3, <1>4

\* Those of one rollup.
LEMMA TotalsOne ==
  ASSUME NEW r \in Rollup
  PROVE Some({r}) /\ Count({r}) = r.e.n /\ Weight({r}) = r.e.med * r.e.n
<1>1. Some({r})
  BY FS_Singleton DEF Some
<1>2. Summable({r}, SamplesOf) /\ Summable({r}, MedianOf)
  BY <1>1, SomeSummable
<1>3. TakesApart({r}, SamplesOf) /\ TakesApart({r}, MedianOf)
  BY <1>2, TotalRemove
<1>4. {r} \ {r} = {} /\ r \in {r} /\ {} \in SUBSET {r}
  OBVIOUS
<1>5. Total({}, SamplesOf) = 0 /\ Total({}, MedianOf) = 0
  BY <1>2, <1>4, SummablePart, TotalStep
<1>6. Total({r}, SamplesOf) = SamplesOf[r] + Total({}, SamplesOf)
  BY <1>3, <1>4, Zenon DEF TakesApart
<1>7. Total({r}, MedianOf) = MedianOf[r] + Total({}, MedianOf)
  BY <1>3, <1>4, Zenon DEF TakesApart
<1>8. SamplesOf[r] = r.e.n /\ MedianOf[r] = r.e.med * r.e.n
      /\ r.e.n \in Int /\ r.e.med * r.e.n \in Int
  BY Rollups DEF SamplesOf, MedianOf, RollupOK
<1> QED BY <1>1, <1>5, <1>6, <1>7, <1>8 DEF Count, Weight

\* Those of rollups that are apart.
LEMMA TotalsUnion ==
  ASSUME NEW A, Some(A), NEW B, Some(B), A \intersect B = {}
  PROVE /\ Count(A \union B) = Count(A) + Count(B)
        /\ Weight(A \union B) = Weight(A) + Weight(B)
<1>1. Some(A \union B)
  BY FS_Union DEF Some
<1> QED BY <1>1, SomeSummable, TotalUnion DEF Count, Weight

-----------------------------------------------------------------------------
(* Merging envelopes. *)

StoredEnvelope == [min : Int, med : Int \X Int, max : Int]

\* The least and the greatest of two numbers.
LEMMA MinMaxTwo ==
  ASSUME NEW x \in Int, NEW y \in Int
  PROVE /\ Min({x, y}) = IF x <= y THEN x ELSE y
        /\ Max({x, y}) = IF x <= y THEN y ELSE x
<1>1. ASSUME x <= y PROVE Min({x, y}) = x /\ Max({x, y}) = y
  <2>1. \E z \in {x, y} : \A t \in {x, y} : z <= t
    BY <1>1
  <2>2. \E z \in {x, y} : \A t \in {x, y} : z >= t
    BY <1>1
  <2> QED BY <1>1, <2>1, <2>2 DEF Min, Max
<1>2. ASSUME y < x PROVE Min({x, y}) = y /\ Max({x, y}) = x
  <2>1. \E z \in {x, y} : \A t \in {x, y} : z <= t
    BY <1>2
  <2>2. \E z \in {x, y} : \A t \in {x, y} : z >= t
    BY <1>2
  <2> QED BY <1>2, <2>1, <2>2 DEF Min, Max
<1> QED BY <1>1, <1>2

\* The bounds are those of the rollups.
Extremes(min, max, S) ==
    /\ \E r \in S : r.e.min = min
    /\ \E r \in S : r.e.max = max
    /\ \A r \in S : min <= r.e.min /\ r.e.max <= max

\* v is the envelope of the rollups S of a metric.
Summarises(v, S) ==
    IF S = {} THEN v = NoData
    ELSE v \in StoredEnvelope /\ EnvelopeOK(v) /\ Extremes(v.min, v.max, S)

\* Its median is the mean of theirs, weighted by their counts.
Balanced(v, S) == S # {} => v.med[1] * Count(S) = v.med[2] * Weight(S)

\* A stored rollup is its own envelope.
LEMMA StoredOne ==
  ASSUME NEW r \in Rollup
  PROVE Summarises(Stored(r.e), {r}) /\ Balanced(Stored(r.e), {r})
<1>1. RollupOK(r)
  BY Rollups
<1>2. Stored(r.e) \in StoredEnvelope
  BY <1>1 DEF Stored, StoredEnvelope, RollupOK
<1>3. EnvelopeOK(Stored(r.e))
  BY <1>1 DEF Stored, EnvelopeOK, AtMost, RollupOK
<1>4. Extremes(Stored(r.e).min, Stored(r.e).max, {r})
  BY <1>1 DEF Stored, Extremes, RollupOK
<1>5. Balanced(Stored(r.e), {r})
  BY <1>1, TotalsOne DEF Stored, Balanced, RollupOK
<1> QED BY <1>2, <1>3, <1>4, <1>5 DEF Summarises

\* Products keep the order and are positive.
LEMMA TimesMono ==
  ASSUME NEW x \in Int, NEW y \in Int, NEW z \in Int, x <= y, z >= 0
  PROVE x * z <= y * z
OBVIOUS
LEMMA TimesPositive ==
  ASSUME NEW x \in Int, NEW y \in Int, x > 0, y > 0
  PROVE x * y > 0
OBVIOUS

\* A weighted mean lies between bounds of both medians.
LEMMA WeightedBetween ==
  ASSUME NEW p1 \in Int, NEW p2 \in Int, NEW q1 \in Int, NEW q2 \in Int,
         NEW wp \in Int, NEW wq \in Int, NEW low \in Int, NEW high \in Int,
         p2 > 0, q2 > 0, wp > 0, wq > 0,
         low * p2 <= p1, low * q2 <= q1, p1 <= high * p2, q1 <= high * q2
  PROVE /\ p2 * q2 * (wp + wq) > 0
        /\ low * (p2 * q2 * (wp + wq)) <= p1 * wp * q2 + q1 * wq * p2
        /\ p1 * wp * q2 + q1 * wq * p2 <= high * (p2 * q2 * (wp + wq))
<1> DEFINE a == wp * q2
           b == wq * p2
<1>1. a \in Int /\ b \in Int /\ a > 0 /\ b > 0
  BY TimesPositive
<1>2. p2 * q2 * (wp + wq) = p2 * a + q2 * b
  OBVIOUS
<1>3. p1 * wp * q2 = p1 * a /\ q1 * wq * p2 = q1 * b
  OBVIOUS
<1> HIDE DEF a, b
<1>4. p2 * a > 0 /\ q2 * b > 0 /\ p2 * a \in Int /\ q2 * b \in Int
  BY <1>1, TimesPositive
<1>5. (low * p2) * a <= p1 * a /\ (low * q2) * b <= q1 * b
  <2>1. low * p2 \in Int /\ low * q2 \in Int /\ a >= 0 /\ b >= 0
    BY <1>1
  <2> QED BY <1>1, <2>1, TimesMono
<1>6. p1 * a <= (high * p2) * a /\ q1 * b <= (high * q2) * b
  <2>1. high * p2 \in Int /\ high * q2 \in Int /\ a >= 0 /\ b >= 0
    BY <1>1
  <2> QED BY <1>1, <2>1, TimesMono
<1>7. low * (p2 * a + q2 * b) = (low * p2) * a + (low * q2) * b
      /\ high * (p2 * a + q2 * b) = (high * p2) * a + (high * q2) * b
  BY <1>1
<1>8. p1 * a \in Int /\ q1 * b \in Int /\ (low * p2) * a \in Int /\ (low * q2) * b \in Int
      /\ (high * p2) * a \in Int /\ (high * q2) * b \in Int
  BY <1>1
<1>9. /\ p2 * a + q2 * b > 0
      /\ low * (p2 * a + q2 * b) <= p1 * a + q1 * b
      /\ p1 * a + q1 * b <= high * (p2 * a + q2 * b)
  BY <1>4, <1>5, <1>6, <1>7, <1>8
<1> QED BY <1>2, <1>3, <1>9

\* A weighted mean of two weighted means is that of all.
LEMMA WeightedTotals ==
  ASSUME NEW p1 \in Int, NEW p2 \in Int, NEW q1 \in Int, NEW q2 \in Int,
         NEW n1 \in Int, NEW n2 \in Int, NEW s1 \in Int, NEW s2 \in Int,
         p1 * n1 = p2 * s1, q1 * n2 = q2 * s2
  PROVE (p1 * n1 * q2 + q1 * n2 * p2) * (n1 + n2) = (p2 * q2 * (n1 + n2)) * (s1 + s2)
<1>1. p1 * n1 * q2 = (p2 * s1) * q2 /\ q1 * n2 * p2 = (q2 * s2) * p2
  OBVIOUS
<1>2. p1 * n1 * q2 + q1 * n2 * p2 = (p2 * q2) * (s1 + s2)
  BY <1>1
<1>3. (p2 * q2 * (n1 + n2)) * (s1 + s2) = ((p2 * q2) * (s1 + s2)) * (n1 + n2)
  OBVIOUS
<1> QED BY <1>2, <1>3

\* NULL is not an envelope.
LEMMA NoEnvelope == NoData \notin StoredEnvelope
BY StoreAssumption DEF StoredEnvelope

\* Bounds of wider sets.
LEMMA EnvelopeWithin ==
  ASSUME NEW v \in StoredEnvelope, EnvelopeOK(v), NEW low \in Int, NEW high \in Int,
         low <= v.min, v.max <= high
  PROVE /\ v.med[1] \in Int /\ v.med[2] \in Int /\ v.med[2] > 0
        /\ low * v.med[2] <= v.med[1] /\ v.med[1] <= high * v.med[2]
<1>1. /\ v.min \in Int /\ v.max \in Int /\ v.med[1] \in Int /\ v.med[2] \in Int
  BY DEF StoredEnvelope
<1>2. /\ v.med[2] > 0 /\ v.min * v.med[2] <= v.med[1] * 1
      /\ v.med[1] * 1 <= v.max * v.med[2]
  BY Zenon DEF EnvelopeOK, AtMost
<1>3. v.min * v.med[2] <= v.med[1] /\ v.med[1] <= v.max * v.med[2]
  BY <1>1, <1>2
<1>4. low * v.med[2] <= v.min * v.med[2] /\ v.max * v.med[2] <= high * v.med[2]
  BY <1>1, <1>2, TimesMono
<1>5. low * v.med[2] \in Int /\ high * v.med[2] \in Int
      /\ v.min * v.med[2] \in Int /\ v.max * v.med[2] \in Int
  BY <1>1
<1> QED BY <1>1, <1>2, <1>3, <1>4, <1>5

\* Merge of envelopes is the envelope of both sets of rollups, whatever the
\* weights.
LEMMA MergeSummary ==
  ASSUME NEW A, Some(A), NEW B, Some(B), NEW a, Summarises(a, A), NEW b, Summarises(b, B),
         NEW wa \in Nat, NEW wb \in Nat, A # {} => wa > 0, B # {} => wb > 0
  PROVE Summarises(Merge(a, wa, b, wb), A \union B)
<1>1. CASE A = {}
  <2>1. a = NoData /\ A \union B = B
    BY <1>1 DEF Summarises
  <2> QED BY <2>1, Zenon DEF Merge
<1>2. CASE B = {}
  <2>1. b = NoData /\ A \union B = A
    BY <1>2 DEF Summarises
  <2> QED BY <2>1, Zenon DEF Merge
<1>3. CASE A # {} /\ B # {}
  <2>1. /\ a \in StoredEnvelope /\ EnvelopeOK(a) /\ Extremes(a.min, a.max, A)
        /\ b \in StoredEnvelope /\ EnvelopeOK(b) /\ Extremes(b.min, b.max, B)
    BY <1>3 DEF Summarises
  <2>2. a # NoData /\ b # NoData
    BY <2>1, NoEnvelope
  <2> DEFINE low == Min({a.min, b.min})
             high == Max({a.max, b.max})
             med == Weighted(a.med, wa, b.med, wb)
  <2>3. Merge(a, wa, b, wb) = [min |-> low, max |-> high, med |-> med]
    BY <2>2 DEF Merge
  <2>4. a.min \in Int /\ a.max \in Int /\ b.min \in Int /\ b.max \in Int
    BY <2>1 DEF StoredEnvelope
  <2>5. /\ low \in Int /\ high \in Int /\ low <= a.min /\ low <= b.min
        /\ a.max <= high /\ b.max <= high
        /\ low = a.min \/ low = b.min
        /\ high = a.max \/ high = b.max
    <3>1. low = IF a.min <= b.min THEN a.min ELSE b.min
      BY <2>4, MinMaxTwo
    <3>2. high = IF a.max <= b.max THEN b.max ELSE a.max
      BY <2>4, MinMaxTwo
    <3> HIDE DEF low, high
    <3> QED BY <2>4, <3>1, <3>2
  <2>6. a.min <= a.max
    BY <2>1 DEF EnvelopeOK
  <2>7. med = <<a.med[1] * wa * b.med[2] + b.med[1] * wb * a.med[2],
                a.med[2] * b.med[2] * (wa + wb)>>
    BY DEF Weighted
  <2> HIDE DEF low, high, med
  <2>8. /\ a.med[1] \in Int /\ a.med[2] \in Int /\ a.med[2] > 0
        /\ low * a.med[2] <= a.med[1] /\ a.med[1] <= high * a.med[2]
        /\ b.med[1] \in Int /\ b.med[2] \in Int /\ b.med[2] > 0
        /\ low * b.med[2] <= b.med[1] /\ b.med[1] <= high * b.med[2]
    BY <2>1, <2>5, EnvelopeWithin
  <2>9. /\ med[2] > 0 /\ med[1] \in Int /\ med[2] \in Int
        /\ low * med[2] <= med[1] /\ med[1] <= high * med[2]
    <3>1. wa \in Int /\ wb \in Int /\ wa > 0 /\ wb > 0
      BY <1>3
    <3>2. PICK p1 \in Int, p2 \in Int, q1 \in Int, q2 \in Int :
            /\ p1 = a.med[1] /\ p2 = a.med[2] /\ q1 = b.med[1] /\ q2 = b.med[2]
      BY <2>8
    <3>3. PICK n \in Int, d \in Int :
            n = p1 * wa * q2 + q1 * wb * p2 /\ d = p2 * q2 * (wa + wb)
      <4>1. p1 * wa * q2 + q1 * wb * p2 \in Int
        BY <3>1, <3>2
      <4>2. p2 * q2 * (wa + wb) \in Int
        BY <3>1, <3>2
      <4> QED BY <4>1, <4>2, Zenon
    <3>4. med = <<n, d>>
      BY <2>7, <3>2, <3>3
    <3>5. PICK l \in Int, h \in Int : l = low /\ h = high
      BY <2>5
    <3>6. d > 0 /\ l * d <= n /\ n <= h * d
      <4>1. /\ p2 > 0 /\ q2 > 0 /\ l * p2 <= p1 /\ l * q2 <= q1
            /\ p1 <= h * p2 /\ q1 <= h * q2
        BY <2>8, <3>2, <3>5
      <4> QED BY <3>1, <3>3, <4>1, WeightedBetween
    <3> QED BY <3>3, <3>4, <3>5, <3>6
  <2>10. EnvelopeOK([min |-> low, max |-> high, med |-> med])
    <3>1. low <= high
      BY <2>4, <2>5, <2>6
    <3> QED BY <2>5, <2>9, <3>1 DEF EnvelopeOK, AtMost
  <2>11. [min |-> low, max |-> high, med |-> med] \in StoredEnvelope
    <3>1. med \in Int \X Int
      BY <2>7, <2>9
    <3> QED BY <2>5, <3>1 DEF StoredEnvelope
  <2>12. Extremes(low, high, A \union B)
    <3>1. \A r \in A \union B : r.e.min \in Int /\ r.e.max \in Int
      BY Rollups DEF Some, RollupOK
    <3>2. /\ \A r \in A : a.min <= r.e.min /\ r.e.max <= a.max
          /\ \A r \in B : b.min <= r.e.min /\ r.e.max <= b.max
      BY <2>1 DEF Extremes
    <3>3. \A r \in A \union B : low <= r.e.min /\ r.e.max <= high
      BY <2>4, <2>5, <3>1, <3>2
    <3>4. \E r \in A \union B : r.e.min = low
      BY <2>1, <2>5 DEF Extremes
    <3>5. \E r \in A \union B : r.e.max = high
      BY <2>1, <2>5 DEF Extremes
    <3> QED BY <3>3, <3>4, <3>5 DEF Extremes
  <2> QED BY <1>3, <2>3, <2>10, <2>11, <2>12 DEF Summarises
<1> QED BY <1>1, <1>2, <1>3

\* Weighted by the counts, the medians stay balanced.
LEMMA MergeBalanced ==
  ASSUME NEW A, Some(A), NEW B, Some(B), A \intersect B = {},
         NEW a, Summarises(a, A), Balanced(a, A), NEW b, Summarises(b, B), Balanced(b, B)
  PROVE Balanced(Merge(a, Count(A), b, Count(B)), A \union B)
<1>1. CASE A = {}
  <2>1. a = NoData /\ A \union B = B
    BY <1>1 DEF Summarises
  <2> QED BY <2>1, Zenon DEF Merge
<1>2. CASE B = {}
  <2>1. b = NoData /\ A \union B = A
    BY <1>2 DEF Summarises
  <2> QED BY <2>1, Zenon DEF Merge
<1>3. CASE A # {} /\ B # {}
  <2>1. a \in StoredEnvelope /\ b \in StoredEnvelope
    BY <1>3 DEF Summarises
  <2>2. a # NoData /\ b # NoData
    BY <2>1, NoEnvelope
  <2> DEFINE med == Weighted(a.med, Count(A), b.med, Count(B))
  <2>3. Merge(a, Count(A), b, Count(B)).med = med
    BY <2>2 DEF Merge
  <2>4. PICK n1 \in Int, n2 \in Int, s1 \in Int, s2 \in Int :
          n1 = Count(A) /\ n2 = Count(B) /\ s1 = Weight(A) /\ s2 = Weight(B)
    BY Totals
  <2>5. PICK p1 \in Int, p2 \in Int, q1 \in Int, q2 \in Int :
          /\ p1 = a.med[1] /\ p2 = a.med[2] /\ q1 = b.med[1] /\ q2 = b.med[2]
    BY <2>1 DEF StoredEnvelope
  <2>6. med[1] = p1 * n1 * q2 + q1 * n2 * p2 /\ med[2] = p2 * q2 * (n1 + n2)
    BY <2>4, <2>5 DEF Weighted
  <2>7. p1 * n1 = p2 * s1 /\ q1 * n2 = q2 * s2
    BY <1>3, <2>4, <2>5 DEF Balanced
  <2>8. Count(A \union B) = n1 + n2 /\ Weight(A \union B) = s1 + s2
    BY <2>4, TotalsUnion
  <2>9. med[1] * (n1 + n2) = med[2] * (s1 + s2)
    BY <2>6, <2>7, WeightedTotals
  <2> QED BY <2>3, <2>8, <2>9 DEF Balanced
<1> QED BY <1>1, <1>2, <1>3

Accumulators == [v : StoredEnvelope \union {NoData}, n : Nat]

\* One rollup more.
Accumulated(acc, r) ==
    [v |-> Merge(acc.v, acc.n, Stored(r.e), r.e.n), n |-> acc.n + r.e.n]

\* The type of what a fold of rollups passes on.
LEMMA AccumulatedType ==
  ASSUME NEW acc \in Accumulators, NEW r \in Rollup
  PROVE Accumulated(acc, r) \in Accumulators
<1>1. RollupOK(r)
  BY Rollups
<1> DEFINE a == acc.v
           b == Stored(r.e)
           n == acc.n
           k == r.e.n
<1>2. n \in Nat /\ k \in Nat /\ n + k \in Nat /\ a \in StoredEnvelope \union {NoData}
  BY <1>1 DEF Accumulators, RollupOK
<1>3. b \in StoredEnvelope
  BY <1>1 DEF Stored, StoredEnvelope, RollupOK
<1> HIDE DEF a, b, n, k
<1>4. Merge(a, n, b, k) \in StoredEnvelope \union {NoData}
  <2>1. CASE a = NoData \/ b = NoData
    BY <1>2, <1>3, <2>1 DEF Merge
  <2>2. CASE a # NoData /\ b # NoData
    <3>1. a \in StoredEnvelope
      BY <1>2, <2>2
    <3>2. /\ a.min \in Int /\ a.max \in Int /\ b.min \in Int /\ b.max \in Int
          /\ a.med[1] \in Int /\ a.med[2] \in Int /\ b.med[1] \in Int /\ b.med[2] \in Int
      BY <1>3, <3>1 DEF StoredEnvelope
    <3>3. Min({a.min, b.min}) \in Int /\ Max({a.max, b.max}) \in Int
      <4>1. Min({a.min, b.min}) = IF a.min <= b.min THEN a.min ELSE b.min
        BY <3>2, MinMaxTwo
      <4>2. Max({a.max, b.max}) = IF a.max <= b.max THEN b.max ELSE a.max
        BY <3>2, MinMaxTwo
      <4> QED BY <3>2, <4>1, <4>2
    <3>4. Weighted(a.med, n, b.med, k) \in Int \X Int
      BY <1>2, <3>2 DEF Weighted
    <3> QED BY <2>2, <3>3, <3>4 DEF Merge, StoredEnvelope
  <2> QED BY <2>1, <2>2
<1> QED BY <1>2, <1>4 DEF Accumulated, Accumulators, a, b, n, k

\* What a fold has of some rollups.
Gathers(acc, S) ==
    acc.n = Count(S) /\ Summarises(acc.v, S) /\ Balanced(acc.v, S)

\* It has one more.
LEMMA GathersOne ==
  ASSUME NEW S, Some(S), NEW r \in S, NEW acc, Gathers(acc, S \ {r})
  PROVE Gathers(Accumulated(acc, r), S)
<1> DEFINE A == S \ {r}
           B == {r}
<1>1. r \in Rollup /\ Some(A) /\ Some(B) /\ A \intersect B = {} /\ A \union B = S
  BY FS_Subset, FS_Singleton DEF Some
<1>2. Summarises(Stored(r.e), B) /\ Balanced(Stored(r.e), B) /\ Count(B) = r.e.n
  BY <1>1, StoredOne, TotalsOne
<1>3. acc.n = Count(A) /\ Summarises(acc.v, A) /\ Balanced(acc.v, A)
  BY DEF Gathers
<1>4. PICK a, b, C, D : a = acc.v /\ b = Stored(r.e) /\ C = A /\ D = B
  OBVIOUS
<1>5. /\ Some(C) /\ Some(D) /\ C \intersect D = {} /\ C \union D = S
      /\ Summarises(a, C) /\ Balanced(a, C) /\ Summarises(b, D) /\ Balanced(b, D)
  BY <1>1, <1>2, <1>3, <1>4
<1>6. /\ Count(C) \in Nat /\ Count(D) \in Nat
      /\ C # {} => Count(C) > 0
      /\ D # {} => Count(D) > 0
  BY <1>5, Totals
<1>7. Summarises(Merge(a, Count(C), b, Count(D)), C \union D)
  BY <1>5, <1>6, MergeSummary
<1>8. Balanced(Merge(a, Count(C), b, Count(D)), C \union D)
  BY <1>5, MergeBalanced
<1>9. Count(C \union D) = Count(C) + Count(D)
  BY <1>5, TotalsUnion
<1>10. acc.n = Count(C) /\ r.e.n = Count(D)
  BY <1>2, <1>3, <1>4
<1>11. Accumulated(acc, r) = [v |-> Merge(a, Count(C), b, Count(D)),
                              n |-> Count(C) + Count(D)]
  BY <1>4, <1>10, Zenon DEF Accumulated
<1> HIDE DEF A, B
<1> QED BY <1>5, <1>7, <1>8, <1>9, <1>11 DEF Gathers

\* f folds the subsets of S into accumulators.
Gathering(f, S) ==
    f = [V \in SUBSET S |-> IF V = {} THEN [v |-> NoData, n |-> 0]
                            ELSE Accumulated(f[V \ {Pick(V)}], Pick(V))]

\* Folded is such a function's value.
LEMMA FoldedChosen == \A S : Folded(S) = (CHOOSE f : Gathering(f, S))[S]
BY Zenon DEF Folded, FoldSet, MapThenFoldSet, Pick, Gathering, Accumulated

\* There is such a function for rollups.
LEMMA GatheringExists ==
  ASSUME NEW S, Some(S)
  PROVE \E f : Gathering(f, S)
<1> DEFINE base == [v |-> NoData, n |-> 0]
           step == [r \in S |-> [acc \in Accumulators |-> Accumulated(acc, r)]]
<1>1. base \in Accumulators
  BY DEF Accumulators
<1>2. step \in [S -> [Accumulators -> Accumulators]]
  BY AccumulatedType DEF Some
<1>3. PICK f \in [SUBSET S -> Accumulators] : Recurses(f, SUBSET S, base, step)
  <2> HIDE DEF base, step
  <2> QED BY <1>1, <1>2, SetRecursion DEF Some
<1>4. ASSUME NEW V \in SUBSET S
      PROVE f[V] = IF V = {} THEN base ELSE Accumulated(f[V \ {Pick(V)}], Pick(V))
  <2>1. f[V] = IF V = {} THEN base ELSE step[Pick(V)][f[V \ {Pick(V)}]]
    BY <1>3 DEF Recurses
  <2>2. V # {} => Pick(V) \in S /\ f[V \ {Pick(V)}] \in Accumulators
    BY PickIn
  <2> QED BY <2>1, <2>2
<1>5. f = [V \in SUBSET S |-> f[V]]
  OBVIOUS
<1>6. Gathering(f, S)
  BY <1>4, <1>5, Zenon DEF Gathering
<1> QED BY <1>6

\* Folded returns the count of the rollups, their envelope and their weighted mean.
LEMMA FoldedGathers ==
  ASSUME NEW S, Some(S)
  PROVE Gathers(Folded(S), S)
<1>1. PICK f : f = CHOOSE g : Gathering(g, S)
  OBVIOUS
<1>2. Gathering(f, S) /\ Folded(S) = f[S]
  BY <1>1, GatheringExists, FoldedChosen
<1> DEFINE T == {V \in SUBSET S : Gathers(f[V], V)}
<1>3. \A V \in SUBSET S :
        f[V] = IF V = {} THEN [v |-> NoData, n |-> 0]
               ELSE Accumulated(f[V \ {Pick(V)}], Pick(V))
  BY <1>2 DEF Gathering
<1>4. \A V \in SUBSET S : Some(V)
  BY FS_Subset DEF Some
<1>5. {} \in T
  <2>1. f[{}] = [v |-> NoData, n |-> 0]
    BY <1>3
  <2>2. Count({}) = 0
    BY <1>4, Totals
  <2> QED BY <2>1, <2>2 DEF Gathers, Summarises, Balanced
<1>6. Grows(T, S)
  <2> SUFFICES ASSUME NEW V \in SUBSET S, V # {}, \A x \in V : V \ {x} \in T
               PROVE Gathers(f[V], V)
    BY DEF Grows
  <2>1. PICK r \in V : r = Pick(V)
    BY PickIn
  <2>2. PICK acc : acc = f[V \ {r}]
    OBVIOUS
  <2>3. Gathers(acc, V \ {r})
    BY <2>2
  <2>4. f[V] = Accumulated(acc, r)
    BY <1>3, <2>1, <2>2
  <2> QED BY <1>4, <2>3, <2>4, GathersOne
<1>7. SUBSET S \subseteq T
  <2> HIDE DEF T
  <2> QED BY <1>5, <1>6, SubsetInduction DEF Some
<1> QED BY <1>2, <1>7

-----------------------------------------------------------------------------
(* Rows. *)

\* What the members of a finite set are mapped to is finite.
LEMMA FiniteImage ==
  ASSUME NEW S, IsFiniteSet(S), NEW Y, NEW f \in [S -> Y]
  PROVE IsFiniteSet({f[x] : x \in S})
<1> DEFINE T == {f[x] : x \in S}
<1>1. f \in Surjection(S, T)
  BY DEF Surjection
<1> HIDE DEF T
<1>2. IsFiniteSet(T)
  BY <1>1, FS_Surjection
<1> QED BY <1>2 DEF T

\* A finite set of numbers that is not empty has a least and a greatest.
LEMMA FiniteBounds ==
  ASSUME NEW S \in SUBSET Int, IsFiniteSet(S), S # {}
  PROVE /\ Min(S) \in S /\ \A y \in S : Min(S) <= y
        /\ Max(S) \in S /\ \A y \in S : y <= Max(S)
<1> DEFINE T == {V \in SUBSET S : V # {} => /\ \E x \in V : \A y \in V : x <= y
                                            /\ \E x \in V : \A y \in V : y <= x}
<1>1. {} \in T
  OBVIOUS
<1>2. Grows(T, S)
  <2> SUFFICES ASSUME NEW V \in SUBSET S, V # {}, \A x \in V : V \ {x} \in T
               PROVE /\ \E x \in V : \A y \in V : x <= y
                     /\ \E x \in V : \A y \in V : y <= x
    BY DEF Grows
  <2>1. PICK r \in V : TRUE
    OBVIOUS
  <2>2. V \ {r} \in T
    BY <2>1
  <2>3. CASE V \ {r} = {}
    <3>1. V = {r} /\ r \in Int
      BY <2>1, <2>3
    <3> QED BY <3>1
  <2>4. CASE V \ {r} # {}
    <3>1. PICK x \in V \ {r} : \A y \in V \ {r} : x <= y
      BY <2>2, <2>4
    <3>2. PICK z \in V \ {r} : \A y \in V \ {r} : y <= z
      BY <2>2, <2>4
    <3>3. \E l \in V : \A y \in V : l <= y
      <4>1. CASE x <= r
        BY <3>1, <4>1
      <4>2. CASE r < x
        BY <3>1, <4>2
      <4> QED BY <4>1, <4>2
    <3>4. \E l \in V : \A y \in V : y <= l
      <4>1. CASE r <= z
        BY <3>2, <4>1
      <4>2. CASE z < r
        BY <3>2, <4>2
      <4> QED BY <4>1, <4>2
    <3> QED BY <3>3, <3>4
  <2> QED BY <2>3, <2>4
<1>3. SUBSET S \subseteq T
  <2> HIDE DEF T
  <2> QED BY <1>1, <1>2, SubsetInduction
<1>4. \E x \in S : \A y \in S : x <= y
  BY <1>3
<1>5. \E x \in S : \A y \in S : x >= y
  <2>1. PICK x \in S : \A y \in S : y <= x
    BY <1>3
  <2> QED BY <2>1
<1>6. Min(S) \in S /\ \A y \in S : Min(S) <= y
  BY <1>4 DEF Min
<1>7. Max(S) \in S /\ \A y \in S : Max(S) >= y
  BY <1>5 DEF Max
<1> QED BY <1>6, <1>7

\* row is the wide row of the rollups of its name and bucket.
RowOf(row, here) ==
    /\ row.samples \in Nat \ {0}
    /\ \A m \in Metrics : Summarises(row.env[m], OfMetric(here, m))
    /\ Even(here) => \A m \in Metrics : /\ row.samples = Count(OfMetric(here, m))
                                        /\ Balanced(row.env[m], OfMetric(here, m))

\* The rollups of a metric.
LEMMA SomeOfMetric ==
  ASSUME NEW S, Some(S), NEW m
  PROVE Some(OfMetric(S, m))
BY FS_Subset DEF Some, OfMetric

\* Rollups of one batch: a container has one to a metric.
Batch(S) == \A r, q \in S : r.id = q.id /\ r.metric = q.metric => r = q

\* Within a batch that covers a bucket evenly, every metric has the same count.
LEMMA EvenCounts ==
  ASSUME NEW here, Some(here), Batch(here), Even(here), NEW m \in Metrics, NEW k \in Metrics
  PROVE Count(OfMetric(here, m)) = Count(OfMetric(here, k))
<1>1. Some(OfMetric(here, m)) /\ Some(OfMetric(here, k))
  BY SomeOfMetric
<1>2. Summable(OfMetric(here, m), SamplesOf) /\ Summable(OfMetric(here, k), SamplesOf)
  BY <1>1, SomeSummable
<1>3. \A j \in Metrics : Keyed(OfMetric(here, j))
  BY DEF Keyed, Batch, OfMetric
<1>4. ASSUME NEW i \in Metrics, NEW j \in Metrics
      PROVE Matches(OfMetric(here, i), OfMetric(here, j), SamplesOf)
  <2> SUFFICES ASSUME NEW r \in OfMetric(here, i)
               PROVE \E q \in OfMetric(here, j) :
                       q.id = r.id /\ SamplesOf[q] = SamplesOf[r]
    BY DEF Matches
  <2>1. PICK q \in here : q.metric = j /\ q.id = r.id /\ q.e.n = r.e.n
    BY DEF Even, OfMetric
  <2>2. q \in Rollup /\ r \in Rollup
    BY DEF Some, OfMetric
  <2> QED BY <2>1, <2>2 DEF OfMetric, SamplesOf
<1> QED BY <1>2, <1>3, <1>4, TotalMatch DEF Count

\* pivot_trends makes such rows.
LEMMA PivotRow ==
  ASSUME NEW batch, Some(batch), Batch(batch), NEW b \in {r.bucket : r \in batch}
  PROVE RowOf(PivotTrends(batch)[b], {r \in batch : r.bucket = b})
<1> DEFINE here == {r \in batch : r.bucket = b}
           counts == {Folded(OfMetric(here, m)).n : m \in Metrics}
           row == [samples |-> Max(counts),
                   env |-> [m \in Metrics |-> Folded(OfMetric(here, m)).v]]
<1>1. PivotTrends(batch)[b] = row
  BY Zenon DEF PivotTrends
<1>2. Some(here) /\ Batch(here)
  BY FS_Subset DEF Some, Batch
<1>3. PICK r0 \in here : r0 \in Rollup /\ r0.metric \in Metrics
  BY DEF Some, Rollup
<1> HIDE DEF here
<1>4. ASSUME NEW m \in Metrics
      PROVE /\ Gathers(Folded(OfMetric(here, m)), OfMetric(here, m))
            /\ Folded(OfMetric(here, m)).n \in Nat
            /\ OfMetric(here, m) # {} => Folded(OfMetric(here, m)).n > 0
  <2>1. Some(OfMetric(here, m))
    BY <1>2, SomeOfMetric
  <2>2. Gathers(Folded(OfMetric(here, m)), OfMetric(here, m))
    BY <2>1, FoldedGathers
  <2> QED BY <2>1, <2>2, Totals DEF Gathers
<1>5. /\ Max(counts) \in counts /\ \A n \in counts : n <= Max(counts)
      /\ counts \in SUBSET Nat
  <2> DEFINE f == [m \in Metrics |-> Folded(OfMetric(here, m)).n]
  <2>1. f \in [Metrics -> Nat]
    BY <1>4
  <2>2. counts = {f[m] : m \in Metrics}
    OBVIOUS
  <2>3. IsFiniteSet({f[m] : m \in Metrics})
    <3> HIDE DEF f
    <3> QED BY <2>1, StoreAssumption, FiniteImage
  <2>4. counts \in SUBSET Nat /\ counts # {}
    BY <1>3, <1>4
  <2> HIDE DEF counts, f
  <2>5. counts \in SUBSET Int /\ IsFiniteSet(counts)
    <3>1. counts \in SUBSET Int
      BY <2>4
    <3>2. IsFiniteSet(counts)
      BY <2>2, <2>3, Zenon
    <3> QED BY <3>1, <3>2
  <2> QED BY <2>4, <2>5, FiniteBounds
<1>6. row.samples \in Nat \ {0}
  <2>1. Folded(OfMetric(here, r0.metric)).n > 0
    BY <1>3, <1>4 DEF OfMetric
  <2>2. Folded(OfMetric(here, r0.metric)).n \in counts
    BY <1>3
  <2>3. Max(counts) \in Nat /\ Folded(OfMetric(here, r0.metric)).n <= Max(counts)
        /\ Folded(OfMetric(here, r0.metric)).n \in Nat
    <3> HIDE DEF counts
    <3> QED BY <1>5, <2>2
  <2> HIDE DEF counts
  <2> QED BY <2>1, <2>3
<1>7. \A m \in Metrics : Summarises(row.env[m], OfMetric(here, m))
                         /\ Balanced(row.env[m], OfMetric(here, m))
  BY <1>4 DEF Gathers
<1>8. ASSUME Even(here), NEW m \in Metrics
      PROVE row.samples = Count(OfMetric(here, m))
  <2>1. \A k \in Metrics : Folded(OfMetric(here, k)).n = Count(OfMetric(here, m))
    BY <1>2, <1>4, <1>8, EvenCounts DEF Gathers
  <2> QED BY <1>5, <2>1
<1> HIDE DEF row
<1> QED BY <1>1, <1>6, <1>7, <1>8 DEF RowOf, here

\* Rollups of different flushes.
Apart(A, B) == \A r \in A, q \in B : r.flush # q.flush

\* The upsert makes such a row of two.
LEMMA UpsertedRow ==
  ASSUME NEW A, Some(A), NEW B, Some(B), Apart(A, B),
         NEW row, RowOf(row, A), NEW new, RowOf(new, B)
  PROVE RowOf(Upserted(row, new), A \union B)
<1> DEFINE put == Upserted(row, new)
<1>1. /\ put.samples = row.samples + new.samples
      /\ \A m \in Metrics :
           put.env[m] = Merge(row.env[m], row.samples, new.env[m], new.samples)
  BY Zenon DEF Upserted
<1>2. /\ row.samples \in Nat /\ row.samples > 0
      /\ new.samples \in Nat /\ new.samples > 0
  BY DEF RowOf
<1>3. put.samples \in Nat \ {0}
  BY <1>1, <1>2
<1>4. \A m \in Metrics : /\ Some(OfMetric(A, m)) /\ Some(OfMetric(B, m))
                         /\ OfMetric(A, m) \intersect OfMetric(B, m) = {}
                         /\ OfMetric(A \union B, m) = OfMetric(A, m) \union OfMetric(B, m)
  <2> SUFFICES ASSUME NEW m \in Metrics
               PROVE /\ Some(OfMetric(A, m)) /\ Some(OfMetric(B, m))
                     /\ OfMetric(A, m) \intersect OfMetric(B, m) = {}
                     /\ OfMetric(A \union B, m) = OfMetric(A, m) \union OfMetric(B, m)
    OBVIOUS
  <2>1. Some(OfMetric(A, m)) /\ Some(OfMetric(B, m))
    BY SomeOfMetric
  <2>2. OfMetric(A, m) \intersect OfMetric(B, m) = {}
    BY DEF OfMetric, Apart
  <2>3. OfMetric(A \union B, m) = OfMetric(A, m) \union OfMetric(B, m)
    BY DEF OfMetric
  <2> QED BY <2>1, <2>2, <2>3
<1>5. ASSUME NEW m \in Metrics PROVE Summarises(put.env[m], OfMetric(A \union B, m))
  <2>1. PICK a, b, C, D : /\ a = row.env[m] /\ b = new.env[m]
                          /\ C = OfMetric(A, m) /\ D = OfMetric(B, m)
    OBVIOUS
  <2>2. Some(C) /\ Some(D) /\ Summarises(a, C) /\ Summarises(b, D)
    BY <1>4, <2>1 DEF RowOf
  <2>3. PICK j \in Nat, k \in Nat : /\ j = row.samples /\ k = new.samples
                                    /\ j > 0 /\ k > 0
    BY <1>2
  <2>4. Summarises(Merge(a, j, b, k), C \union D)
    BY <2>2, <2>3, MergeSummary
  <2>5. put.env[m] = Merge(a, j, b, k) /\ OfMetric(A \union B, m) = C \union D
    BY <1>1, <1>4, <2>1, <2>3
  <2> HIDE DEF put
  <2> QED BY <2>4, <2>5
<1>6. ASSUME Even(A \union B), NEW m \in Metrics
      PROVE /\ put.samples = Count(OfMetric(A \union B, m))
            /\ Balanced(put.env[m], OfMetric(A \union B, m))
  <2>1. Even(A)
    BY <1>6 DEF Even, Apart
  <2>2. Even(B)
    BY <1>6 DEF Even, Apart
  <2>3. PICK a, b, C, D : /\ a = row.env[m] /\ b = new.env[m]
                          /\ C = OfMetric(A, m) /\ D = OfMetric(B, m)
    OBVIOUS
  <2>4. /\ Some(C) /\ Some(D) /\ C \intersect D = {}
        /\ OfMetric(A \union B, m) = C \union D
    BY <1>4, <1>6, <2>3
  <2>5. /\ Summarises(a, C) /\ Summarises(b, D) /\ Balanced(a, C) /\ Balanced(b, D)
        /\ row.samples = Count(C) /\ new.samples = Count(D)
    BY <1>6, <2>1, <2>2, <2>3 DEF RowOf
  <2>6. Balanced(Merge(a, Count(C), b, Count(D)), C \union D)
    BY <2>4, <2>5, MergeBalanced
  <2>7. Count(C \union D) = Count(C) + Count(D)
    BY <2>4, TotalsUnion
  <2>8. put.samples = Count(C) + Count(D) /\ put.env[m] = Merge(a, Count(C), b, Count(D))
    BY <1>1, <1>6, <2>3, <2>5
  <2> HIDE DEF put
  <2> QED BY <2>4, <2>6, <2>7, <2>8
<1> HIDE DEF put
<1>7. RowOf(put, A \union B)
  BY <1>3, <1>5, <1>6 DEF RowOf
<1> QED BY <1>7 DEF put

\* LEGACY_PIVOT_SQL makes such rows.
LEMMA LegacyRow ==
  ASSUME NEW rows, Some(rows), \A r \in rows : r.flush = 0,
         NEW b \in {r.bucket : r \in rows}
  PROVE RowOf(LegacyPivot(rows)[b], {r \in rows : r.bucket = b})
<1> DEFINE here == {r \in rows : r.bucket = b}
           counts == {r.e.n : r \in here}
           row == [samples |-> Max(counts),
                   env |-> [m \in Metrics |-> Folded(OfMetric(here, m)).v]]
<1>1. LegacyPivot(rows)[b] = row
  BY Zenon DEF LegacyPivot
<1>2. Some(here) /\ \A r \in here : r.flush = 0
  BY FS_Subset DEF Some
<1>3. here # {}
  OBVIOUS
<1> HIDE DEF here
<1>4. \A r \in here : r.e.n \in Nat /\ r.e.n > 0
  BY <1>2, Rollups DEF Some, RollupOK
<1>5. Max(counts) \in counts /\ counts \in SUBSET Nat
  <2> DEFINE f == [r \in here |-> r.e.n]
  <2>1. f \in [here -> Nat]
    BY <1>4
  <2>2. counts = {f[r] : r \in here}
    OBVIOUS
  <2>3. IsFiniteSet({f[r] : r \in here})
    <3> HIDE DEF f
    <3> QED BY <1>2, <2>1, FiniteImage DEF Some
  <2>4. counts \in SUBSET Nat /\ counts # {}
    BY <1>3, <1>4
  <2> HIDE DEF counts, f
  <2>5. counts \in SUBSET Int /\ IsFiniteSet(counts)
    <3>1. counts \in SUBSET Int
      BY <2>4
    <3>2. IsFiniteSet(counts)
      BY <2>2, <2>3, Zenon
    <3> QED BY <3>1, <3>2
  <2> QED BY <2>4, <2>5, FiniteBounds
<1>6. row.samples \in Nat \ {0}
  BY <1>4, <1>5
<1>7. ASSUME NEW m \in Metrics
      PROVE /\ Summarises(row.env[m], OfMetric(here, m))
            /\ Balanced(row.env[m], OfMetric(here, m))
  <2>1. Gathers(Folded(OfMetric(here, m)), OfMetric(here, m))
    BY <1>2, SomeOfMetric, FoldedGathers
  <2>2. row.env[m] = Folded(OfMetric(here, m)).v
    OBVIOUS
  <2> HIDE DEF row
  <2> QED BY <2>1, <2>2 DEF Gathers
<1>8. ASSUME Even(here), NEW m \in Metrics
      PROVE row.samples = Count(OfMetric(here, m))
  <2>1. PICK p \in here : TRUE
    BY <1>3
  <2>2. PICK q \in here : q.metric = m /\ q.e.n = p.e.n
    BY <1>8, <2>1 DEF Even
  <2>3. OfMetric(here, m) = {q}
    BY <1>2, <1>8, <2>2 DEF Even, OfMetric
  <2>4. \A r \in here : r.e.n = q.e.n
    <3> SUFFICES ASSUME NEW r \in here PROVE r.e.n = q.e.n
      OBVIOUS
    <3>1. PICK t \in here : t.metric = m /\ t.e.n = r.e.n
      BY <1>8 DEF Even
    <3>2. t \in OfMetric(here, m)
      BY <3>1 DEF OfMetric
    <3> QED BY <2>3, <3>1, <3>2
  <2>5. Max(counts) = q.e.n
    BY <1>5, <2>4
  <2>6. Count({q}) = q.e.n
    BY <1>2, TotalsOne DEF Some
  <2> QED BY <2>3, <2>5, <2>6
<1> HIDE DEF row
<1> QED BY <1>1, <1>6, <1>7, <1>8 DEF RowOf, here

\* What the merges of one flush are given: rollups of the next flush, of one
\* bucket, one to a container and metric.
LEMMA BatchFacts ==
  ASSUME writes \in Nat, NEW b \in Buckets, NEW batch \in Batches(b)
  PROVE Some(batch) /\ Batch(batch) /\ \A r \in batch : r.flush = writes + 1
<1> DEFINE All == [flush : {writes + 1}, id : Ids, bucket : {b}, metric : Metrics,
                   e : Envelopes]
<1>1. PICK cover \in [Ids -> Covers] :
        batch = {r \in All : r.e = cover[r.id][r.metric]}
  BY DEF Batches
<1>2. batch \subseteq Rollup
  BY <1>1 DEF Rollup
<1>3. \A r \in batch : r.flush = writes + 1
  BY <1>1
<1>4. Batch(batch)
  <2> SUFFICES ASSUME NEW r \in batch, NEW q \in batch, r.id = q.id, r.metric = q.metric
               PROVE r = q
    BY DEF Batch
  <2>1. r \in All /\ q \in All /\ r.e = q.e
    BY <1>1
  <2> QED BY <2>1
<1>5. IsFiniteSet(batch)
  <2> DEFINE Pairs == Ids \X Metrics
             f == [p \in Pairs |-> [flush |-> writes + 1, id |-> p[1], bucket |-> b,
                                    metric |-> p[2], e |-> cover[p[1]][p[2]]]]
             image == {f[p] : p \in Pairs}
  <2>1. IsFiniteSet(Pairs)
    BY StoreAssumption, FS_Product
  <2>2. IsFiniteSet(image)
    <3>1. PICK g, P, Y : g = f /\ P = Pairs /\ Y = image
      OBVIOUS
    <3>2. g \in [P -> Y] /\ IsFiniteSet(P)
      BY <2>1, <3>1
    <3>3. IsFiniteSet({g[p] : p \in P})
      BY <3>2, FiniteImage
    <3>4. image = {g[p] : p \in P}
      BY <3>1, Zenon
    <3> HIDE DEF image
    <3> QED BY <3>3, <3>4
  <2>3. batch \subseteq image
    <3> SUFFICES ASSUME NEW r \in batch PROVE r \in image
      OBVIOUS
    <3>1. r \in All /\ r.e = cover[r.id][r.metric]
      BY <1>1
    <3>2. <<r.id, r.metric>> \in Pairs
      BY <3>1
    <3>3. f[<<r.id, r.metric>>] = r
      BY <3>1, <3>2
    <3> HIDE DEF f
    <3> QED BY <3>2, <3>3
  <2> HIDE DEF image
  <2> QED BY <2>2, <2>3, FS_Subset
<1> QED BY <1>2, <1>3, <1>4, <1>5 DEF Some

\* The chunks of the migration leave no row out.
LEMMA MigratedAll ==
  ASSUME Some(legacy), legacy # {}
  PROVE Migrated = LegacyPivot(legacy)
<1> DEFINE starts == {r.bucket : r \in legacy}
           first == Min(starts)
           last == Max(starts)
           migrated == UNION {{r \in legacy : from <= r.bucket /\ r.bucket < from + Chunk} :
                                 from \in Chunks(first, last)}
<1>1. \A r \in legacy : r.bucket \in Nat
  BY StoreAssumption DEF Some, Rollup
<1>2. /\ first \in Nat /\ last \in Nat
      /\ \A r \in legacy : first <= r.bucket /\ r.bucket <= last
  <2> DEFINE f == [r \in legacy |-> r.bucket]
  <2>1. f \in [legacy -> Nat]
    BY <1>1
  <2>2. starts = {f[r] : r \in legacy}
    OBVIOUS
  <2>3. IsFiniteSet({f[r] : r \in legacy})
    <3> HIDE DEF f
    <3> QED BY <2>1, FiniteImage DEF Some
  <2>4. starts \in SUBSET Nat /\ starts # {} /\ \A r \in legacy : r.bucket \in starts
    BY <1>1
  <2> HIDE DEF starts, f
  <2>5. starts \in SUBSET Int /\ IsFiniteSet(starts)
    <3>1. starts \in SUBSET Int
      BY <2>4
    <3>2. IsFiniteSet(starts)
      BY <2>2, <2>3, Zenon
    <3> QED BY <3>1, <3>2
  <2> QED BY <2>4, <2>5, FiniteBounds
<1> HIDE DEF first, last
<1>3. migrated = legacy
  <2> SUFFICES ASSUME NEW r \in legacy
               PROVE \E from \in Chunks(first, last) :
                       from <= r.bucket /\ r.bucket < from + Chunk
    OBVIOUS
  <2>1. PICK c \in Nat : c = Chunk /\ c > 0
    BY StoreAssumption
  <2>2. PICK k \in Nat, f \in Nat, l \in Nat :
          k = r.bucket /\ f = first /\ l = last /\ f <= k /\ k <= l
    BY <1>1, <1>2
  <2> DEFINE T == {j \in Nat : k < f + (j + 1) * c}
  <2>3. k - f \in T
    <3>1. PICK d \in Nat : d = k - f
      BY <2>2
    <3>2. (d + 1) * 1 <= (d + 1) * c
      <4>1. 1 * (d + 1) <= c * (d + 1)
        <5>1. 1 \in Int /\ c \in Int /\ d + 1 \in Int /\ 1 <= c /\ d + 1 >= 0
          BY <2>1
        <5> QED BY <5>1, TimesMono
      <4> QED BY <4>1
    <3>3. (d + 1) * c \in Int
      OBVIOUS
    <3> QED BY <3>1, <3>2, <3>3
  <2>4. PICK j \in T : \A i \in T : j <= i
    <3>1. T \in SUBSET Nat /\ T # {}
      BY <2>3
    <3> HIDE DEF T
    <3> QED BY <3>1, LeastNat
  <2>5. j \in Nat /\ k < f + (j + 1) * c /\ j * c \in Nat /\ (j + 1) * c = j * c + c
    BY <2>4
  <2>6. f + j * c <= k
    <3>1. CASE j = 0
      BY <2>2, <3>1
    <3>2. CASE j # 0
      <4>1. j - 1 \in Nat /\ j - 1 \notin T
        BY <2>4, <2>5, <3>2
      <4> QED BY <4>1, <2>5
    <3> QED BY <3>1, <3>2
  <2>7. j <= l - f
    <3>1. 1 * j <= c * j
      <4>1. 1 \in Int /\ c \in Int /\ j \in Int /\ 1 <= c /\ j >= 0
        BY <2>1, <2>5
      <4> QED BY <4>1, TimesMono
    <3>2. j <= j * c
      BY <2>5, <3>1
    <3> QED BY <2>2, <2>5, <2>6, <3>2
  <2>8. first + j * Chunk \in Chunks(first, last)
    <3>1. j \in 0 .. last - first /\ first + j * Chunk <= last
      BY <2>1, <2>2, <2>5, <2>6, <2>7
    <3> QED BY <3>1 DEF Chunks
  <2>9. first + j * Chunk <= r.bucket /\ r.bucket < first + j * Chunk + Chunk
    BY <2>1, <2>2, <2>5, <2>6
  <2> QED BY <2>8, <2>9
<1>4. Migrated = LegacyPivot(migrated)
  BY DEF Migrated, first, last
<1> HIDE DEF migrated
<1> QED BY <1>3, <1>4

-----------------------------------------------------------------------------
(* The inductive invariant. *)

\* How far an open has come tells what of the schema is there.
PathOK ==
    /\ schema \in Schema
    /\ pc \in {"tables", "trend", "columns", "migrate", "indexes", "open", "down"}
    /\ pc \in {"trend", "columns", "migrate", "indexes", "open"} => schema.samples
    /\ pc \in {"columns", "migrate", "indexes", "open"} => schema.layout # "none"
    /\ pc \in {"migrate", "indexes", "open"} => schema.columns = Range(Columns)
    /\ pc \in {"indexes", "open"} => schema.layout = "wide"
    /\ pc = "open" => schema.indexed

At(b) == {r \in given : r.bucket = b}

\* The file holds every rollup ever stored: as it was, before the migration, and
\* in the row of its bucket after it.
RowsOK ==
    /\ writes \in Nat
    /\ Some(given) /\ \A r \in given : r.flush <= writes
    /\ schema.layout = "none" => given = {}
    /\ schema.layout # "wide" => /\ trend = << >> /\ legacy = given
                                 /\ \A r \in given : r.flush = 0
    /\ schema.layout = "wide" => /\ legacy = {}
                                 /\ DOMAIN trend = {r.bucket : r \in given}
                                 /\ \A b \in DOMAIN trend : RowOf(trend[b], At(b))

RawOK == raw \subseteq [ts : Buckets, id : Ids, cpu : Readings \union {NoData}]

StoreInv == PathOK /\ RowsOK /\ RawOK

\* It holds of every file of an earlier build.
LEMMA InvInit == Init => StoreInv
<1> SUFFICES ASSUME Init PROVE StoreInv
  OBVIOUS
<1>1. schema \in Schema
  BY FilesAssumption DEF Init
<1>2. PathOK
  BY <1>1 DEF PathOK, Init
<1>3. Some(given) /\ (\A r \in given : r.flush = 0)
      /\ (schema.layout # "long" => given = {}) /\ legacy = given
  <2>1. CASE schema.layout = "long"
    <3>1. given \in LegacyRows /\ legacy = given
      BY <2>1 DEF Init
    <3> QED BY <2>1, <3>1, FilesAssumption DEF Some
  <2>2. CASE schema.layout # "long"
    <3>1. given = {} /\ legacy = given
      BY <2>2 DEF Init
    <3> QED BY <2>2, <3>1, FS_EmptySet DEF Some
  <2> QED BY <2>1, <2>2
<1>4. RowsOK
  <2>1. trend = << >> /\ DOMAIN trend = {} /\ writes = 0
    BY DEF Init
  <2>2. \A r \in given : r.flush <= writes
    BY <1>3, <2>1
  <2>3. schema.layout = "wide" => given = {} /\ legacy = {}
    BY <1>3
  <2> QED BY <1>3, <2>1, <2>2, <2>3 DEF RowsOK
<1>5. RawOK
  BY DEF Init, RawOK
<1> QED BY <1>2, <1>4, <1>5 DEF StoreInv

\* The rows do not change when nothing they speak of does.
LEMMA RowsKeep ==
  ASSUME RowsOK, UNCHANGED <<trend, legacy, given, writes>>, schema'.layout = schema.layout
  PROVE RowsOK'
<1>1. \A b : At(b)' = At(b)
  BY DEF At
<1> QED BY <1>1 DEF RowsOK

\* CREATE TABLE IF NOT EXISTS keeps the invariant.
LEMMA InvCreateTables == StoreInv /\ CreateTables => StoreInv'
<1> SUFFICES ASSUME StoreInv, CreateTables PROVE StoreInv'
  OBVIOUS
<1>1. schema \in Schema
  BY DEF StoreInv, PathOK
<1>2. schema' \in Schema /\ schema'.samples /\ schema'.layout = schema.layout
  BY <1>1 DEF CreateTables, Schema, ColumnsOf
<1>3. PathOK'
  BY <1>2 DEF PathOK, CreateTables, NextStep
<1>4. RowsOK'
  BY <1>2, RowsKeep DEF CreateTables, StoreInv
<1> QED BY <1>3, <1>4 DEF StoreInv, CreateTables, RawOK

\* The trend table is created where there is none, and then empty.
LEMMA InvCreateTrendTable == StoreInv /\ CreateTrendTable => StoreInv'
<1> SUFFICES ASSUME StoreInv, CreateTrendTable PROVE StoreInv'
  OBVIOUS
<1>1. schema \in Schema /\ schema.samples
  BY DEF StoreInv, PathOK, CreateTrendTable
<1>2. /\ schema' \in Schema /\ schema'.samples = schema.samples
      /\ schema'.layout = IF schema.layout = "none" THEN "wide" ELSE schema.layout
  BY <1>1 DEF CreateTrendTable, Schema, ColumnsOf
<1>3. PathOK'
  BY <1>1, <1>2 DEF PathOK, CreateTrendTable, NextStep
<1>4. RowsOK'
  <2>1. CASE schema.layout # "none"
    BY <1>2, <2>1, RowsKeep DEF CreateTrendTable, StoreInv
  <2>2. CASE schema.layout = "none"
    <3>1. /\ given = {} /\ trend = << >> /\ legacy = {} /\ writes \in Nat /\ Some(given)
      BY <2>2 DEF StoreInv, RowsOK
    <3>2. /\ given' = {} /\ trend' = << >> /\ legacy' = {} /\ writes' \in Nat
          /\ Some(given') /\ schema'.layout = "wide" /\ DOMAIN trend' = {}
      BY <1>2, <2>2, <3>1 DEF CreateTrendTable
    <3> QED BY <3>2 DEF RowsOK
  <2> QED BY <2>1, <2>2
<1> QED BY <1>3, <1>4 DEF StoreInv, CreateTrendTable, RawOK

\* Columns are added until all are there.
LEMMA InvAddColumn == StoreInv /\ AddColumn => StoreInv'
<1> SUFFICES ASSUME StoreInv, AddColumn PROVE StoreInv'
  OBVIOUS
<1> DEFINE missing == {k \in DOMAIN Columns : Columns[k] \notin schema.columns}
<1>1. schema \in Schema /\ schema.samples /\ schema.layout # "none" /\ pc = "columns"
  BY DEF StoreInv, PathOK, AddColumn
<1>2. schema.columns \subseteq Range(Columns)
  BY <1>1 DEF Schema
<1>3. CASE missing = {}
  <2>1. schema' = schema /\ pc' = "migrate"
    BY <1>1, <1>3 DEF AddColumn, NextStep
  <2>2. \A k \in DOMAIN Columns : Columns[k] \in schema.columns
    BY <1>3
  <2>3. schema.columns = Range(Columns)
    <3> HIDE DEF missing
    <3> QED BY <1>2, <2>2, Zenon DEF Range
  <2>4. PathOK'
    BY <1>1, <2>1, <2>3 DEF PathOK
  <2>5. RowsOK'
    BY <2>1, RowsKeep DEF AddColumn, StoreInv
  <2> QED BY <2>4, <2>5 DEF StoreInv, AddColumn, RawOK
<1>4. CASE missing # {}
  <2>1. /\ schema' = [schema EXCEPT !.columns = @ \union {Columns[Min(missing)]}]
        /\ pc' = pc
    BY <1>4 DEF AddColumn
  <2>2. Min(missing) \in missing
    <3>1. DOMAIN Columns = 1 .. 6
      BY DEF Columns
    <3>2. missing \subseteq 1 .. 6 /\ missing \in SUBSET Int
      <4>1. missing \subseteq DOMAIN Columns
        BY Zenon
      <4> HIDE DEF missing
      <4> QED BY <3>1, <4>1
    <3>3. IsFiniteSet(missing)
      <4>1. IsFiniteSet(1 .. 6)
        <5>1. \A n \in Int : IsFiniteSet(1 .. n)
          BY FS_Interval
        <5>2. 6 \in Int
          OBVIOUS
        <5> QED BY <5>1, <5>2, Zenon
      <4> HIDE DEF missing
      <4> QED BY <3>2, <4>1, FS_Subset
    <3> HIDE DEF missing
    <3> QED BY <1>4, <3>2, <3>3, FiniteBounds
  <2>3. Columns[Min(missing)] \in Range(Columns)
    <3>1. Min(missing) \in DOMAIN Columns
      BY <2>2
    <3> HIDE DEF missing
    <3> QED BY <3>1, Zenon DEF Range
  <2> HIDE DEF missing
  <2>4. schema' \in Schema /\ schema'.samples = schema.samples
        /\ schema'.layout = schema.layout
    BY <1>1, <2>1, <2>3 DEF Schema
  <2>5. PathOK'
    BY <1>1, <2>1, <2>4 DEF PathOK
  <2>6. RowsOK'
    BY <2>4, RowsKeep DEF AddColumn, StoreInv
  <2> QED BY <2>5, <2>6 DEF StoreInv, AddColumn, RawOK
<1> QED BY <1>3, <1>4

\* The layout migration puts every rollup into the row of its bucket.
LEMMA InvMigrate == StoreInv /\ MigrateTrendLayout => StoreInv'
<1> SUFFICES ASSUME StoreInv, MigrateTrendLayout PROVE StoreInv'
  OBVIOUS
<1>1. /\ schema \in Schema /\ schema.samples /\ schema.columns = Range(Columns)
      /\ schema.layout # "none" /\ pc = "migrate"
  BY DEF StoreInv, PathOK, MigrateTrendLayout
<1>2. CASE /\ schema.layout = "wide" /\ pc' = NextStep(pc)
           /\ UNCHANGED <<schema, trend, legacy>>
  <2>1. PathOK'
    BY <1>1, <1>2 DEF PathOK, NextStep
  <2>2. RowsOK'
    BY <1>2, RowsKeep DEF MigrateTrendLayout, StoreInv
  <2> QED BY <2>1, <2>2 DEF StoreInv, MigrateTrendLayout, RawOK
<1>3. CASE /\ schema.layout = "long" /\ ColumnsOf("trend") \subseteq schema.columns
           /\ schema' = [schema EXCEPT !.layout = "wide", !.indexed = FALSE]
           /\ trend' = Migrated
           /\ legacy' = {}
           /\ pc' = NextStep(pc)
  <2>1. /\ schema' \in Schema /\ schema'.samples /\ schema'.columns = Range(Columns)
        /\ schema'.layout = "wide"
    BY <1>1, <1>3 DEF Schema
  <2>2. PathOK'
    BY <1>1, <1>3, <2>1 DEF PathOK, NextStep
  <2>3. /\ legacy = given /\ Some(given) /\ \A r \in given : r.flush = 0
        /\ writes \in Nat /\ \A r \in given : r.flush <= writes
    BY <1>3 DEF StoreInv, RowsOK
  <2>4. given' = given /\ writes' = writes
    BY DEF MigrateTrendLayout
  <2>5. DOMAIN Migrated = {r.bucket : r \in given}
    <3>1. CASE legacy = {}
      BY <2>3, <3>1 DEF Migrated
    <3>2. CASE legacy # {}
      <4>1. Migrated = LegacyPivot(legacy)
        BY <2>3, <3>2, MigratedAll
      <4>2. DOMAIN LegacyPivot(legacy) = {r.bucket : r \in legacy}
        BY DEF LegacyPivot
      <4> QED BY <2>3, <4>1, <4>2, Zenon
    <3> QED BY <3>1, <3>2
  <2>6. ASSUME NEW b \in DOMAIN Migrated PROVE RowOf(Migrated[b], At(b))
    <3>1. b \in {r.bucket : r \in legacy} /\ legacy # {}
      BY <2>3, <2>5
    <3>2. Migrated = LegacyPivot(legacy)
      BY <2>3, <3>1, MigratedAll
    <3>3. RowOf(LegacyPivot(legacy)[b], {r \in legacy : r.bucket = b})
      BY <2>3, <3>1, LegacyRow
    <3>4. {r \in legacy : r.bucket = b} = At(b)
      BY <2>3 DEF At
    <3> QED BY <3>2, <3>3, <3>4, Zenon
  <2>7. \A b : At(b)' = At(b)
    BY <2>4 DEF At
  <2>8. RowsOK'
    <3>1. DOMAIN trend' = {r.bucket : r \in given'}
      BY <1>3, <2>4, <2>5
    <3>2. \A b \in DOMAIN trend' : RowOf(trend'[b], At(b)')
      BY <1>3, <2>6, <2>7
    <3> QED BY <1>3, <2>1, <2>3, <2>4, <3>1, <3>2 DEF RowsOK
  <2> QED BY <2>2, <2>8 DEF StoreInv, MigrateTrendLayout, RawOK
<1>4. CASE /\ schema.layout = "long" /\ ~(ColumnsOf("trend") \subseteq schema.columns)
           /\ pc' = "down"
           /\ UNCHANGED <<schema, trend, legacy>>
  <2>1. PathOK'
    BY <1>1, <1>4 DEF PathOK
  <2>2. RowsOK'
    BY <1>4, RowsKeep DEF MigrateTrendLayout, StoreInv
  <2> QED BY <2>1, <2>2 DEF StoreInv, MigrateTrendLayout, RawOK
<1> QED BY <1>2, <1>3, <1>4 DEF MigrateTrendLayout

\* Creating the indexes leaves the rows alone.
LEMMA InvCreateIndexes == StoreInv /\ CreateIndexes => StoreInv'
<1> SUFFICES ASSUME StoreInv, CreateIndexes PROVE StoreInv'
  OBVIOUS
<1>1. /\ schema \in Schema /\ schema.samples /\ schema.columns = Range(Columns)
      /\ schema.layout = "wide" /\ pc = "indexes"
  BY DEF StoreInv, PathOK, CreateIndexes
<1>2. /\ schema' \in Schema /\ schema'.samples /\ schema'.columns = Range(Columns)
      /\ schema'.layout = "wide"
      /\ (schema'.indexed /\ pc' = "open") \/ pc' = "down"
  <2>1. CASE schema' = [schema EXCEPT !.indexed = TRUE] /\ pc' = NextStep(pc)
    <3>1. schema'.indexed /\ pc' = "open"
      BY <1>1, <2>1 DEF NextStep, Schema
    <3> QED BY <1>1, <2>1, <3>1 DEF Schema
  <2>2. CASE schema' = schema /\ pc' = "down"
    BY <1>1, <2>2
  <2> QED BY <2>1, <2>2 DEF CreateIndexes
<1>3. PathOK'
  BY <1>2 DEF PathOK
<1>4. RowsOK'
  BY <1>1, <1>2, RowsKeep DEF CreateIndexes, StoreInv
<1> QED BY <1>3, <1>4 DEF StoreInv, CreateIndexes, RawOK

\* A crash leaves the rows alone.
LEMMA InvCrash == StoreInv /\ Crash => StoreInv'
<1> SUFFICES ASSUME StoreInv, Crash PROVE StoreInv'
  OBVIOUS
<1>1. PathOK'
  BY DEF StoreInv, PathOK, Crash
<1>2. RowsOK'
  BY RowsKeep DEF Crash, StoreInv
<1> QED BY <1>1, <1>2 DEF StoreInv, Crash, RawOK

\* So does a restart.
LEMMA InvRestart == StoreInv /\ Restart => StoreInv'
<1> SUFFICES ASSUME StoreInv, Restart PROVE StoreInv'
  OBVIOUS
<1>1. PathOK'
  BY DEF StoreInv, PathOK, Restart
<1>2. RowsOK'
  BY RowsKeep DEF Restart, StoreInv
<1> QED BY <1>1, <1>2 DEF StoreInv, Restart, RawOK

\* A batch is inserted and upserted into the rows of its bucket.
LEMMA InvInsertContainerTrends ==
  ASSUME StoreInv, NEW c \in Buckets, NEW batch \in Batches(c),
         InsertContainerTrends(batch)
  PROVE StoreInv'
<1> DEFINE fresh == PivotTrends(batch)
           next == [b \in DOMAIN trend \union DOMAIN fresh |->
                      IF b \notin DOMAIN fresh THEN trend[b]
                      ELSE IF b \notin DOMAIN trend THEN fresh[b]
                      ELSE Upserted(trend[b], fresh[b])]
<1>1. /\ pc = "open" /\ trend' = next /\ given' = given \union batch
      /\ writes' = writes + 1 /\ UNCHANGED <<schema, legacy, raw, pc>>
  BY DEF InsertContainerTrends
<1>2. schema.layout = "wide"
  BY <1>1 DEF StoreInv, PathOK
<1>3. /\ writes \in Nat /\ Some(given) /\ legacy = {}
      /\ \A r \in given : r.flush <= writes /\ r.flush \in Nat
      /\ DOMAIN trend = {r.bucket : r \in given}
      /\ \A b \in DOMAIN trend : RowOf(trend[b], At(b))
  BY <1>2 DEF StoreInv, RowsOK, Some, Rollup
<1>4. Some(batch) /\ Batch(batch) /\ \A r \in batch : r.flush = writes + 1
  BY <1>3, BatchFacts
<1>5. DOMAIN fresh = {r.bucket : r \in batch}
  BY DEF PivotTrends
<1>6. DOMAIN next = {r.bucket : r \in given \union batch}
  <2>1. DOMAIN next = DOMAIN trend \union DOMAIN fresh
    OBVIOUS
  <2> HIDE DEF next, fresh
  <2> QED BY <1>3, <1>5, <2>1
<1>7. ASSUME NEW b \in DOMAIN next
      PROVE RowOf(next[b], {r \in given \union batch : r.bucket = b})
  <2>1. PICK A, B : A = {r \in given : r.bucket = b} /\ B = {r \in batch : r.bucket = b}
    OBVIOUS
  <2>2. {r \in given \union batch : r.bucket = b} = A \union B
    BY <2>1
  <2>3. Some(A) /\ Some(B) /\ Apart(A, B)
    <3>1. Some(A) /\ Some(B)
      BY <1>3, <1>4, <2>1, FS_Subset DEF Some
    <3>2. Apart(A, B)
      BY <1>3, <1>4, <2>1 DEF Apart
    <3> QED BY <3>1, <3>2
  <2>4. b \in DOMAIN trend => RowOf(trend[b], A)
    BY <1>3, <2>1 DEF At
  <2>5. b \in DOMAIN fresh => RowOf(fresh[b], B)
    BY <1>4, <1>5, <2>1, PivotRow
  <2>6. b \notin DOMAIN trend => A = {}
    BY <1>3, <2>1
  <2>7. b \notin DOMAIN fresh => B = {}
    <3> HIDE DEF fresh
    <3> QED BY <1>5, <2>1
  <2>8. next[b] = IF b \notin DOMAIN fresh THEN trend[b]
                  ELSE IF b \notin DOMAIN trend THEN fresh[b]
                  ELSE Upserted(trend[b], fresh[b])
    BY <1>7, Zenon
  <2>9. b \in DOMAIN trend \/ b \in DOMAIN fresh
    BY <1>7, Zenon
  <2> HIDE DEF next, fresh
  <2>10. CASE b \notin DOMAIN fresh
    <3>1. RowOf(trend[b], A) /\ A \union B = A /\ next[b] = trend[b]
      BY <2>4, <2>7, <2>8, <2>9, <2>10
    <3> QED BY <2>2, <3>1
  <2>11. CASE b \in DOMAIN fresh /\ b \notin DOMAIN trend
    <3>1. RowOf(fresh[b], B) /\ A \union B = B /\ next[b] = fresh[b]
      BY <2>5, <2>6, <2>8, <2>11
    <3> QED BY <2>2, <3>1
  <2>12. CASE b \in DOMAIN fresh /\ b \in DOMAIN trend
    <3>1. PICK row, new : row = trend[b] /\ new = fresh[b]
      OBVIOUS
    <3>2. RowOf(row, A) /\ RowOf(new, B) /\ next[b] = Upserted(row, new)
      BY <2>4, <2>5, <2>8, <2>12, <3>1
    <3>3. RowOf(Upserted(row, new), A \union B)
      BY <2>3, <3>2, UpsertedRow
    <3> QED BY <2>2, <3>2, <3>3
  <2> QED BY <2>10, <2>11, <2>12
<1> HIDE DEF next, fresh
<1>8. RowsOK'
  <2>1. Some(given') /\ writes' \in Nat /\ \A r \in given' : r.flush <= writes'
    <3>1. Some(given \union batch)
      BY <1>3, <1>4, FS_Union DEF Some
    <3>2. \A r \in given \union batch : r.flush <= writes + 1
      BY <1>3, <1>4
    <3> QED BY <1>1, <1>3, <3>1, <3>2
  <2>2. schema'.layout = "wide" /\ legacy' = {}
    BY <1>1, <1>2, <1>3
  <2>3. DOMAIN trend' = {r.bucket : r \in given'}
    BY <1>1, <1>6
  <2>4. \A b \in DOMAIN trend' : RowOf(trend'[b], At(b)')
    BY <1>1, <1>7 DEF At
  <2> QED BY <2>1, <2>2, <2>3, <2>4 DEF RowsOK
<1>9. PathOK' /\ RawOK'
  BY <1>1 DEF StoreInv, PathOK, RawOK
<1> QED BY <1>8, <1>9 DEF StoreInv

\* A sample is no rollup.
LEMMA InvInsertSamples ==
  ASSUME StoreInv, NEW ts \in Buckets, NEW id \in Ids, NEW cpu \in Readings \union {NoData},
         InsertSamples(ts, id, cpu)
  PROVE StoreInv'
<1>1. /\ raw' = raw \union {[ts |-> ts, id |-> id, cpu |-> cpu]}
      /\ writes' = writes + 1 /\ UNCHANGED <<schema, legacy, trend, pc, given>>
  BY DEF InsertSamples
<1>2. PathOK'
  BY <1>1 DEF StoreInv, PathOK
<1>3. RawOK'
  BY <1>1 DEF StoreInv, RawOK
<1>4. RowsOK'
  <2>1. writes \in Nat /\ writes' \in Nat
    BY <1>1 DEF StoreInv, RowsOK
  <2>2. \A r \in given' : r.flush <= writes'
    <3>1. \A r \in given : r.flush <= writes /\ r.flush \in Nat
      BY DEF StoreInv, RowsOK, Some, Rollup
    <3> QED BY <1>1, <2>1, <3>1
  <2>3. \A b : At(b)' = At(b)
    BY <1>1 DEF At
  <2> QED BY <1>1, <2>1, <2>2, <2>3 DEF RowsOK, StoreInv
<1> QED BY <1>2, <1>3, <1>4 DEF StoreInv

\* Every step keeps the invariant.
LEMMA InvNext == StoreInv /\ [Next]_vars => StoreInv'
<1> SUFFICES ASSUME StoreInv, [Next]_vars PROVE StoreInv'
  OBVIOUS
<1>1. CASE UNCHANGED vars
  <2>1. RowsOK'
    BY <1>1, RowsKeep DEF vars, StoreInv
  <2> QED BY <1>1, <2>1 DEF vars, StoreInv, PathOK, RawOK
<1>2. ASSUME NEW b \in Buckets, NEW batch \in Batches(b), InsertContainerTrends(batch)
      PROVE StoreInv'
  BY <1>2, InvInsertContainerTrends
<1>3. ASSUME NEW ts \in Buckets, NEW id \in Ids, NEW cpu \in Readings \union {NoData},
             InsertSamples(ts, id, cpu)
      PROVE StoreInv'
  BY <1>3, InvInsertSamples
<1> QED
  BY <1>1, <1>2, <1>3, InvCreateTables, InvCreateTrendTable, InvAddColumn, InvMigrate,
     InvCreateIndexes, InvCrash, InvRestart DEF Next

\* So it holds of every file that is reached.
THEOREM StoreInvHolds == Spec => []StoreInv
<1>1. Init => StoreInv
  BY InvInit
<1>2. StoreInv /\ [Next]_vars => StoreInv'
  BY InvNext
<1> QED BY <1>1, <1>2, PTL DEF Spec

-----------------------------------------------------------------------------
(* What follows. *)

\* Every variable has its type, a stored median lies within its envelope, and
\* an open file has the present schema.
THEOREM TypeCorrect == Spec => []TypeOK
<1>1. StoreInv => TypeOK
  <2> SUFFICES ASSUME StoreInv PROVE TypeOK
    OBVIOUS
  <2>1. legacy \subseteq Rollup /\ given \subseteq Rollup
    BY DEF StoreInv, PathOK, RowsOK, Schema, Some
  <2>2. DOMAIN trend \subseteq Buckets
    <3>1. DOMAIN trend = {} \/ DOMAIN trend = {r.bucket : r \in given}
      BY DEF StoreInv, PathOK, RowsOK
    <3> QED BY <2>1, <3>1 DEF Rollup
  <2>3. ASSUME NEW b \in DOMAIN trend
        PROVE /\ trend[b].samples > 0
              /\ \A m \in Metrics : \/ trend[b].env[m] = NoData
                                    \/ EnvelopeOK(trend[b].env[m])
    <3>1. RowOf(trend[b], At(b))
      BY DEF StoreInv, RowsOK
    <3>2. trend[b].samples > 0
      BY <3>1 DEF RowOf
    <3>3. \A m \in Metrics : Summarises(trend[b].env[m], OfMetric(At(b), m))
      BY <3>1 DEF RowOf
    <3> QED BY <3>2, <3>3 DEF Summarises
  <2>4. pc = "open" => schema = [samples |-> TRUE, columns |-> Range(Columns),
                                 layout |-> "wide", indexed |-> TRUE]
    <3> SUFFICES ASSUME pc = "open"
                 PROVE schema = [samples |-> TRUE, columns |-> Range(Columns),
                                 layout |-> "wide", indexed |-> TRUE]
      OBVIOUS
    <3>1. /\ schema \in Schema /\ schema.columns = Range(Columns)
          /\ schema.layout = "wide" /\ schema.samples /\ schema.indexed
      BY DEF StoreInv, PathOK
    <3>2. schema.samples = TRUE /\ schema.indexed = TRUE
      BY <3>1, Zenon DEF Schema
    <3> QED BY <3>1, <3>2 DEF Schema
  <2>5. schema \in Schema
        /\ pc \in {"tables", "trend", "columns", "migrate", "indexes", "open", "down"}
    BY DEF StoreInv, PathOK
  <2>6. raw \subseteq [ts : Buckets, id : Ids, cpu : Readings \union {NoData}]
    BY DEF StoreInv, RawOK
  <2> QED BY <2>1, <2>2, <2>3, <2>4, <2>5, <2>6 DEF TypeOK
<1> QED BY <1>1, StoreInvHolds, PTL

\* "The envelope keeps the extremes, the median is weighted by sample count":
\* where the metrics of a bucket are covered alike, a stored median is the mean
\* of the rollups' medians by their own counts.
THEOREM MediansAreWeighted == Spec => []MedianWeighted
<1>1. StoreInv => MedianWeighted
  <2> SUFFICES ASSUME StoreInv, NEW b \in DOMAIN trend, EvenlyCovered(b),
                      NEW m \in Metrics
               PROVE SameFraction(trend[b].env[m].med, WeightedMean(OfMetric(At(b), m)))
    BY DEF MedianWeighted, At
  <2>1. RowOf(trend[b], At(b)) /\ b \in {r.bucket : r \in given} /\ Some(given)
    BY DEF StoreInv, RowsOK
  <2>2. Even(At(b)) /\ Some(At(b))
    BY <2>1, FS_Subset DEF EvenlyCovered, At, Some
  <2>3. PICK v, S : v = trend[b].env[m] /\ S = OfMetric(At(b), m)
    OBVIOUS
  <2>4. Some(S) /\ S # {}
    <3>1. PICK r \in At(b) : TRUE
      BY <2>1 DEF At
    <3>2. PICK q \in At(b) : q.metric = m
      BY <2>2, <3>1 DEF Even
    <3> QED BY <2>2, <2>3, <3>2, SomeOfMetric DEF OfMetric
  <2>5. Summarises(v, S) /\ Balanced(v, S)
    BY <2>1, <2>2, <2>3 DEF RowOf
  <2>6. v.med[1] \in Int /\ v.med[2] \in Int
    BY <2>4, <2>5 DEF Summarises, StoredEnvelope
  <2>7. PICK n \in Int, s \in Int : n = Count(S) /\ s = Weight(S)
    BY <2>4, Totals
  <2>8. v.med[1] * n = s * v.med[2]
    <3>1. v.med[1] * n = v.med[2] * s
      BY <2>4, <2>5, <2>7 DEF Balanced
    <3> QED BY <2>6, <2>7, <3>1
  <2>9. WeightedMean(S) = <<s, n>>
    BY <2>4, <2>7, MeanTotals DEF Count, Weight
  <2> QED BY <2>3, <2>8, <2>9 DEF SameFraction
<1> QED BY <1>1, StoreInvHolds, PTL

\* The least of a finite set is that of a part that has one as small for each.
LEMMA SameMin ==
  ASSUME NEW Y \in SUBSET Int, IsFiniteSet(Y), Y # {}, NEW X \in SUBSET Y,
         \A y \in Y : \E x \in X : x <= y
  PROVE Min(X) = Min(Y)
<1>1. Min(Y) \in Y /\ \A y \in Y : Min(Y) <= y
  BY FiniteBounds
<1>2. PICK l \in Int : l = Min(Y)
  BY <1>1
<1>3. PICK x \in X : x <= l
  BY <1>1, <1>2
<1>4. l \in X /\ \A y \in X : l <= y
  BY <1>1, <1>2, <1>3
<1>5. Min(X) \in X /\ \A y \in X : Min(X) <= y
  BY <1>4 DEF Min
<1>6. PICK z \in Int : z = Min(X) /\ z <= l /\ l <= z
  BY <1>4, <1>5
<1> QED BY <1>2, <1>6

\* The greatest likewise.
LEMMA SameMax ==
  ASSUME NEW Y \in SUBSET Int, IsFiniteSet(Y), Y # {}, NEW X \in SUBSET Y,
         \A y \in Y : \E x \in X : y <= x
  PROVE Max(X) = Max(Y)
<1>1. Max(Y) \in Y /\ \A y \in Y : y <= Max(Y)
  BY FiniteBounds
<1>2. PICK l \in Int : l = Max(Y)
  BY <1>1
<1>3. PICK x \in X : l <= x
  BY <1>1, <1>2
<1>4. l \in X /\ \A y \in X : l >= y
  BY <1>1, <1>2, <1>3
<1>5. Max(X) \in X /\ \A y \in X : Max(X) >= y
  BY <1>4 DEF Max
<1>6. PICK z \in Int : z = Max(X) /\ z <= l /\ l <= z
  BY <1>4, <1>5
<1> QED BY <1>2, <1>6

\* The extremes of a finite set of rollups are finitely many.
LEMMA FiniteExtremes ==
  ASSUME NEW S, Some(S)
  PROVE IsFiniteSet({r.e.min : r \in S}) /\ IsFiniteSet({r.e.max : r \in S})
<1>0. IsFiniteSet(S) /\ \A r \in S : r.e.min \in Int /\ r.e.max \in Int
  BY Rollups DEF Some, RollupOK
<1>1. PICK f, g : f = [r \in S |-> r.e.min] /\ g = [r \in S |-> r.e.max]
  OBVIOUS
<1>2. f \in [S -> Int] /\ g \in [S -> Int]
  BY <1>0, <1>1
<1>3. IsFiniteSet({f[r] : r \in S}) /\ IsFiniteSet({g[r] : r \in S})
  BY <1>0, <1>2, FiniteImage
<1>4. {f[r] : r \in S} = {r.e.min : r \in S} /\ {g[r] : r \in S} = {r.e.max : r \in S}
  BY <1>1
<1> QED BY <1>3, <1>4

\* The extremes of envelopes, each of some of the rollups and none of them left
\* out, are those of the rollups.
LEMMA ExtremesOfRows ==
  ASSUME NEW S, Some(S), NEW env, S # {},
         \A v \in env : \E r \in S : r.e.min = v.min,
         \A v \in env : \E r \in S : r.e.max = v.max,
         \A r \in S : \E v \in env : v.min <= r.e.min /\ r.e.max <= v.max
  PROVE /\ Min({v.min : v \in env}) = Min({x.min : x \in {r.e : r \in S}})
        /\ Max({v.max : v \in env}) = Max({x.max : x \in {r.e : r \in S}})
<1>0. \A r \in S : r.e.min \in Int /\ r.e.max \in Int
  BY Rollups DEF Some, RollupOK
<1>1. PICK Y, X : /\ Y = {r.e.min : r \in S} /\ X = {v.min : v \in env}
  OBVIOUS
<1>2. Y \in SUBSET Int /\ Y # {}
  BY <1>0, <1>1
<1>3. IsFiniteSet(Y)
  BY <1>1, FiniteExtremes
<1>4. X \in SUBSET Y /\ \A y \in Y : \E x \in X : x <= y
  <2>1. ASSUME NEW x \in X PROVE x \in Y
    BY <1>1
  <2>2. ASSUME NEW y \in Y PROVE \E x \in X : x <= y
    <3>1. PICK r \in S : y = r.e.min
      BY <1>1
    <3>2. PICK v \in env : v.min <= y
      BY <3>1
    <3>3. v.min \in X
      BY <1>1
    <3> QED BY <3>2, <3>3
  <2> QED BY <2>1, <2>2
<1>5. Min(X) = Min(Y)
  BY <1>2, <1>3, <1>4, SameMin
<1>6. PICK V, U : /\ V = {r.e.max : r \in S} /\ U = {v.max : v \in env}
  OBVIOUS
<1>7. V \in SUBSET Int /\ V # {}
  BY <1>0, <1>6
<1>8. IsFiniteSet(V)
  BY <1>6, FiniteExtremes
<1>9. U \in SUBSET V /\ \A y \in V : \E x \in U : y <= x
  <2>1. ASSUME NEW x \in U PROVE x \in V
    BY <1>6
  <2>2. ASSUME NEW y \in V PROVE \E x \in U : y <= x
    <3>1. PICK r \in S : y = r.e.max
      BY <1>6
    <3>2. PICK v \in env : y <= v.max
      BY <3>1
    <3>3. v.max \in U
      BY <1>6
    <3> QED BY <3>2, <3>3
  <2> QED BY <2>1, <2>2
<1>10. Max(U) = Max(V)
  BY <1>7, <1>8, <1>9, SameMax
<1>11. /\ {x.min : x \in {r.e : r \in S}} = {r.e.min : r \in S}
       /\ {x.max : x \in {r.e : r \in S}} = {r.e.max : r \in S}
  OBVIOUS
<1> QED BY <1>1, <1>5, <1>6, <1>10, <1>11, Zenon

\* Any window of the history of an open file, at any grouping, shows for every
\* metric exactly the extremes of the rollups that were ever stored for it,
\* whichever build stored them, in whichever batches, across crashes of the
\* migration.
THEOREM HistoryIsExact == Spec => []HistoryExact
<1>1. StoreInv => HistoryExact
  <2> SUFFICES ASSUME StoreInv, pc = "open", NEW w \in Windows,
                      NEW group \in 1 .. Cardinality(Buckets)
               PROVE LET history == HistoryContainer(w[1], w[2], group)
                         inside == {r \in given : w[1] <= r.bucket /\ r.bucket <= w[2]}
                         of(g) == {r \in inside : GroupOf(r.bucket, group) = g}
                     IN
                     /\ DOMAIN history = {GroupOf(r.bucket, group) : r \in inside}
                     /\ \A g \in DOMAIN history, m \in Metrics :
                          LET e == {r.e : r \in OfMetric(of(g), m)} IN
                          history[g][m] =
                            IF e = {} THEN NoData
                            ELSE [min |-> Min({x.min : x \in e}),
                                  max |-> Max({x.max : x \in e})]
    BY DEF HistoryExact
  <2> DEFINE history == HistoryContainer(w[1], w[2], group)
             inside == {r \in given : w[1] <= r.bucket /\ r.bucket <= w[2]}
             of(g) == {r \in inside : GroupOf(r.bucket, group) = g}
             rows == {b \in DOMAIN trend : w[1] <= b /\ b <= w[2]}
             env(g, m) == {trend[b].env[m] : b \in {x \in rows : GroupOf(x, group) = g}}
                            \ {NoData}
  <2>1. /\ DOMAIN trend = {r.bucket : r \in given} /\ Some(given)
        /\ \A b \in DOMAIN trend : RowOf(trend[b], At(b))
    BY DEF StoreInv, PathOK, RowsOK
  <2>2. DOMAIN history = {GroupOf(b, group) : b \in rows}
    BY DEF HistoryContainer
  <2>3. rows = {r.bucket : r \in inside}
    BY <2>1
  <2>4. DOMAIN history = {GroupOf(r.bucket, group) : r \in inside}
    <3> HIDE DEF rows, inside, history
    <3> QED BY <2>2, <2>3
  <2>5. ASSUME NEW g \in DOMAIN history, NEW m \in Metrics
        PROVE history[g][m] =
                IF env(g, m) = {} THEN NoData
                ELSE [min |-> Min({e.min : e \in env(g, m)}),
                      max |-> Max({e.max : e \in env(g, m)})]
    BY <2>2, <2>5, Zenon DEF HistoryContainer
  <2>6. ASSUME NEW g \in DOMAIN history, NEW m \in Metrics
        PROVE history[g][m] =
                IF {r.e : r \in OfMetric(of(g), m)} = {} THEN NoData
                ELSE [min |-> Min({x.min : x \in {r.e : r \in OfMetric(of(g), m)}}),
                      max |-> Max({x.max : x \in {r.e : r \in OfMetric(of(g), m)}})]
    <3>1. PICK S, E : S = OfMetric(of(g), m) /\ E = env(g, m)
      OBVIOUS
    <3>2. Some(S) /\ S \subseteq OfMetric(given, m)
      BY <2>1, <3>1, FS_Subset DEF Some, OfMetric
    <3>3. ASSUME NEW r \in S
          PROVE \E v \in E : v.min <= r.e.min /\ r.e.max <= v.max
      <4>1. r \in inside /\ GroupOf(r.bucket, group) = g /\ r.metric = m
        BY <3>1, <3>3 DEF OfMetric
      <4>2. r.bucket \in rows /\ r.bucket \in DOMAIN trend /\ r \in OfMetric(At(r.bucket), m)
        BY <2>1, <2>3, <4>1 DEF OfMetric, At
      <4>3. PICK v : v = trend[r.bucket].env[m]
        OBVIOUS
      <4>4. Summarises(v, OfMetric(At(r.bucket), m))
        BY <2>1, <4>2, <4>3 DEF RowOf
      <4>5. v \in StoredEnvelope /\ v.min <= r.e.min /\ r.e.max <= v.max
        BY <4>2, <4>4 DEF Summarises, Extremes
      <4>6. v \in E
        <5>1. v # NoData
          BY <4>5, NoEnvelope
        <5>2. r.bucket \in {x \in rows : GroupOf(x, group) = g}
          BY <4>1, <4>2
        <5> HIDE DEF rows
        <5> QED BY <3>1, <4>3, <5>1, <5>2
      <4> QED BY <4>5, <4>6
    <3>4. ASSUME NEW v \in E
          PROVE (\E r \in S : r.e.min = v.min) /\ (\E r \in S : r.e.max = v.max)
      <4>1. PICK b \in rows : GroupOf(b, group) = g /\ v = trend[b].env[m] /\ v # NoData
        <5> HIDE DEF rows
        <5> QED BY <3>1
      <4>2. Summarises(v, OfMetric(At(b), m))
        BY <2>1, <4>1 DEF RowOf
      <4>3. Extremes(v.min, v.max, OfMetric(At(b), m))
        BY <4>1, <4>2 DEF Summarises
      <4>4. OfMetric(At(b), m) \subseteq S
        BY <3>1, <4>1 DEF OfMetric, At
      <4> QED BY <4>3, <4>4 DEF Extremes
    <3>5. (S = {}) <=> (E = {})
      BY <3>3, <3>4
    <3>6. S # {} => /\ Min({v.min : v \in E}) = Min({x.min : x \in {r.e : r \in S}})
                    /\ Max({v.max : v \in E}) = Max({x.max : x \in {r.e : r \in S}})
      BY <3>2, <3>3, <3>4, ExtremesOfRows
    <3>7. ({r.e : r \in S} = {}) <=> (S = {})
      OBVIOUS
    <3>8. history[g][m] =
            IF E = {} THEN NoData
            ELSE [min |-> Min({e.min : e \in E}), max |-> Max({e.max : e \in E})]
      <4> HIDE DEF env, history
      <4> QED BY <2>5, <3>1
    <3>9. history[g][m] =
            IF {r.e : r \in S} = {} THEN NoData
            ELSE [min |-> Min({x.min : x \in {r.e : r \in S}}),
                  max |-> Max({x.max : x \in {r.e : r \in S}})]
      <4> HIDE DEF history
      <4>1. CASE S = {}
        BY <3>5, <3>7, <3>8, <4>1
      <4>2. CASE S # {}
        BY <3>5, <3>6, <3>7, <3>8, <4>2
      <4> QED BY <4>1, <4>2
    <3> HIDE DEF history, of
    <3> QED BY <3>1, <3>9, Zenon
  <2> HIDE DEF history
  <2>7. \A g \in DOMAIN history, m \in Metrics :
          LET e == {r.e : r \in OfMetric(of(g), m)} IN
          history[g][m] = IF e = {} THEN NoData
                          ELSE [min |-> Min({x.min : x \in e}),
                                max |-> Max({x.max : x \in e})]
    BY <2>6, Zenon
  <2> QED BY <2>4, <2>7, Zenon DEF history
<1> QED BY <1>1, StoreInvHolds, PTL

-----------------------------------------------------------------------------
(* Recursive functions on 0 .. n *)

\* Induction: a set of numbers that has 0 and, below n, every successor.
LEMMA Induction ==
  ASSUME NEW n \in Nat, NEW T, 0 \in T,
         \A k \in 1 .. n : k - 1 \in T => k \in T
  PROVE 0 .. n \subseteq T
<1> DEFINE F == (0 .. n) \ T
<1> SUFFICES ASSUME F # {} PROVE FALSE
  OBVIOUS
<1>1. F \in SUBSET Nat
  OBVIOUS
<1>2. PICK k \in F : \A j \in F : k <= j
  <2> HIDE DEF F
  <2> QED BY <1>1, LeastNat
<1>3. k \in 1 .. n
  BY <1>2
<1>4. k - 1 \in T
  BY <1>2, <1>3
<1> QED BY <1>2, <1>3, <1>4

\* f is the recursive function on 0 .. j with this base and these steps.
Solves(f, j, base, step) ==
    f = [k \in 0 .. j |-> IF k = 0 THEN base ELSE step[k][f[k - 1]]]

\* There is a recursive function for every base and steps of a type.
LEMMA Recursion ==
  ASSUME NEW n \in Nat, NEW S, NEW base \in S, NEW step \in [1 .. n -> [S -> S]]
  PROVE \E f \in [0 .. n -> S] : Solves(f, n, base, step)
<1> DEFINE T == {j \in 0 .. n : \E f \in [0 .. j -> S] : Solves(f, j, base, step)}
<1>1. 0 \in T
  <2>1. [k \in 0 .. 0 |-> base] \in [0 .. 0 -> S]
    OBVIOUS
  <2>2. Solves([k \in 0 .. 0 |-> base], 0, base, step)
    BY DEF Solves
  <2>3. \E f \in [0 .. 0 -> S] : Solves(f, 0, base, step)
    BY <2>1, <2>2
  <2> QED BY <2>3
<1>2. ASSUME NEW j \in 1 .. n, j - 1 \in T PROVE j \in T
  <2>1. PICK f \in [0 .. j - 1 -> S] : Solves(f, j - 1, base, step)
    BY <1>2
  <2> DEFINE g == [k \in 0 .. j |-> IF k = j THEN step[j][f[j - 1]] ELSE f[k]]
  <2>2. step[j][f[j - 1]] \in S
    BY <2>1
  <2>3. g \in [0 .. j -> S]
    BY <2>1, <2>2
  <2>4. ASSUME NEW k \in 0 .. j
        PROVE g[k] = IF k = 0 THEN base ELSE step[k][g[k - 1]]
    <3>1. CASE k = j
      BY <3>1
    <3>2. CASE k # j
      <4>1. k \in 0 .. j - 1 /\ g[k] = f[k] /\ (k # 0 => g[k - 1] = f[k - 1])
        BY <3>2
      <4>2. f[k] = IF k = 0 THEN base ELSE step[k][f[k - 1]]
        BY <2>1, <4>1 DEF Solves
      <4> QED BY <4>1, <4>2
    <3> QED BY <3>1, <3>2
  <2>5. Solves(g, j, base, step)
    BY <2>4, Zenon DEF Solves
  <2>6. \E h \in [0 .. j -> S] : Solves(h, j, base, step)
    <3> HIDE DEF g
    <3> QED BY <2>3, <2>5
  <2> QED BY <2>6
<1>3. 0 .. n \subseteq T
  <2> HIDE DEF T
  <2> QED BY <1>1, <1>2, Induction
<1>4. n \in T
  BY <1>3
<1> QED BY <1>4

-----------------------------------------------------------------------------
(* Seconds of the axis *)

\* Timestamps and their seconds: the axis is coarser, but in the same order
\* (onMetrics, connect() of live.js).
LEMMA SecondFacts ==
    ASSUME NEW s \in Nat
    PROVE  /\ Second(s) \in Nat
           /\ s < (Second(s) + 1) * PerSecond
           /\ Second(s) * PerSecond <= s
<1>1. PICK q \in Nat : q = s \div PerSecond
  BY ChartAssumption
<1>2. PICK r \in Nat : r = s % PerSecond /\ r < PerSecond
  BY ChartAssumption
<1>3. s = PerSecond * q + r
  BY <1>1, <1>2, ChartAssumption
<1>4. (q + 1) * PerSecond = PerSecond * q + PerSecond /\ q * PerSecond = PerSecond * q
  BY <1>1, ChartAssumption
<1> QED BY <1>1, <1>2, <1>3, <1>4, ChartAssumption DEF Second

LEMMA Products ==
    ASSUME NEW a \in Nat, NEW b \in Nat, a <= b
    PROVE  a * PerSecond <= b * PerSecond /\ a * PerSecond \in Nat
<1>1. PICK k \in Nat : b = a + k
  <2>1. b - a \in Nat /\ b = a + (b - a)
    OBVIOUS
  <2> QED BY <2>1
<1>2. k * PerSecond \in Nat /\ a * PerSecond \in Nat
  BY ChartAssumption
<1>3. b * PerSecond = a * PerSecond + k * PerSecond
  BY <1>1, ChartAssumption
<1> QED BY <1>2, <1>3

LEMMA SecondMono ==
    ASSUME NEW s \in Nat, NEW r \in Nat
    PROVE  /\ s <= r => Second(s) <= Second(r)
           /\ Second(s) < Second(r) => s < r
<1>1. ASSUME NEW a \in Nat, NEW b \in Nat, a <= b PROVE Second(a) <= Second(b)
  <2> SUFFICES ASSUME Second(b) < Second(a) PROVE FALSE
    BY SecondFacts
  <2>1. (Second(b) + 1) * PerSecond <= Second(a) * PerSecond
    BY SecondFacts, Products
  <2> QED BY <1>1, <2>1, SecondFacts, ChartAssumption
<1>2. s <= r \/ r <= s
  OBVIOUS
<1>3. Second(s) \in Nat /\ Second(r) \in Nat
  BY SecondFacts
<1>4. CASE s <= r /\ s # r
  BY <1>1, <1>3, <1>4
<1>5. CASE r <= s
  <2>1. Second(r) <= Second(s)
    BY <1>1, <1>5
  <2> QED BY <1>3, <1>5, <2>1
<1> QED BY <1>2, <1>4, <1>5

\* The backfill asks for everything after the second of the last point.
LEMMA SinceCovers ==
    ASSUME NEW s \in Nat, NEW l \in Nat
    PROVE  /\ Second(s) > l => l * PerSecond + 1 <= s
           /\ l * PerSecond + 1 <= s => l <= Second(s)
<1>1. ASSUME Second(s) > l PROVE l * PerSecond + 1 <= s
  <2>1. (l + 1) * PerSecond <= Second(s) * PerSecond /\ l * PerSecond \in Nat
    BY <1>1, SecondFacts, Products
  <2>2. (l + 1) * PerSecond = l * PerSecond + PerSecond
    BY ChartAssumption
  <2> QED BY <2>1, <2>2, SecondFacts, ChartAssumption
<1>2. ASSUME l * PerSecond + 1 <= s, Second(s) < l PROVE FALSE
  <2>1. (Second(s) + 1) * PerSecond <= l * PerSecond
    BY <1>2, SecondFacts, Products
  <2>2. s < l * PerSecond
    BY <2>1, SecondFacts, ChartAssumption
  <2> QED BY <1>2, <2>2, ChartAssumption
<1> QED BY <1>1, <1>2, SecondFacts

-----------------------------------------------------------------------------
(* Charts *)

\* A chart ends in a sample and shows nothing from after `end`.
Drawn(c, end) ==
    /\ c \in Seq(Point)
    /\ c # <<>> => c[Len(c)].s # Hole
    /\ \A i \in DOMAIN c : c[i].t <= end

\* Its times are in order, ...
Ordered(c) == \A i, j \in DOMAIN c : i < j => c[i].t <= c[j].t

\* ... and no row of D lies between two samples of it, but after a cut.
Gapless(c, D, X) ==
    \A i, j \in DOMAIN c :
      Joined(c, i, j) /\ c[i].t \notin X =>
        ~\E s \in D : c[i].t < Second(s) /\ Second(s) < c[j].t

Sound(c, end, D, X) == Drawn(c, end) /\ Ordered(c) /\ Gapless(c, D, X)

\* d goes on from c: a null point or none, and then the sample s.
GoesOn(d, c, s) ==
    /\ d \in Seq(Point) /\ Len(d) \in {Len(c) + 1, Len(c) + 2}
    /\ \A i \in 1 .. Len(c) : d[i] = c[i]
    /\ \A i \in Len(c) + 1 .. Len(d) - 1 :
         d[i].s = Hole /\ LastTime(c) <= d[i].t /\ d[i].t <= Second(s)
    /\ d[Len(d)] = [t |-> Second(s), s |-> s]

LEMMA LastTimeNat ==
    ASSUME NEW c \in Seq(Point)
    PROVE  LastTime(c) \in Nat
<1>1. CASE c = <<>>
  BY <1>1 DEF LastTime
<1>2. CASE c # <<>>
  <2>1. c[Len(c)] \in Point
    BY <1>2
  <2> QED BY <1>2, <2>1 DEF LastTime, Point
<1> QED BY <1>1, <1>2

\* The seed loop and push() append a sample, after a null point or not.
LEMMA SeedGoesOn ==
    ASSUME NEW c \in Seq(Point), NEW s \in Nat, LastTime(c) <= Second(s)
    PROVE  GoesOn(Seed(c, s), c, s)
<1> DEFINE p == [t |-> Second(s), s |-> s]
           h == [t |-> LastTime(c) + 1, s |-> Hole]
<1>1. LastTime(c) \in Nat /\ Second(s) \in Nat
  BY LastTimeNat, SecondFacts
<1>2. p \in Point /\ h \in Point
  BY <1>1 DEF Point, Hole
<1>3. CASE Seed(c, s) = Append(c, p)
  <2> HIDE DEF p
  <2>1. /\ Append(c, p) \in Seq(Point) /\ Len(Append(c, p)) = Len(c) + 1
        /\ \A i \in 1 .. Len(c) : Append(c, p)[i] = c[i]
        /\ Append(c, p)[Len(c) + 1] = p
    BY <1>2
  <2>2. Len(c) \in Nat
    OBVIOUS
  <2>3. Len(c) + 1 .. Len(c) = {}
    BY <2>2
  <2> QED BY <1>3, <2>1, <2>2, <2>3 DEF GoesOn, p
<1>4. CASE Seed(c, s) = Append(Append(c, h), p) /\ Second(s) - LastTime(c) > GapSecs
  <2>1. LastTime(c) <= h.t /\ h.t <= Second(s) /\ h.s = Hole
    BY <1>1, <1>4, ChartAssumption
  <2> HIDE DEF p, h
  <2> DEFINE d == Append(c, h)
             e == Append(d, p)
  <2>2. /\ d \in Seq(Point) /\ Len(d) = Len(c) + 1 /\ Len(c) \in Nat
        /\ \A i \in 1 .. Len(c) : d[i] = c[i]
        /\ d[Len(c) + 1] = h
    BY <1>2
  <2> HIDE DEF d
  <2>3. /\ e \in Seq(Point) /\ Len(e) = Len(d) + 1
        /\ \A i \in 1 .. Len(d) : e[i] = d[i]
        /\ e[Len(d) + 1] = p
    BY <1>2, <2>2
  <2> HIDE DEF e
  <2>4. e = Seed(c, s)
    BY <1>4 DEF e, d
  <2>5. /\ Len(e) = Len(c) + 2
        /\ \A i \in 1 .. Len(c) : e[i] = c[i]
        /\ \A i \in Len(c) + 1 .. Len(e) - 1 : e[i] = h
        /\ e[Len(e)] = p
    BY <2>2, <2>3
  <2>6. GoesOn(e, c, s)
    BY <2>1, <2>3, <2>5 DEF GoesOn, p
  <2> QED BY <2>4, <2>6
<1>5. \/ Seed(c, s) = Append(c, p)
      \/ Seed(c, s) = Append(Append(c, h), p) /\ Second(s) - LastTime(c) > GapSecs
  BY DEF Seed, Broken
<1> QED BY <1>3, <1>4, <1>5

\* What goes on from a sound chart is sound, unless it skips a row.
LEMMA GoesOnSound ==
    ASSUME NEW end \in Nat, NEW D \in SUBSET Nat, NEW X,
           NEW c, Sound(c, end, D, X),
           NEW s \in Nat, s # Hole, LastTime(c) <= Second(s), Second(s) <= end,
           c # <<>> /\ LastTime(c) \notin X =>
             \A r \in D : ~(LastTime(c) < Second(r) /\ Second(r) < Second(s)),
           NEW d, GoesOn(d, c, s)
    PROVE  d # <<>> /\ LastTime(d) = Second(s) /\ Sound(d, end, D, X)
<1>1. PICK k \in Nat, n \in Nat :
        /\ k = Len(c) /\ n = Len(d) /\ n \in {k + 1, k + 2}
        /\ c \in Seq(Point) /\ d \in Seq(Point)
        /\ DOMAIN c = 1 .. k /\ DOMAIN d = 1 .. n
  <2>1. c \in Seq(Point) /\ d \in Seq(Point) /\ Len(d) \in {Len(c) + 1, Len(c) + 2}
    BY DEF Sound, Drawn, GoesOn
  <2>2. /\ Len(c) \in Nat /\ Len(d) \in Nat
        /\ DOMAIN c = 1 .. Len(c) /\ DOMAIN d = 1 .. Len(d)
    BY <2>1
  <2> QED BY <2>1, <2>2
<1>2. /\ \A i \in 1 .. k : d[i] = c[i] /\ c[i].t \in Nat
      /\ \A i \in k + 1 .. n - 1 :
           d[i].s = Hole /\ LastTime(c) <= d[i].t /\ d[i].t <= Second(s) /\ d[i].t \in Nat
      /\ d[n] = [t |-> Second(s), s |-> s]
  <2>1. \A i \in 1 .. k : c[i] \in Point
    BY <1>1
  <2>2. \A i \in 1 .. n : d[i] \in Point
    BY <1>1
  <2>3. /\ \A i \in 1 .. k : c[i].t \in Nat
        /\ \A i \in 1 .. n : d[i].t \in Nat
    BY <2>1, <2>2 DEF Point
  <2>4. \A i \in k + 1 .. n - 1 : i \in 1 .. n
    BY <1>1
  <2> QED BY <1>1, <2>3, <2>4 DEF GoesOn
<1>3. LastTime(c) \in Nat /\ Second(s) \in Nat
  BY <1>1, LastTimeNat, SecondFacts
<1>4. k # 0 => LastTime(c) = c[k].t /\ c[k].s # Hole /\ c # <<>>
  BY <1>1 DEF LastTime, Sound, Drawn
<1>5. \A i \in 1 .. k : c[i].t <= LastTime(c)
  <2> SUFFICES ASSUME NEW i \in 1 .. k PROVE c[i].t <= LastTime(c)
    OBVIOUS
  <2>1. k # 0 /\ k \in 1 .. k
    BY <1>1
  <2>2. i # k => c[i].t <= c[k].t
    BY <1>1, <2>1 DEF Sound, Ordered
  <2> QED BY <1>2, <1>4, <2>1, <2>2
<1>6. d # <<>> /\ LastTime(d) = Second(s)
  BY <1>1, <1>2 DEF LastTime
<1>7. Drawn(d, end)
  <2>1. ASSUME NEW i \in 1 .. n PROVE d[i].t <= end
    <3>1. i \in 1 .. k \/ i \in k + 1 .. n - 1 \/ i = n
      BY <1>1
    <3>2. CASE i \in 1 .. k
      BY <1>1, <1>2, <3>2 DEF Sound, Drawn
    <3>3. CASE i \in k + 1 .. n - 1
      BY <1>2, <1>3, <3>3
    <3>4. CASE i = n
      BY <1>2, <3>4
    <3> QED BY <3>1, <3>2, <3>3, <3>4
  <2>2. d[Len(d)].s # Hole
    BY <1>1, <1>2
  <2> QED BY <1>1, <2>1, <2>2 DEF Drawn
<1>8. Ordered(d)
  <2> SUFFICES ASSUME NEW i \in 1 .. n, NEW j \in 1 .. n, i < j
               PROVE d[i].t <= d[j].t
    BY <1>1 DEF Ordered
  <2>1. CASE j \in 1 .. k
    <3>1. i \in 1 .. k
      BY <1>1, <2>1
    <3> QED BY <1>1, <1>2, <2>1, <3>1 DEF Sound, Ordered
  <2>2. CASE i \in 1 .. k /\ j \notin 1 .. k
    <3>1. LastTime(c) <= d[j].t /\ d[j].t \in Nat
      BY <1>1, <1>2, <1>3, <2>2
    <3> QED BY <1>2, <1>3, <1>5, <2>2, <3>1
  <2>3. CASE i \notin 1 .. k
    <3>1. i \in k + 1 .. n - 1 /\ j = n
      BY <1>1, <2>3
    <3> QED BY <1>2, <1>3, <3>1
  <2> QED BY <2>1, <2>2, <2>3
<1>9. Gapless(d, D, X)
  <2> SUFFICES ASSUME NEW i \in 1 .. n, NEW j \in 1 .. n, Joined(d, i, j),
                      d[i].t \notin X, NEW r \in D,
                      d[i].t < Second(r), Second(r) < d[j].t
               PROVE FALSE
    BY <1>1 DEF Gapless
  <2>0. i < j /\ d[i].s # Hole /\ d[j].s # Hole
           /\ \A m \in i + 1 .. j - 1 : d[m].s = Hole
    BY DEF Joined
  <2>1. CASE j \in 1 .. k
    <3>1. i \in 1 .. k
      BY <1>1, <2>0, <2>1
    <3>2. \A m \in i + 1 .. j - 1 : m \in 1 .. k
      BY <1>1, <2>1, <3>1
    <3>3. Joined(c, i, j)
      BY <1>2, <2>0, <2>1, <3>1, <3>2 DEF Joined
    <3> QED BY <1>1, <1>2, <2>1, <3>1, <3>3 DEF Sound, Gapless
  <2>2. CASE j \notin 1 .. k
    <3>1. j = n /\ i \in 1 .. k
      BY <1>1, <1>2, <2>0, <2>2
    <3>2. i = k
      BY <1>1, <1>2, <1>4, <2>0, <3>1
    <3>3. d[i].t = LastTime(c) /\ d[j].t = Second(s) /\ c # <<>>
      BY <1>1, <1>2, <1>4, <3>1, <3>2
    <3> QED BY <3>3
  <2> QED BY <2>1, <2>2
<1> QED BY <1>6, <1>7, <1>8, <1>9 DEF Sound

\* Dropping the oldest points leaves a sound chart (push()).
LEMMA CappedSound ==
    ASSUME NEW end \in Nat, NEW D \in SUBSET Nat, NEW X,
           NEW c, Sound(c, end, D, X), c # <<>>
    PROVE  /\ Capped(c) # <<>> /\ LastTime(Capped(c)) = LastTime(c)
           /\ Sound(Capped(c), end, D, X)
<1>1. CASE Capped(c) = c
  BY <1>1
<1>2. CASE Capped(c) # c
  <2>1. c \in Seq(Point) /\ Len(c) \in Nat /\ DOMAIN c = 1 .. Len(c)
    BY DEF Sound, Drawn
  <2>2. MaxPoints \in Nat \ {0} /\ Len(c) > MaxPoints
    BY <1>2, <2>1, ChartAssumption DEF Capped
  <2>3. PICK o \in Nat : o = Len(c) - MaxPoints
    <3>1. Len(c) - MaxPoints \in Nat
      BY <2>1, <2>2
    <3> QED BY <3>1
  <2>4. PICK d : d = SubSeq(c, o + 1, Len(c))
    OBVIOUS
  <2>5. Capped(c) = d
    BY <2>1, <2>2, <2>3, <2>4, ChartAssumption DEF Capped
  <2>6. /\ d \in Seq(Point) /\ Len(d) = MaxPoints
        /\ DOMAIN d = 1 .. MaxPoints
        /\ \A i \in 1 .. MaxPoints : d[i] = c[i + o] /\ i + o \in 1 .. Len(c)
    BY <2>1, <2>2, <2>3, <2>4
  <2>7. d # <<>> /\ d[Len(d)] = c[Len(c)] /\ LastTime(d) = LastTime(c)
    BY <2>1, <2>2, <2>3, <2>6 DEF LastTime
  <2>8. Drawn(d, end)
    BY <2>1, <2>6, <2>7 DEF Sound, Drawn
  <2>9. Ordered(d)
    <3> SUFFICES ASSUME NEW i \in 1 .. MaxPoints, NEW j \in 1 .. MaxPoints, i < j
                 PROVE d[i].t <= d[j].t
      BY <2>6 DEF Ordered
    <3>1. i + o < j + o
      BY <2>2, <2>3
    <3> QED BY <2>1, <2>6, <3>1 DEF Sound, Ordered
  <2>10. Gapless(d, D, X)
    <3> SUFFICES ASSUME NEW i \in 1 .. MaxPoints, NEW j \in 1 .. MaxPoints,
                        Joined(d, i, j), d[i].t \notin X, NEW r \in D,
                        d[i].t < Second(r), Second(r) < d[j].t
                 PROVE FALSE
      BY <2>6 DEF Gapless
    <3>1. i + o < j + o /\ c[i + o].s # Hole /\ c[j + o].s # Hole
      BY <2>2, <2>3, <2>6 DEF Joined
    <3>2. ASSUME NEW m \in i + o + 1 .. j + o - 1 PROVE c[m].s = Hole
      <4>1. /\ m \in Int /\ i + o + 1 <= m /\ m <= j + o - 1
            /\ i \in Nat /\ j \in Nat /\ 1 <= i /\ j <= MaxPoints
        BY <2>2, <2>3
      <4>2. PICK l \in Int : l = m - o
        BY <4>1
      <4>3. l + o = m /\ i + 1 <= l /\ l <= j - 1
        BY <4>1, <4>2
      <4>4. l \in i + 1 .. j - 1 /\ l \in 1 .. MaxPoints
        BY <2>2, <4>1, <4>3
      <4> QED BY <2>6, <4>3, <4>4 DEF Joined
    <3>3. Joined(c, i + o, j + o)
      BY <3>1, <3>2 DEF Joined
    <3> QED BY <2>1, <2>6, <3>3 DEF Sound, Gapless
  <2> QED BY <2>5, <2>7, <2>8, <2>9, <2>10 DEF Sound
<1> QED BY <1>1, <1>2

\* A row that may follow the last point: no row of D is skipped by it.
MayFollow(c, s, end, D, X) ==
    /\ s # Hole /\ LastTime(c) <= Second(s) /\ Second(s) <= end
    /\ c # <<>> /\ LastTime(c) \notin X =>
         \A r \in D : ~(LastTime(c) < Second(r) /\ Second(r) < Second(s))

\* One round of the seed loop, and one push().
LEMMA SeedSound ==
    ASSUME NEW end \in Nat, NEW D \in SUBSET Nat, NEW X,
           NEW c, Sound(c, end, D, X), NEW s \in Nat, MayFollow(c, s, end, D, X)
    PROVE  /\ Seed(c, s) # <<>> /\ LastTime(Seed(c, s)) = Second(s)
           /\ Sound(Seed(c, s), end, D, X)
<1>1. GoesOn(Seed(c, s), c, s)
  BY SeedGoesOn DEF MayFollow, Sound, Drawn
<1> QED BY <1>1, GoesOnSound DEF MayFollow

LEMMA PushSound ==
    ASSUME NEW end \in Nat, NEW D \in SUBSET Nat, NEW X,
           NEW c, Sound(c, end, D, X), NEW s \in Nat, MayFollow(c, s, end, D, X)
    PROVE  /\ Push(c, s) # <<>> /\ LastTime(Push(c, s)) = Second(s)
           /\ Sound(Push(c, s), end, D, X)
<1>1. CASE c # <<>> /\ LastTime(c) = Second(s)
  BY <1>1 DEF Push
<1>2. CASE ~(c # <<>> /\ LastTime(c) = Second(s))
  <2>1. Push(c, s) = Capped(Seed(c, s))
    BY <1>2 DEF Push, Seed
  <2> QED BY <2>1, SeedSound, CappedSound
<1> QED BY <1>1, <1>2

\* Both append points to any chart.
LEMMA StepTypes ==
    ASSUME NEW c \in Seq(Point), NEW s \in Nat
    PROVE  Seed(c, s) \in Seq(Point) /\ Push(c, s) \in Seq(Point)
<1> DEFINE p == [t |-> Second(s), s |-> s]
           h == [t |-> LastTime(c) + 1, s |-> Hole]
<1>1. p \in Point /\ h \in Point
  <2>1. LastTime(c) \in Nat /\ Second(s) \in Nat
    BY LastTimeNat, SecondFacts
  <2> QED BY <2>1 DEF Point, Hole
<1>2. Broken(c, Second(s)) \in Seq(Point)
  <2> HIDE DEF h
  <2>1. Append(c, h) \in Seq(Point)
    BY <1>1
  <2> QED BY <2>1 DEF Broken, h
<1>3. Seed(c, s) \in Seq(Point)
  <2> HIDE DEF p
  <2>1. Append(Broken(c, Second(s)), p) \in Seq(Point)
    BY <1>1, <1>2
  <2> QED BY <2>1 DEF Seed, p
<1>4. Push(c, s) = c \/ Push(c, s) = Capped(Seed(c, s))
  BY DEF Push, Seed
<1>5. ASSUME NEW d \in Seq(Point) PROVE Capped(d) \in Seq(Point)
  <2>1. CASE Len(d) > MaxPoints
    <3>1. Len(d) - MaxPoints + 1 \in 1 .. Len(d) + 1 /\ Len(d) \in Nat
      BY <2>1, ChartAssumption
    <3>2. SubSeq(d, Len(d) - MaxPoints + 1, Len(d)) \in Seq(Point)
      BY <3>1
    <3> QED BY <2>1, <3>2 DEF Capped
  <2>2. CASE ~(Len(d) > MaxPoints)
    BY <2>2 DEF Capped
  <2> QED BY <2>1, <2>2
<1> QED BY <1>3, <1>4, <1>5

-----------------------------------------------------------------------------
(* Drawing the rows of an answer *)

\* The recursive functions of the seed loop and of the backfill.
SeededIs(f, S) ==
    f = [n \in 0 .. latest |->
           IF n = 0 THEN <<>>
           ELSE IF n \in S THEN Seed(f[n - 1], n) ELSE f[n - 1]]
ExtendedIs(f, c, S) ==
    f = [n \in 0 .. latest |->
           IF n = 0 THEN c
           ELSE IF n \in S THEN Push(f[n - 1], n) ELSE f[n - 1]]

\* They exist, and give charts.
LEMMA SeededUnfold ==
    ASSUME latest \in Nat, NEW S
    PROVE  \E f \in [0 .. latest -> Seq(Point)] :
             SeededIs(f, S) /\ Seeded(S) = f[latest]
<1> DEFINE n == latest
           f == CHOOSE f : SeededIs(f, S)
           step == [k \in 1 .. n |->
                      [d \in Seq(Point) |-> IF k \in S THEN Seed(d, k) ELSE d]]
<1>1. step \in [1 .. n -> [Seq(Point) -> Seq(Point)]]
  BY StepTypes
<1>2. <<>> \in Seq(Point)
  OBVIOUS
<1>3. PICK g \in [0 .. n -> Seq(Point)] : Solves(g, n, <<>>, step)
  <2> HIDE DEF step
  <2> QED BY <1>1, <1>2, Recursion
<1>4. ASSUME NEW k \in 0 .. n
      PROVE g[k] = IF k = 0 THEN <<>>
                   ELSE IF k \in S THEN Seed(g[k - 1], k) ELSE g[k - 1]
  <2>1. k # 0 => k \in 1 .. n /\ g[k - 1] \in Seq(Point)
    <3> HIDE DEF step
    <3>1. k # 0 => k - 1 \in 0 .. n
      OBVIOUS
    <3> QED BY <1>3, <3>1
  <2>2. g[k] = IF k = 0 THEN <<>> ELSE step[k][g[k - 1]]
    <3> HIDE DEF step
    <3> QED BY <1>3 DEF Solves
  <2> QED BY <2>1, <2>2
<1>5. g = [k \in 0 .. n |-> g[k]]
  BY <1>3
<1>6. SeededIs(g, S)
  BY <1>4, <1>5, Zenon DEF SeededIs
<1>7. SeededIs(f, S)
  BY <1>6
<1>8. Seeded(S) = f[latest]
  BY DEF Seeded, SeededIs
<1>9. f \in [0 .. n -> Seq(Point)]
  <2> DEFINE T == {k \in 0 .. n : f[k] \in Seq(Point)}
  <2>1. ASSUME NEW k \in 0 .. n
        PROVE f[k] = IF k = 0 THEN <<>>
                     ELSE IF k \in S THEN Seed(f[k - 1], k) ELSE f[k - 1]
    <3> HIDE DEF f
    <3> QED BY <1>7 DEF SeededIs
  <2> HIDE DEF f
  <2>2. 0 \in T
    <3>1. 0 \in 0 .. n
      OBVIOUS
    <3>2. f[0] = <<>>
      BY <2>1, <3>1
    <3> QED BY <3>1, <3>2, <1>2
  <2>3. ASSUME NEW k \in 1 .. n, k - 1 \in T PROVE k \in T
    <3>1. f[k - 1] \in Seq(Point) /\ k \in 0 .. n /\ k # 0 /\ k \in Nat
      BY <2>3
    <3> QED BY <2>1, <3>1, StepTypes
  <2>4. 0 .. n \subseteq T
    <3> HIDE DEF T
    <3> QED BY <2>2, <2>3, Induction
  <2>5. f = [k \in 0 .. n |-> f[k]]
    <3>1. DOMAIN f = 0 .. n
      BY <1>7 DEF SeededIs
    <3> QED BY <1>7, <3>1 DEF SeededIs
  <2> QED BY <2>4, <2>5
<1> HIDE DEF f
<1> QED BY <1>7, <1>8, <1>9

LEMMA ExtendedUnfold ==
    ASSUME latest \in Nat, NEW S, NEW c \in Seq(Point)
    PROVE  \E f \in [0 .. latest -> Seq(Point)] :
             ExtendedIs(f, c, S) /\ Extended(c, S) = f[latest]
<1> DEFINE n == latest
           f == CHOOSE f : ExtendedIs(f, c, S)
           step == [k \in 1 .. n |->
                      [d \in Seq(Point) |-> IF k \in S THEN Push(d, k) ELSE d]]
<1>1. step \in [1 .. n -> [Seq(Point) -> Seq(Point)]]
  BY StepTypes
<1>2. c \in Seq(Point)
  OBVIOUS
<1>3. PICK g \in [0 .. n -> Seq(Point)] : Solves(g, n, c, step)
  <2> HIDE DEF step
  <2> QED BY <1>1, <1>2, Recursion
<1>4. ASSUME NEW k \in 0 .. n
      PROVE g[k] = IF k = 0 THEN c
                   ELSE IF k \in S THEN Push(g[k - 1], k) ELSE g[k - 1]
  <2>1. k # 0 => k \in 1 .. n /\ g[k - 1] \in Seq(Point)
    <3> HIDE DEF step
    <3>1. k # 0 => k - 1 \in 0 .. n
      OBVIOUS
    <3> QED BY <1>3, <3>1
  <2>2. g[k] = IF k = 0 THEN c ELSE step[k][g[k - 1]]
    <3> HIDE DEF step
    <3> QED BY <1>3 DEF Solves
  <2> QED BY <2>1, <2>2
<1>5. g = [k \in 0 .. n |-> g[k]]
  BY <1>3
<1>6. ExtendedIs(g, c, S)
  BY <1>4, <1>5, Zenon DEF ExtendedIs
<1>7. ExtendedIs(f, c, S)
  BY <1>6
<1>8. Extended(c, S) = f[latest]
  BY DEF Extended, ExtendedIs
<1>9. f \in [0 .. n -> Seq(Point)]
  <2> DEFINE T == {k \in 0 .. n : f[k] \in Seq(Point)}
  <2>1. ASSUME NEW k \in 0 .. n
        PROVE f[k] = IF k = 0 THEN c
                     ELSE IF k \in S THEN Push(f[k - 1], k) ELSE f[k - 1]
    <3> HIDE DEF f
    <3> QED BY <1>7 DEF ExtendedIs
  <2> HIDE DEF f
  <2>2. 0 \in T
    <3>1. 0 \in 0 .. n
      OBVIOUS
    <3>2. f[0] = c
      BY <2>1, <3>1
    <3> QED BY <3>1, <3>2, <1>2
  <2>3. ASSUME NEW k \in 1 .. n, k - 1 \in T PROVE k \in T
    <3>1. f[k - 1] \in Seq(Point) /\ k \in 0 .. n /\ k # 0 /\ k \in Nat
      BY <2>3
    <3> QED BY <2>1, <3>1, StepTypes
  <2>4. 0 .. n \subseteq T
    <3> HIDE DEF T
    <3> QED BY <2>2, <2>3, Induction
  <2>5. f = [k \in 0 .. n |-> f[k]]
    <3>1. DOMAIN f = 0 .. n
      BY <1>7 DEF ExtendedIs
    <3> QED BY <1>7, <3>1 DEF ExtendedIs
  <2> QED BY <2>4, <2>5
<1> HIDE DEF f
<1> QED BY <1>7, <1>8, <1>9

\* The chart c may take the rows S of the database D.
Feeds(c, S, end, D, X) ==
    /\ Sound(c, end, D, X)
    /\ S \subseteq Nat /\ \A p \in S : p # Hole /\ Second(p) <= end
    /\ \A r \in D : \A p, q \in S : p <= r /\ r <= q => r \in S
    /\ \A p \in S : LastTime(c) <= Second(p)
    /\ c # <<>> /\ LastTime(c) \notin X =>
         \A r \in D : Second(r) <= LastTime(c) \/ r \in S \/ \A p \in S : p <= r

\* d is c with the rows of S up to n on it.
UpTo(d, c, S, n, end, D, X) ==
    /\ Sound(d, end, D, X)
    /\ \A p \in S : p <= n => Second(p) <= LastTime(d)
    /\ \/ d = c /\ \A p \in S : n < p
       \/ d # <<>> /\ \E p \in S : p <= n /\ LastTime(d) = Second(p)

LEMMA UpToNone ==
    ASSUME NEW end, NEW D \in SUBSET Nat, NEW X, NEW c, NEW S, Feeds(c, S, end, D, X)
    PROVE  UpTo(c, c, S, 0, end, D, X)
BY DEF Feeds, UpTo, Hole

\* A number that is no row changes nothing, ...
LEMMA UpToSkips ==
    ASSUME NEW end, NEW D \in SUBSET Nat, NEW X, NEW c, NEW S, NEW d, NEW n \in Nat,
           n # 0, UpTo(d, c, S, n - 1, end, D, X), Feeds(c, S, end, D, X), n \notin S
    PROVE  UpTo(d, c, S, n, end, D, X)
<1>1. \A p \in S : p \in Nat /\ (p <= n => p <= n - 1) /\ (n - 1 < p => n < p)
                   /\ (p <= n - 1 => p <= n)
  BY DEF Feeds
<1> QED BY <1>1 DEF UpTo

\* ... a row skips none of the database, ...
LEMMA UpToFollows ==
    ASSUME NEW end \in Nat, NEW D \in SUBSET Nat, NEW X, NEW c, NEW S, NEW d,
           NEW n \in Nat, UpTo(d, c, S, n - 1, end, D, X), Feeds(c, S, end, D, X), n \in S
    PROVE  MayFollow(d, n, end, D, X)
<1>1. n # Hole /\ Second(n) <= end /\ Second(n) \in Nat
         /\ \A p \in D \union S : p \in Nat /\ Second(p) \in Nat
  BY SecondFacts DEF Feeds
<1>2. c \in Seq(Point) /\ d \in Seq(Point) /\ LastTime(d) \in Nat /\ S \subseteq Nat
  BY LastTimeNat DEF UpTo, Feeds, Sound, Drawn
<1>3. LastTime(d) <= Second(n)
  <2>1. CASE d = c
    BY <2>1 DEF Feeds
  <2>2. CASE \E p \in S : p <= n - 1 /\ LastTime(d) = Second(p)
    <3>1. PICK p \in S : p <= n - 1 /\ LastTime(d) = Second(p)
      BY <2>2
    <3>2. p \in Nat /\ p <= n
      BY <1>1, <1>2, <3>1
    <3> QED BY <3>1, <3>2, SecondMono
  <2> QED BY <2>1, <2>2 DEF UpTo
<1>4. ASSUME d # <<>>, LastTime(d) \notin X, NEW r \in D,
             LastTime(d) < Second(r), Second(r) < Second(n)
      PROVE FALSE
  <2>1. r \in Nat /\ r < n /\ Second(r) \in Nat
    <3>1. r \in Nat /\ Second(r) \in Nat
      BY <1>1
    <3> QED BY <1>4, <3>1, SecondMono
  <2>2. r \notin S
    <3>1. ASSUME r \in S PROVE FALSE
      <4>1. r <= n - 1
        BY <2>1
      <4>2. Second(r) <= LastTime(d)
        BY <3>1, <4>1 DEF UpTo
      <4> QED BY <1>2, <1>4, <2>1, <4>2
    <3> QED BY <3>1
  <2>3. CASE d = c
    <3>1. Second(r) <= LastTime(c) \/ r \in S \/ \A p \in S : p <= r
      BY <1>4, <2>3 DEF Feeds
    <3>2. ~(n <= r) /\ ~(Second(r) <= LastTime(d))
      BY <1>2, <1>4, <2>1
    <3> QED BY <2>2, <2>3, <3>1, <3>2
  <2>4. CASE \E p \in S : p <= n - 1 /\ LastTime(d) = Second(p)
    <3>1. PICK p \in S : p <= n - 1 /\ LastTime(d) = Second(p)
      BY <2>4
    <3>2. p \in Nat /\ p <= r
      <4>1. p \in Nat /\ p < r
        BY <1>1, <1>2, <1>4, <2>1, <3>1, SecondMono
      <4> QED BY <2>1, <4>1
    <3>3. r <= n
      BY <2>1
    <3>4. r \in S
      BY <3>1, <3>2, <3>3 DEF Feeds
    <3> QED BY <2>2, <3>4
  <2> QED BY <2>3, <2>4 DEF UpTo
<1> QED BY <1>1, <1>3, <1>4 DEF MayFollow

\* ... and is then the last one on the chart.
LEMMA UpToTakes ==
    ASSUME NEW end \in Nat, NEW D \in SUBSET Nat, NEW X, NEW c, NEW S, NEW e,
           NEW n \in Nat, Feeds(c, S, end, D, X), n \in S,
           e # <<>>, LastTime(e) = Second(n), Sound(e, end, D, X)
    PROVE  UpTo(e, c, S, n, end, D, X)
<1>1. ASSUME NEW p \in S, p <= n PROVE Second(p) <= LastTime(e)
  <2>1. p \in Nat
    BY DEF Feeds
  <2> QED BY <1>1, <2>1, SecondMono
<1>2. n <= n
  OBVIOUS
<1> QED BY <1>1, <1>2 DEF UpTo

\* A seed draws a sound chart.
LEMMA SeededSound ==
    ASSUME latest \in Nat, NEW end \in Nat, NEW D \in SUBSET (1 .. latest), NEW X,
           NEW S, Feeds(<<>>, S, end, D, X)
    PROVE  UpTo(Seeded(S), <<>>, S, latest, end, D, X)
<1>1. PICK f \in [0 .. latest -> Seq(Point)] : SeededIs(f, S) /\ Seeded(S) = f[latest]
  BY SeededUnfold
<1>2. ASSUME NEW k \in 0 .. latest
      PROVE f[k] = IF k = 0 THEN <<>>
                   ELSE IF k \in S THEN Seed(f[k - 1], k) ELSE f[k - 1]
  BY <1>1 DEF SeededIs
<1> DEFINE T == {k \in 0 .. latest : UpTo(f[k], <<>>, S, k, end, D, X)}
<1>3. D \in SUBSET Nat
  OBVIOUS
<1>4. 0 \in T
  <2>1. 0 \in 0 .. latest
    OBVIOUS
  <2>2. f[0] = <<>>
    BY <1>2, <2>1
  <2> QED BY <1>3, <2>1, <2>2, UpToNone
<1>5. ASSUME NEW k \in 1 .. latest, k - 1 \in T PROVE k \in T
  <2>1. k \in Nat /\ k # 0 /\ k \in 0 .. latest
        /\ UpTo(f[k - 1], <<>>, S, k - 1, end, D, X)
    BY <1>5
  <2>2. f[k] = IF k \in S THEN Seed(f[k - 1], k) ELSE f[k - 1]
    BY <1>2, <2>1
  <2> HIDE DEF T
  <2>3. CASE k \in S
    <3>1. MayFollow(f[k - 1], k, end, D, X) /\ Sound(f[k - 1], end, D, X)
      BY <1>3, <2>1, <2>3, UpToFollows DEF UpTo
    <3>2. f[k] # <<>> /\ LastTime(f[k]) = Second(k) /\ Sound(f[k], end, D, X)
      BY <1>3, <2>1, <2>2, <2>3, <3>1, SeedSound
    <3>3. UpTo(f[k], <<>>, S, k, end, D, X)
      BY <1>3, <2>1, <2>3, <3>2, UpToTakes
    <3> QED BY <2>1, <3>3 DEF T
  <2>4. CASE k \notin S
    <3>1. UpTo(f[k], <<>>, S, k, end, D, X)
      BY <1>3, <2>1, <2>2, <2>4, UpToSkips
    <3> QED BY <2>1, <3>1 DEF T
  <2> QED BY <2>3, <2>4
<1>6. 0 .. latest \subseteq T
  <2> HIDE DEF T
  <2> QED BY <1>4, <1>5, Induction
<1>7. latest \in 0 .. latest
  OBVIOUS
<1> QED BY <1>1, <1>6, <1>7

\* So does a backfill that goes on from a sound chart.
LEMMA ExtendedSound ==
    ASSUME latest \in Nat, NEW end \in Nat, NEW D \in SUBSET (1 .. latest), NEW X,
           NEW S, NEW c, Feeds(c, S, end, D, X)
    PROVE  UpTo(Extended(c, S), c, S, latest, end, D, X)
<1>0. c \in Seq(Point)
  BY DEF Feeds, Sound, Drawn
<1>1. PICK f \in [0 .. latest -> Seq(Point)] : ExtendedIs(f, c, S) /\ Extended(c, S) = f[latest]
  BY <1>0, ExtendedUnfold
<1>2. ASSUME NEW k \in 0 .. latest
      PROVE f[k] = IF k = 0 THEN c
                   ELSE IF k \in S THEN Push(f[k - 1], k) ELSE f[k - 1]
  BY <1>1 DEF ExtendedIs
<1> DEFINE T == {k \in 0 .. latest : UpTo(f[k], c, S, k, end, D, X)}
<1>3. D \in SUBSET Nat
  OBVIOUS
<1>4. 0 \in T
  <2>1. 0 \in 0 .. latest
    OBVIOUS
  <2>2. f[0] = c
    BY <1>2, <2>1
  <2> QED BY <1>3, <2>1, <2>2, UpToNone
<1>5. ASSUME NEW k \in 1 .. latest, k - 1 \in T PROVE k \in T
  <2>1. k \in Nat /\ k # 0 /\ k \in 0 .. latest
        /\ UpTo(f[k - 1], c, S, k - 1, end, D, X)
    BY <1>5
  <2>2. f[k] = IF k \in S THEN Push(f[k - 1], k) ELSE f[k - 1]
    BY <1>2, <2>1
  <2> HIDE DEF T
  <2>3. CASE k \in S
    <3>1. MayFollow(f[k - 1], k, end, D, X) /\ Sound(f[k - 1], end, D, X)
      BY <1>3, <2>1, <2>3, UpToFollows DEF UpTo
    <3>2. f[k] # <<>> /\ LastTime(f[k]) = Second(k) /\ Sound(f[k], end, D, X)
      BY <1>3, <2>1, <2>2, <2>3, <3>1, PushSound
    <3>3. UpTo(f[k], c, S, k, end, D, X)
      BY <1>3, <2>1, <2>3, <3>2, UpToTakes
    <3> QED BY <2>1, <3>3 DEF T
  <2>4. CASE k \notin S
    <3>1. UpTo(f[k], c, S, k, end, D, X)
      BY <1>3, <2>1, <2>2, <2>4, UpToSkips
    <3> QED BY <2>1, <3>1 DEF T
  <2> QED BY <2>3, <2>4
<1>6. 0 .. latest \subseteq T
  <2> HIDE DEF T
  <2> QED BY <1>4, <1>5, Induction
<1>7. latest \in 0 .. latest
  OBVIOUS
<1> QED BY <1>1, <1>6, <1>7

-----------------------------------------------------------------------------
(* The inductive invariant *)

\* The rows the chart owes: those of the database that no tick has missed.
Owed == db \ missed

\* They, and the one that is being written.
Rows == (db \union ({job} \ {NoJob})) \ missed

\* A row that no answer holds, but the stream is still to send.
Late(s) == s = latest /\ grace = 0 /\ (up => slot = latest)

\* Nothing happens before the script runs, a job is a sample, and a request
\* goes on from the chart.
PageInv ==
    /\ federated \in BOOLEAN
    /\ job # NoJob => job \in 1 .. latest
    /\ page # "loaded" =>
         chart = <<>> /\ fetch = "none" /\ es = "none" /\ ~timer /\ ~hidden
    /\ fetch # "none" => since = Since(chart)

\* The slot of this instance follows its own collector.
SlotInv ==
    /\ job # NoJob => up /\ job = latest /\ slot = latest
    /\ slot \in {0, latest}
    /\ ~up => slot = 0 /\ es # "open"

\* The rows of S are all of the database between the first and the last.
Convex(S) == \A s \in db : \A p, q \in S : p <= s /\ s <= q => s \in S

\* What comes after an answer, or after a last point that is no cut, is either
\* in the answer or late.
AnswerInv ==
    fetch = "answered" =>
      /\ Convex(points)
      /\ \A p \in points : since <= p
      /\ \A s \in Rows :
           /\ LastTime(chart) \notin cut =>
                Second(s) <= LastTime(chart) \/ s \in points \/ Late(s)
           /\ \A p \in points : p <= s => s \in points \/ Late(s)

\* While the stream connects, what is not on the chart is late.
ConnectInv ==
    es = "connecting" /\ LastTime(chart) \notin cut =>
      \A s \in Rows : Second(s) <= LastTime(chart) \/ Late(s)

\* An open stream has put what it sent on the chart, and only the sample in the
\* slot is not there.
OpenInv ==
    es = "open" =>
      /\ sent # 0 => chart # <<>> /\ LastTime(chart) = Second(sent)
      /\ LastTime(chart) \notin cut =>
           \A s \in Rows : Second(s) <= LastTime(chart) \/ s = slot

LocalInv ==
    /\ Sound(chart, Second(latest), Owed, cut)
    /\ SlotInv /\ Convex(seed) /\ AnswerInv /\ ConnectInv /\ OpenInv

ChartInv == ChartTypeOK /\ PageInv /\ (~federated => LocalInv)

LEMMA ChartInvInit == ChartInit => ChartInv
<1> SUFFICES ASSUME ChartInit PROVE ChartInv
  OBVIOUS
<1>1. ChartTypeOK
  <2>1. <<>> \in Seq(Point)
    OBVIOUS
  <2>2. chart \in Seq(Point)
    BY <2>1 DEF ChartInit
  <2>3. {} \subseteq 1 .. 0 /\ 0 \in 0 .. 0
    OBVIOUS
  <2> QED BY <2>2, <2>3 DEF ChartInit, ChartTypeOK
<1>2. PageInv
  BY ChartAssumption DEF ChartInit, PageInv
<1>3. LocalInv
  <2>1. Sound(<<>>, Second(latest), Owed, cut)
    BY DEF Sound, Drawn, Ordered, Gapless
  <2> QED BY <2>1 DEF ChartInit, LocalInv, Owed, SlotInv, Convex, AnswerInv, ConnectInv, OpenInv
<1> QED BY <1>1, <1>2, <1>3 DEF ChartInv

-----------------------------------------------------------------------------
(* Types *)

\* What every step needs of the types.
LEMMA ChartFacts ==
    ASSUME ChartTypeOK, PageInv
    PROVE  /\ latest \in Nat /\ slot \in Nat /\ db \in SUBSET (1 .. latest)
           /\ Owed \subseteq db /\ Owed \subseteq Rows /\ Owed \in SUBSET (1 .. latest)
           /\ chart \in Seq(Point) /\ LastTime(chart) \in Nat /\ Since(chart) \in Nat
           /\ Second(latest) \in Nat /\ Rows \subseteq 1 .. latest
           /\ \A s \in 1 .. latest : Second(s) \in Nat /\ Second(s) <= Second(latest)
<1>1. /\ latest \in Nat /\ slot \in Nat /\ db \in SUBSET (1 .. latest)
      /\ chart \in Seq(Point) /\ (job # NoJob => job \in 1 .. latest)
  BY DEF ChartTypeOK, PageInv
<1>2. LastTime(chart) \in Nat /\ Second(latest) \in Nat
  BY <1>1, LastTimeNat, SecondFacts
<1>3. Since(chart) \in Nat
  BY <1>2, Products DEF Since
<1>4. \A s \in 1 .. latest : Second(s) \in Nat /\ Second(s) <= Second(latest)
  <2> SUFFICES ASSUME NEW s \in 1 .. latest
               PROVE Second(s) \in Nat /\ Second(s) <= Second(latest)
    OBVIOUS
  <2>1. s \in Nat /\ s <= latest
    BY <1>1
  <2> QED BY <1>1, <2>1, SecondFacts, SecondMono
<1> QED BY <1>1, <1>2, <1>3, <1>4 DEF Rows, Owed

\* What a seed and a backfill draw is a chart.
LEMMA DrawnTypes ==
    ASSUME ChartTypeOK
    PROVE  Seeded(seed) \in Seq(Point) /\ Extended(chart, points) \in Seq(Point)
<1>1. latest \in Nat /\ chart \in Seq(Point) /\ latest \in 0 .. latest
  BY DEF ChartTypeOK
<1>2. PICK f \in [0 .. latest -> Seq(Point)] : Seeded(seed) = f[latest]
  BY <1>1, SeededUnfold
<1>3. PICK g \in [0 .. latest -> Seq(Point)] : Extended(chart, points) = g[latest]
  BY <1>1, ExtendedUnfold
<1> QED BY <1>1, <1>2, <1>3

\* Every step keeps the types and the order of the page's steps.
LEMMA ChartTypesStep ==
    ASSUME ChartTypeOK, PageInv, [ChartNext]_chartVars
    PROVE  ChartTypeOK' /\ PageInv'
<1> USE DEF collector, request, stream, ghosts
<1>0. /\ latest \in Nat /\ LastTime(chart) \in Nat /\ Since(chart) \in Nat
      /\ db \subseteq 1 .. latest /\ slot \in 0 .. latest /\ missed \subseteq 0 .. latest
      /\ job # NoJob => job \in 1 .. latest
  BY ChartFacts DEF ChartTypeOK, PageInv
<1>1. CASE Publish
  <2>1. PICK d \in Steps : latest' = latest + d
    BY <1>1 DEF Publish
  <2>2. /\ latest' \in Nat /\ latest' >= 1
        /\ db \subseteq 1 .. latest' /\ slot \in 0 .. latest'
        /\ missed \subseteq 0 .. latest'
    BY <1>0, <2>1, ChartAssumption
  <2> QED BY <1>0, <1>1, <2>2 DEF Publish, ChartTypeOK, PageInv
<1>2. CASE Persist
  BY <1>0, <1>2 DEF Persist, ChartTypeOK, PageInv
<1>3. CASE PersistFails
  BY <1>0, <1>3 DEF PersistFails, Upset, ChartTypeOK, PageInv
<1>4. CASE Relay
  BY <1>0, <1>4 DEF Relay, ChartTypeOK, PageInv
<1>5. CASE Render
  BY <1>0, <1>5 DEF Render, Recent, ChartTypeOK, PageInv
<1>6. CASE Load
  <2>1. chart' \in Seq(Point)
    BY <1>6, DrawnTypes DEF Load
  <2>2. Since(chart') \in Nat
    BY <2>1, LastTimeNat, Products DEF Since
  <2> QED BY <1>0, <1>6, <2>1, <2>2 DEF Load, ConnectNow, ChartTypeOK, PageInv
<1>7. CASE Answer
  BY <1>0, <1>7 DEF Answer, Recent, ChartTypeOK, PageInv
<1>8. CASE AnswerLost
  BY <1>0, <1>8 DEF AnswerLost, Upset, ChartTypeOK, PageInv
<1>9. CASE Backfilled
  <2>1. chart' \in Seq(Point)
    BY <1>9, DrawnTypes DEF Backfilled
  <2> QED BY <1>0, <1>9, <2>1 DEF Backfilled, OpenUnlessHidden, ChartTypeOK, PageInv
<1>10. CASE Accept
  BY <1>0, <1>10 DEF Accept, ChartTypeOK, PageInv
<1>11. CASE Deliver
  <2>1. chart' \in Seq(Point)
    BY <1>0, <1>11, StepTypes DEF Deliver, ChartTypeOK
  <2> QED BY <1>0, <1>11, <2>1 DEF Deliver, ChartTypeOK, PageInv
<1>12. CASE Drop
  BY <1>0, <1>12 DEF Drop, Upset, OnError, ChartTypeOK, PageInv
<1>13. CASE Reconnect
  BY <1>0, <1>13 DEF Reconnect, ConnectNow, ChartTypeOK, PageInv
<1>14. CASE Hide
  BY <1>0, <1>14 DEF Hide, Upset, ChartTypeOK, PageInv
<1>15. CASE Show
  BY <1>0, <1>15 DEF Show, ConnectNow, ChartTypeOK, PageInv
<1>16. CASE Stop
  <2>1. 0 \in 0 .. latest
    BY <1>0
  <2>2. CASE es = "open"
    <3>1. fetch = "none" /\ page = "loaded"
      BY <2>2 DEF ChartTypeOK, PageInv
    <3>2. /\ es' = "none" /\ sent' = 0 /\ timer' = TRUE /\ up' = FALSE /\ slot' = 0
          /\ job' = IF federated THEN job ELSE NoJob
          /\ UNCHANGED <<federated, latest, db, page, seed, hidden, chart,
                         request, grace, cut, missed>>
      BY <1>16, <2>2 DEF Stop, OnError
    <3>3. ChartTypeOK'
      BY <1>0, <2>1, <3>1, <3>2 DEF ChartTypeOK
    <3>4. PageInv'
      BY <3>1, <3>2 DEF PageInv
    <3> QED BY <3>3, <3>4
  <2>3. CASE es # "open"
    BY <1>0, <1>16, <2>1, <2>3 DEF Stop, Upset, ChartTypeOK, PageInv, Since
  <2> QED BY <2>2, <2>3
<1>17. CASE Start
  BY <1>0, <1>17 DEF Start, ChartTypeOK, PageInv
<1>18. CASE UNCHANGED chartVars
  BY <1>18 DEF chartVars, ChartTypeOK, PageInv, Since, LastTime
<1> QED
  BY <1>1, <1>2, <1>3, <1>4, <1>5, <1>6, <1>7, <1>8, <1>9, <1>10, <1>11, <1>12,
     <1>13, <1>14, <1>15, <1>16, <1>17, <1>18 DEF ChartNext

-----------------------------------------------------------------------------
(* A chart stays sound when time goes on, when a row is stored that is not *)
(* older than what it shows, and when a backfill is cut off.               *)

LEMMA SoundGrows ==
    ASSUME NEW end \in Nat, NEW D \in SUBSET Nat, NEW X, NEW c, Sound(c, end, D, X),
           NEW end2 \in Nat, end <= end2, NEW X2, X \subseteq X2,
           NEW D2 \in SUBSET Nat, \A r \in D2 : r \in D \/ end <= Second(r)
    PROVE  Sound(c, end2, D2, X2)
<1>1. /\ c \in Seq(Point) /\ DOMAIN c = 1 .. Len(c) /\ Len(c) \in Nat
      /\ \A i \in DOMAIN c : c[i].t \in Nat /\ c[i].t <= end
  <2>1. c \in Seq(Point) /\ \A i \in DOMAIN c : c[i].t <= end
    BY DEF Sound, Drawn
  <2>2. \A i \in DOMAIN c : c[i] \in Point
    BY <2>1
  <2> QED BY <2>1, <2>2 DEF Point
<1>2. Drawn(c, end2)
  BY <1>1 DEF Sound, Drawn
<1>3. Gapless(c, D2, X2)
  <2> SUFFICES ASSUME NEW i \in DOMAIN c, NEW j \in DOMAIN c, Joined(c, i, j),
                      c[i].t \notin X2, NEW r \in D2,
                      c[i].t < Second(r), Second(r) < c[j].t
               PROVE FALSE
    BY DEF Gapless
  <2>1. Second(r) \in Nat
    BY SecondFacts
  <2>2. r \in D
    BY <1>1, <2>1
  <2> QED BY <2>2 DEF Sound, Gapless
<1> QED BY <1>2, <1>3 DEF Sound

-----------------------------------------------------------------------------
(* The chart of a host of this instance, step by step.  RoundTrip is the   *)
(* assumption that a persist and a page's request fit between two samples. *)

\* While nothing is asked of the slot by an open stream, a published sample is
\* the only late one; an open stream has caught up before.
LEMMA LocalPublish ==
    ASSUME ChartInv, ~federated, RoundTrip, Publish, ChartTypeOK', PageInv'
    PROVE  LocalInv'
<1> USE DEF collector, request, stream, ghosts
<1>0. /\ latest \in Nat /\ db \in SUBSET (1 .. latest) /\ Second(latest) \in Nat
      /\ Owed \subseteq db /\ Owed \subseteq Rows /\ Owed \in SUBSET (1 .. latest)
      /\ Rows \subseteq 1 .. latest /\ LocalInv /\ LastTime(chart) \in Nat
      /\ \A s \in 1 .. latest : Second(s) \in Nat
  BY ChartFacts DEF ChartInv
<1>1. /\ up /\ job = NoJob
      /\ fetch = "answered" \/ es = "connecting" => grace > 0
      /\ latest' \in Nat /\ latest < latest' /\ job' = latest' /\ slot' = latest'
      /\ grace' = IF grace > 0 THEN grace - 1 ELSE 0
      /\ UNCHANGED <<up, db, seed, chart, fetch, since, points, es, sent, cut>>
      /\ missed' = IF es = "open" /\ sent # slot THEN missed \union {slot} ELSE missed
  <2>1. PICK d \in Steps : latest' = latest + d
    BY DEF Publish
  <2>2. latest' \in Nat /\ latest < latest'
    BY <1>0, <2>1, ChartAssumption
  <2> QED BY <2>2 DEF Publish, InTime
<1>2. Sound(chart', Second(latest'), Owed', cut')
  <2>1. Second(latest') \in Nat /\ Second(latest) <= Second(latest')
    BY <1>0, <1>1, SecondFacts, SecondMono
  <2>2. Owed' \subseteq Owed
    BY <1>1 DEF Owed
  <2> QED BY <1>0, <1>1, <2>1, <2>2, SoundGrows DEF LocalInv
<1>3. SlotInv'
  BY <1>0, <1>1 DEF SlotInv, LocalInv
<1>4. Convex(seed)'
  BY <1>0, <1>1 DEF Convex, LocalInv
<1>5. /\ Rows' \subseteq Rows \union {latest'}
      /\ es = "open" /\ sent # slot => slot \notin Rows' \/ slot = latest'
  BY <1>1 DEF Rows
<1>6. ASSUME es = "connecting" \/ fetch = "answered"
      PROVE  /\ \A s \in Rows : ~Late(s)
             /\ Late(latest)'
  <2>1. grace = 1
    BY <1>1, <1>6 DEF ChartInv, ChartTypeOK
  <2> QED BY <1>1, <2>1 DEF Late
<1>7. AnswerInv'
  BY <1>0, <1>1, <1>5, <1>6 DEF AnswerInv, Convex, LocalInv
<1>8. ConnectInv'
  BY <1>0, <1>1, <1>5, <1>6 DEF ConnectInv, LocalInv
<1>9. OpenInv'
  <2> SUFFICES ASSUME es = "open"
               PROVE /\ sent # 0 => chart # <<>> /\ LastTime(chart) = Second(sent)
                     /\ LastTime(chart) \notin cut =>
                          \A s \in Rows' : Second(s) <= LastTime(chart) \/ s = slot'
    BY <1>1 DEF OpenInv, LastTime
  <2>1. OpenInv
    BY <1>0 DEF LocalInv
  <2>2. ASSUME NEW s \in Rows, s = slot, sent = slot PROVE Second(s) <= LastTime(chart)
    <3>1. sent # 0
      BY <1>0, <2>1, <2>2
    <3> QED BY <1>0, <2>1, <2>2, <3>1 DEF OpenInv
  <2> QED BY <1>1, <1>5, <2>1, <2>2 DEF OpenInv
<1> QED BY <1>2, <1>3, <1>4, <1>7, <1>8, <1>9 DEF LocalInv

\* A job that ends leaves the rows as they were or one less.
LEMMA LocalPersist ==
    ASSUME ChartInv, ~federated, Persist \/ PersistFails, ChartTypeOK', PageInv'
    PROVE  LocalInv'
<1> USE DEF collector, request, stream, ghosts
<1>0. /\ latest \in Nat /\ db \in SUBSET (1 .. latest) /\ Second(latest) \in Nat
      /\ Owed \subseteq db /\ Owed \subseteq Rows /\ Owed \in SUBSET (1 .. latest)
      /\ Rows \subseteq 1 .. latest /\ LocalInv
  BY ChartFacts DEF ChartInv
<1>1. /\ job # NoJob /\ job = latest /\ job' = NoJob
      /\ db' = db \/ db' = db \union {job}
      /\ UNCHANGED <<up, latest, slot, seed, chart, fetch, since, points, es,
                     sent, grace, cut, missed>>
  BY <1>0 DEF Persist, PersistFails, Upset, LocalInv, SlotInv
<1>2. Rows' \subseteq Rows /\ Owed' \subseteq Rows /\ db \subseteq db'
  BY <1>1 DEF Rows, Owed
<1>3. \A s \in Rows : Late(s) => Late(s)'
  BY <1>1 DEF Late
<1>4. Sound(chart', Second(latest'), Owed', cut')
  <2>1. \A r \in Owed' : r \in Owed \/ Second(latest) <= Second(r)
    BY <1>0, <1>1 DEF Owed
  <2>2. Owed' \in SUBSET Nat
    BY <1>0, <1>2
  <2> QED BY <1>0, <1>1, <2>1, <2>2, SoundGrows DEF LocalInv
<1>5. SlotInv'
  BY <1>0, <1>1 DEF SlotInv, LocalInv
<1>6. ASSUME NEW S \in SUBSET db, Convex(S) PROVE \A s \in db' : \A p, q \in S :
             p <= s /\ s <= q => s \in S
  <2> SUFFICES ASSUME NEW s \in db', NEW p \in S, NEW q \in S, p <= s, s <= q
               PROVE s \in S
    OBVIOUS
  <2>1. CASE s \in db
    BY <1>6, <2>1 DEF Convex
  <2>2. CASE s = latest
    <3>1. q = s
      BY <1>0, <2>2
    <3> QED BY <3>1
  <2> QED BY <1>1, <2>1, <2>2
<1>7. seed \subseteq db /\ points \subseteq db
  BY DEF ChartInv, ChartTypeOK
<1>8. Convex(seed)' /\ (fetch = "answered" => Convex(points)')
  BY <1>0, <1>1, <1>6, <1>7 DEF Convex, LocalInv, AnswerInv
<1>9. AnswerInv'
  BY <1>0, <1>1, <1>2, <1>3, <1>8 DEF AnswerInv, LocalInv, LastTime
<1>10. ConnectInv'
  BY <1>0, <1>1, <1>2, <1>3 DEF ConnectInv, LocalInv, LastTime
<1>11. OpenInv'
  BY <1>0, <1>1, <1>2, <1>3 DEF OpenInv, LocalInv, LastTime
<1> QED BY <1>4, <1>5, <1>8, <1>9, <1>10, <1>11 DEF LocalInv

\* A page is rendered from what the database holds.
LEMMA LocalRender ==
    ASSUME ChartInv, ~federated, Render, ChartTypeOK', PageInv'
    PROVE  LocalInv'
<1> USE DEF collector, request, stream, ghosts
<1>0. /\ latest \in Nat /\ db \in SUBSET (1 .. latest)
      /\ WindowStart \in Nat /\ LocalInv
  BY ChartFacts, ChartAssumption DEF ChartInv, WindowStart
<1>1. /\ seed' = {s \in db : s >= WindowStart}
      /\ UNCHANGED <<up, latest, job, db, slot, chart, fetch, since, points, es,
                     sent, grace, cut, missed>>
  BY DEF Render, Recent
<1>2. Convex(seed)'
  <2> SUFFICES ASSUME NEW s \in db, NEW p \in seed', NEW q \in seed', p <= s, s <= q
               PROVE s \in seed'
    BY <1>1 DEF Convex
  <2>1. s \in Nat /\ p \in Nat /\ p >= WindowStart
    BY <1>0, <1>1
  <2> QED BY <1>0, <1>1, <2>1
<1> QED
  BY <1>0, <1>1, <1>2 DEF LocalInv, Owed, SlotInv, Convex, AnswerInv, ConnectInv, OpenInv,
     Rows, Owed, Late, LastTime, Second

\* The seed is drawn on an empty chart, and nothing is under way yet.
LEMMA LocalLoad ==
    ASSUME ChartInv, ~federated, Load, ChartTypeOK', PageInv'
    PROVE  LocalInv'
<1> USE DEF collector, request, stream, ghosts
<1>0. /\ latest \in Nat /\ db \in SUBSET (1 .. latest) /\ Second(latest) \in Nat
      /\ Owed \subseteq db /\ Owed \subseteq Rows /\ Owed \in SUBSET (1 .. latest)
      /\ \A s \in 1 .. latest : Second(s) \in Nat /\ Second(s) <= Second(latest)
      /\ LocalInv /\ seed \subseteq db
      /\ fetch = "none" /\ es = "none"
  BY ChartFacts DEF ChartInv, ChartTypeOK, PageInv, Load
<1>1. /\ chart' = Seeded(seed) /\ seed' = {}
      /\ fetch' \in {"none", "asked"}
      /\ UNCHANGED <<up, latest, job, db, slot, es, sent, grace, cut, missed>>
  BY <1>0 DEF Load, ConnectNow
<1>2. Feeds(<<>>, seed, Second(latest), Owed, cut)
  <2>1. Sound(<<>>, Second(latest), Owed, cut)
    BY DEF Sound, Drawn, Ordered, Gapless
  <2>2. LastTime(<<>>) = 0
    BY DEF LastTime
  <2>3. \A p \in db : p # Hole /\ Second(p) <= Second(latest) /\ 0 <= Second(p)
    BY <1>0 DEF Hole
  <2> QED BY <1>0, <2>1, <2>2, <2>3 DEF Feeds, LocalInv, Convex
<1>3. Sound(chart', Second(latest'), Owed', cut')
  <2>1. UpTo(Seeded(seed), <<>>, seed, latest, Second(latest), Owed, cut)
    BY <1>0, <1>2, SeededSound
  <2> QED BY <1>1, <2>1 DEF UpTo, Owed
<1> QED
  BY <1>0, <1>1, <1>3 DEF LocalInv, Owed, SlotInv, Convex, AnswerInv, ConnectInv, OpenInv

\* An answer holds every row that comes after the last point, or else that
\* point is a cut.
LEMMA LocalAnswer ==
    ASSUME ChartInv, ~federated, Answer, ChartTypeOK', PageInv'
    PROVE  LocalInv'
<1> USE DEF collector, request, stream, ghosts
<1>0. /\ latest \in Nat /\ db \in SUBSET (1 .. latest) /\ Second(latest) \in Nat
      /\ Owed \subseteq db /\ Owed \subseteq Rows /\ Owed \in SUBSET (1 .. latest)
      /\ LastTime(chart) \in Nat /\ Since(chart) \in Nat
      /\ \A s \in 1 .. latest : Second(s) \in Nat
      /\ LocalInv /\ up /\ fetch = "asked" /\ es = "none" /\ since = Since(chart)
  BY ChartFacts DEF ChartInv, ChartTypeOK, PageInv, Answer
<1>1. /\ fetch' = "answered" /\ points' = {s \in db : s >= Clamped(since)}
      /\ grace' = IF job = NoJob THEN 1 ELSE 0
      /\ cut' = IF Clamped(since) > since THEN cut \union {LastTime(chart)} ELSE cut
      /\ UNCHANGED <<up, latest, job, db, slot, seed, chart, since, es, sent, missed>>
  BY DEF Answer, Recent
<1>2. Clamped(since) \in Nat /\ since <= Clamped(since)
  BY <1>0, ChartAssumption DEF Clamped, WindowStart
<1>3. Sound(chart', Second(latest'), Owed', cut')
  <2>1. cut \subseteq cut' /\ Owed \in SUBSET Nat /\ Owed' = Owed
    BY <1>0, <1>1 DEF Owed
  <2> QED BY <1>0, <1>1, <2>1, SoundGrows DEF LocalInv
<1>4. ASSUME NEW s \in Rows PROVE s \in db \/ Late(s)'
  <2>1. s \in db \/ (s = job /\ job # NoJob)
    BY DEF Rows
  <2>2. CASE s = job /\ job # NoJob
    BY <1>0, <1>1, <2>2 DEF LocalInv, Owed, SlotInv, Late
  <2> QED BY <2>1, <2>2
<1>5. ASSUME NEW s \in db, NEW p \in points', p <= s PROVE s \in points'
  <2>1. s \in Nat /\ p \in Nat /\ p >= Clamped(since)
    BY <1>0, <1>1
  <2> QED BY <1>1, <1>2, <1>5, <2>1
<1>6. ASSUME LastTime(chart) \notin cut', NEW s \in db, LastTime(chart) < Second(s)
      PROVE s \in points'
  <2>1. Clamped(since) = since
    BY <1>0, <1>1, <1>2, <1>6
  <2>2. s \in Nat /\ since <= s
    BY <1>0, <1>6, SinceCovers DEF Since
  <2> QED BY <1>0, <1>1, <2>1, <2>2
<1>7. AnswerInv'
  <2>1. Convex(points)'
    BY <1>1, <1>5 DEF Convex
  <2>2. \A p \in points' : since <= p
    BY <1>0, <1>1, <1>2
  <2>3. Rows' = Rows /\ LastTime(chart)' = LastTime(chart)
    BY <1>1 DEF Rows, LastTime
  <2>4. ASSUME NEW s \in Rows, LastTime(chart) \notin cut'
        PROVE Second(s) <= LastTime(chart) \/ s \in points' \/ Late(s)'
    <3>1. CASE s \in db
      <4>1. Second(s) \in Nat
        BY <1>0, <3>1
      <4> QED BY <1>0, <1>6, <2>4, <3>1, <4>1
    <3>2. CASE s \notin db
      BY <1>4, <3>2
    <3> QED BY <3>1, <3>2
  <2>5. ASSUME NEW s \in Rows, NEW p \in points', p <= s
        PROVE s \in points' \/ Late(s)'
    BY <1>4, <1>5, <2>5
  <2> QED BY <1>1, <2>1, <2>2, <2>3, <2>4, <2>5 DEF AnswerInv
<1> QED
  BY <1>0, <1>1, <1>3, <1>7 DEF LocalInv, Owed, SlotInv, Convex, ConnectInv, OpenInv

\* Without an answer the last point is a cut.
LEMMA LocalAnswerLost ==
    ASSUME ChartInv, ~federated, AnswerLost, ChartTypeOK', PageInv'
    PROVE  LocalInv'
<1> USE DEF collector, request, stream, ghosts
<1>0. /\ latest \in Nat /\ db \in SUBSET (1 .. latest) /\ Second(latest) \in Nat
      /\ Owed \subseteq db /\ Owed \subseteq Rows /\ Owed \in SUBSET (1 .. latest)
      /\ LocalInv /\ es = "none"
  BY ChartFacts DEF ChartInv, ChartTypeOK, AnswerLost
<1>1. /\ fetch' = "answered" /\ points' = {} /\ cut' = cut \union {LastTime(chart)}
      /\ UNCHANGED <<up, latest, job, db, slot, seed, chart, es, sent, missed>>
  BY DEF AnswerLost
<1>2. Sound(chart', Second(latest'), Owed', cut')
  <2>1. cut \subseteq cut' /\ Owed \in SUBSET Nat /\ Owed' = Owed
    BY <1>0, <1>1 DEF Owed
  <2> QED BY <1>0, <1>1, <2>1, SoundGrows DEF LocalInv
<1>3. LastTime(chart)' \in cut'
  BY <1>1 DEF LastTime
<1> QED
  BY <1>0, <1>1, <1>2, <1>3 DEF LocalInv, Owed, SlotInv, Convex, AnswerInv, ConnectInv, OpenInv

\* A backfill goes on from the last point; what is not on the chart then is late.
LEMMA LocalBackfilled ==
    ASSUME ChartInv, ~federated, Backfilled, ChartTypeOK', PageInv'
    PROVE  LocalInv'
<1> USE DEF collector, request, stream, ghosts
<1>0. /\ latest \in Nat /\ db \in SUBSET (1 .. latest) /\ Second(latest) \in Nat
      /\ Owed \subseteq db /\ Owed \subseteq Rows /\ Owed \in SUBSET (1 .. latest)
      /\ LastTime(chart) \in Nat /\ Rows \subseteq 1 .. latest
      /\ \A s \in 1 .. latest : Second(s) \in Nat /\ Second(s) <= Second(latest)
      /\ LocalInv /\ AnswerInv /\ fetch = "answered" /\ points \subseteq db
      /\ since = Since(chart) /\ es = "none"
  BY ChartFacts DEF ChartInv, ChartTypeOK, PageInv, Backfilled, LocalInv
<1>1. /\ chart' = Extended(chart, points) /\ fetch' = "none"
      /\ es' \in {"none", "connecting"}
      /\ UNCHANGED <<up, latest, job, db, slot, seed, grace, cut, missed>>
  BY <1>0 DEF Backfilled, OpenUnlessHidden
<1>2. Feeds(chart, points, Second(latest), Owed, cut)
  <2>1. \A p \in db : p # Hole /\ Second(p) <= Second(latest)
    BY <1>0 DEF Hole
  <2>2. ASSUME NEW p \in points PROVE LastTime(chart) <= Second(p)
    <3>1. p \in Nat /\ since <= p
      BY <1>0 DEF AnswerInv
    <3> QED BY <1>0, <3>1, SinceCovers DEF Since
  <2>3. ASSUME LastTime(chart) \notin cut, NEW r \in Owed
        PROVE Second(r) <= LastTime(chart) \/ r \in points \/ \A p \in points : p <= r
    <3>1. r \in Rows
      BY <1>0
    <3>2. Late(r) => \A p \in points : p <= r
      BY <1>0 DEF Late
    <3> QED BY <1>0, <2>3, <3>1, <3>2 DEF AnswerInv
  <2> QED BY <1>0, <2>1, <2>2, <2>3 DEF Feeds, LocalInv, AnswerInv, Convex
<1>3. UpTo(chart', chart, points, latest, Second(latest), Owed, cut)
  BY <1>0, <1>1, <1>2, ExtendedSound
<1>4. Sound(chart', Second(latest'), Owed', cut')
  BY <1>1, <1>3 DEF UpTo, Owed
<1>5. ConnectInv'
  <2> SUFFICES ASSUME LastTime(chart') \notin cut, NEW s \in Rows
               PROVE Second(s) <= LastTime(chart') \/ Late(s)
    BY <1>1 DEF ConnectInv, Rows, Late
  <2>1. ASSUME s \in points PROVE Second(s) <= LastTime(chart')
    <3>1. s <= latest
      BY <1>0
    <3> QED BY <1>3, <2>1, <3>1 DEF UpTo
  <2>2. CASE chart' = chart
    BY <1>0, <2>1, <2>2 DEF AnswerInv
  <2>3. CASE \E p \in points : p <= latest /\ LastTime(chart') = Second(p)
    <3>1. PICK p \in points : LastTime(chart') = Second(p)
      BY <2>3
    <3>2. s \in Nat /\ p \in Nat
      BY <1>0
    <3>3. CASE p <= s
      BY <1>0, <2>1, <3>3 DEF AnswerInv
    <3>4. CASE s <= p
      BY <3>1, <3>2, <3>4, SecondMono
    <3> QED BY <3>2, <3>3, <3>4
  <2> QED BY <1>3, <2>2, <2>3 DEF UpTo
<1> QED
  BY <1>0, <1>1, <1>4, <1>5 DEF LocalInv, Owed, SlotInv, Convex, AnswerInv, OpenInv

\* What is late when the stream opens is in the slot.
LEMMA LocalAccept ==
    ASSUME ChartInv, ~federated, Accept, ChartTypeOK', PageInv'
    PROVE  LocalInv'
<1> USE DEF collector, request, stream, ghosts
<1>0. LocalInv /\ fetch = "none" /\ es = "connecting" /\ up
  BY DEF ChartInv, ChartTypeOK, Accept
<1>1. /\ es' = "open" /\ sent' = 0
      /\ UNCHANGED <<up, latest, job, db, slot, seed, chart, fetch, grace, cut, missed>>
  BY DEF Accept
<1>2. OpenInv'
  <2> SUFFICES ASSUME LastTime(chart) \notin cut, NEW s \in Rows
               PROVE Second(s) <= LastTime(chart) \/ s = slot
    BY <1>1 DEF OpenInv, Rows, LastTime
  <2> QED BY <1>0 DEF LocalInv, ConnectInv, Late
<1> QED
  BY <1>0, <1>1, <1>2 DEF LocalInv, Owed, SlotInv, Convex, AnswerInv, ConnectInv, Second

\* The stream sends the newest sample, and every other one is on the chart.
LEMMA LocalDeliver ==
    ASSUME ChartInv, ~federated, Deliver, ChartTypeOK', PageInv'
    PROVE  LocalInv'
<1> USE DEF collector, request, stream, ghosts
<1>0. /\ latest \in Nat /\ db \in SUBSET (1 .. latest) /\ Second(latest) \in Nat
      /\ Owed \subseteq db /\ Owed \subseteq Rows /\ Owed \in SUBSET (1 .. latest)
      /\ Rows \subseteq 1 .. latest
      /\ LastTime(chart) \in Nat /\ LocalInv /\ OpenInv /\ fetch = "none"
      /\ \A s \in 1 .. latest : Second(s) \in Nat /\ Second(s) <= Second(latest)
  BY ChartFacts DEF ChartInv, ChartTypeOK, Deliver, LocalInv
<1>1. /\ es = "open" /\ up /\ slot # 0 /\ slot = latest
      /\ sent' = slot /\ chart' = Push(chart, slot)
      /\ UNCHANGED <<up, latest, job, db, slot, seed, fetch, es, grace, cut, missed>>
  BY <1>0 DEF Deliver, LocalInv, SlotInv
<1>2. MayFollow(chart, slot, Second(latest), Owed, cut)
  <2>1. LastTime(chart) <= Second(latest)
    <3>1. CASE chart = <<>>
      BY <1>0, <3>1 DEF LastTime
    <3>2. CASE chart # <<>>
      <4>1. Len(chart) \in DOMAIN chart
        BY <3>2 DEF ChartInv, ChartTypeOK
      <4> QED BY <1>0, <3>2, <4>1 DEF LocalInv, Sound, Drawn, LastTime
    <3> QED BY <3>1, <3>2
  <2>2. ASSUME LastTime(chart) \notin cut, NEW r \in Owed
        PROVE ~(LastTime(chart) < Second(r) /\ Second(r) < Second(slot))
    <3>1. r \in Rows /\ Second(r) \in Nat
      BY <1>0
    <3>2. Second(r) <= LastTime(chart) \/ r = slot
      BY <1>0, <1>1, <2>2, <3>1 DEF OpenInv
    <3> QED BY <1>0, <3>1, <3>2
  <2> QED BY <1>0, <1>1, <2>1, <2>2 DEF MayFollow, Hole
<1>3. /\ chart' # <<>> /\ LastTime(chart') = Second(slot)
      /\ Sound(chart', Second(latest), Owed, cut)
  BY <1>0, <1>1, <1>2, PushSound DEF LocalInv
<1>4. OpenInv'
  <2>1. \A s \in Rows : Second(s) <= LastTime(chart')
    BY <1>0, <1>1, <1>3
  <2>2. Rows' = Rows
    BY <1>1 DEF Rows
  <2> QED BY <1>1, <1>3, <2>1, <2>2 DEF OpenInv
<1> QED
  BY <1>0, <1>1, <1>3, <1>4 DEF LocalInv, Owed, SlotInv, Convex, AnswerInv, ConnectInv

\* Ending a connection or asking again promises nothing about the chart.
LEMMA LocalBreak ==
    ASSUME ChartInv, ~federated, Drop \/ Reconnect \/ Hide \/ Show,
           ChartTypeOK', PageInv'
    PROVE  LocalInv'
<1> USE DEF collector, request, stream, ghosts
<1>0. LocalInv /\ es \in {"none", "connecting", "open"}
  BY DEF ChartInv, ChartTypeOK
<1>1. /\ UNCHANGED <<up, latest, job, db, slot, seed, chart, grace, cut, missed>>
      /\ fetch' = "asked" \/ UNCHANGED request
      /\ es' = "none" \/ UNCHANGED stream
  BY DEF Drop, Reconnect, Hide, Show, OnError, ConnectNow, Upset
<1>2. Rows' = Rows /\ LastTime(chart)' = LastTime(chart) /\ \A s : Late(s)' = Late(s)
  BY <1>1 DEF Rows, LastTime, Late
<1>3. AnswerInv'
  BY <1>0, <1>1, <1>2 DEF LocalInv, AnswerInv, Convex
<1>4. ConnectInv' /\ OpenInv'
  BY <1>0, <1>1, <1>2 DEF LocalInv, ConnectInv, OpenInv
<1> QED BY <1>0, <1>1, <1>3, <1>4 DEF LocalInv, Owed, SlotInv, Convex

\* With the process go its slot, its job and its streams.
LEMMA LocalStop ==
    ASSUME ChartInv, ~federated, Stop, ChartTypeOK', PageInv'
    PROVE  LocalInv'
<1> USE DEF collector, request, stream, ghosts
<1>0. LocalInv /\ es \in {"none", "connecting", "open"}
  BY DEF ChartInv, ChartTypeOK
<1>1. /\ up' = FALSE /\ slot' = 0 /\ job' = NoJob
      /\ es' # "open" /\ (es' = "none" \/ es' = es)
      /\ UNCHANGED <<latest, db, seed, chart, request, grace, cut, missed>>
  BY <1>0 DEF Stop, OnError
<1>2. Rows' \subseteq Rows /\ LastTime(chart)' = LastTime(chart)
      /\ \A s : Late(s) => Late(s)'
  BY <1>1 DEF Rows, LastTime, Late
<1>3. AnswerInv' /\ ConnectInv'
  BY <1>0, <1>1, <1>2 DEF LocalInv, AnswerInv, ConnectInv, Convex
<1> QED BY <1>0, <1>1, <1>3 DEF LocalInv, Owed, SlotInv, OpenInv, Convex

\* By the time it is back, no answer of its predecessor is waiting.
LEMMA LocalStart ==
    ASSUME ChartInv, ~federated, RoundTrip, Start, ChartTypeOK', PageInv'
    PROVE  LocalInv'
<1> USE DEF collector, request, stream, ghosts
<1>0. LocalInv /\ ~up /\ fetch # "answered" /\ es # "connecting"
  BY DEF ChartInv, Start
<1>1. /\ up' = TRUE
      /\ UNCHANGED <<latest, job, db, slot, seed, chart, fetch, es, grace, cut, missed>>
  BY DEF Start
<1> QED
  BY <1>0, <1>1 DEF LocalInv, Owed, SlotInv, Convex, AnswerInv, ConnectInv, OpenInv

LEMMA LocalStep ==
    ASSUME ChartInv, ~federated, RoundTrip, [ChartNext]_chartVars,
           ChartTypeOK', PageInv'
    PROVE  LocalInv'
<1>1. CASE ~(UNCHANGED chartVars \/ Relay)
  BY <1>1, LocalPublish, LocalPersist, LocalRender, LocalLoad, LocalAnswer,
     LocalAnswerLost, LocalBackfilled, LocalAccept, LocalDeliver, LocalBreak,
     LocalStop, LocalStart DEF ChartNext
<1>2. CASE Relay
  BY <1>2 DEF Relay
<1>3. CASE UNCHANGED chartVars
  <2>1. LocalInv
    BY DEF ChartInv
  <2>2. UNCHANGED <<up, latest, job, db, slot, seed, chart, fetch, since, points, es,
                    sent, grace, cut, missed>>
    BY <1>3 DEF chartVars, collector, request, stream, ghosts
  <2>3. Rows' = Rows /\ LastTime(chart)' = LastTime(chart) /\ \A s : Late(s)' = Late(s)
    BY <2>2 DEF Rows, LastTime, Late
  <2>4. AnswerInv' /\ ConnectInv' /\ OpenInv'
    BY <2>1, <2>2, <2>3 DEF LocalInv, AnswerInv, ConnectInv, OpenInv, Convex
  <2> QED BY <2>1, <2>2, <2>4 DEF LocalInv, Owed, SlotInv, Convex
<1> QED BY <1>1, <1>2, <1>3

-----------------------------------------------------------------------------
(* Theorems *)

\* Types, for every instance: a hidden page holds no connection, and a request
\* and a stream never run at the same time (connect() and disconnect() of
\* live.js).
THEOREM ChartTypeCorrect == ChartSpec => []ChartTypeOK
<1>1. ChartInit => ChartTypeOK /\ PageInv
  BY ChartInvInit DEF ChartInv
<1>2. ChartTypeOK /\ PageInv /\ [ChartNext]_chartVars => (ChartTypeOK /\ PageInv)'
  BY ChartTypesStep
<1> QED BY <1>1, <1>2, PTL DEF ChartSpec

\* With a persist and a page's round trip between two samples, seed, backfill
\* and stream meet: what the chart does not hold yet is in the answer under way
\* or in the slot (collector::run publishes before it persists).
THEOREM ChartInvHolds == RoundTrip => (ChartSpec => []ChartInv)
<1> SUFFICES ASSUME RoundTrip PROVE ChartSpec => []ChartInv
  OBVIOUS
<1>1. ChartInv /\ [ChartNext]_chartVars => ChartInv'
  <2> SUFFICES ASSUME ChartInv, [ChartNext]_chartVars PROVE ChartInv'
    OBVIOUS
  <2>1. ChartTypeOK' /\ PageInv'
    BY ChartTypesStep DEF ChartInv
  <2>2. federated' = federated
    BY DEF ChartNext, chartVars, collector, Publish, Persist, PersistFails, Relay,
       Render, Load, Answer, AnswerLost, Backfilled, Accept, Deliver, Drop,
       Reconnect, Hide, Show, Stop, Start
  <2>3. ~federated => LocalInv'
    BY <2>1, LocalStep
  <2> QED BY <2>1, <2>2, <2>3 DEF ChartInv
<1> QED BY <1>1, ChartInvInit, PTL DEF ChartSpec

\* So the chart of a host of this instance is in order and without a missing
\* sample, but after a backfill that failed or was cut off (live.js).
THEOREM ChartIsSeamless == RoundTrip => (ChartSpec => []Seamless)
<1>1. ChartInv => Seamless
  BY DEF ChartInv, LocalInv, Owed, Sound, Ordered, Gapless, Seamless, TimestampOrder
<1> QED BY <1>1, ChartInvHolds, PTL

=============================================================================
