---------------------------- MODULE StackProofs ----------------------------
(***************************************************************************)
(* Theorems about stack actions: their types, what topo_order returns, the *)
(* order of stops and starts, the waits for healthchecks and the outcome   *)
(* that is reported.                                                       *)
(***************************************************************************)
EXTENDS StackAction, FiniteSetTheorems, SequenceTheorems, TLAPS

-----------------------------------------------------------------------------
(* Recursive functions on 0 .. n: induction from the least counterexample, *)
(* which a well-founded order of finite sets provides.                     *)

\* A set of natural numbers that is not empty has a least member.
LEMMA LeastNat ==
  ASSUME NEW T \in SUBSET Nat, T # {}
  PROVE \E x \in T : \A y \in T : x <= y
<1> DEFINE W == {0 .. n : n \in T}
<1>1. W \subseteq FiniteSubsetsOf(Nat)
  <2> SUFFICES ASSUME NEW n \in T PROVE 0 .. n \in FiniteSubsetsOf(Nat)
    OBVIOUS
  <2>1. IsFiniteSet(0 .. n) /\ 0 .. n \in SUBSET Nat
    BY FS_Interval
  <2> QED BY <2>1 DEF FiniteSubsetsOf
<1>2. W # {}
  OBVIOUS
<1>3. IsWellFoundedOn(StrictSubsetOrdering(Nat), FiniteSubsetsOf(Nat))
  BY FS_StrictSubsetOrderingWellFounded
<1>4. PICK A \in W : \A B \in W : ~(<<B, A>> \in StrictSubsetOrdering(Nat))
  <2> HIDE DEF W
  <2> QED BY <1>1, <1>2, <1>3, WFMin
<1>5. PICK n \in T : A = 0 .. n
  BY <1>4
<1>6. ASSUME NEW m \in T, m < n PROVE FALSE
  <2>1. 0 .. m \in W
    OBVIOUS
  <2>2. <<0 .. m, A>> \in StrictSubsetOrdering(Nat)
    <3>1. 0 .. m \in SUBSET Nat /\ A \in SUBSET Nat /\ 0 .. m \subseteq A
      BY <1>5, <1>6
    <3>2. n \in A /\ n \notin 0 .. m
      BY <1>5, <1>6
    <3> QED BY <3>1, <3>2 DEF StrictSubsetOrdering
  <2> QED BY <1>4, <2>1, <2>2
<1> QED BY <1>6

\* Induction: a set of numbers that has 0 and, below n, every successor.
LEMMA Induction ==
  ASSUME NEW n \in Nat, NEW T, 0 \in T,
         \A k \in 1 .. n : k - 1 \in T => k \in T
  PROVE 0 .. n \subseteq T
<1> DEFINE F == (0 .. n) \ T
<1> SUFFICES ASSUME F # {} PROVE FALSE
  OBVIOUS
<1>1. F \in SUBSET Nat
  OBVIOUS
<1>2. PICK k \in F : \A j \in F : k <= j
  <2> HIDE DEF F
  <2> QED BY <1>1, LeastNat
<1>3. k \in 1 .. n
  BY <1>2
<1>4. k - 1 \in T
  BY <1>2, <1>3
<1> QED BY <1>2, <1>3, <1>4

\* f is the recursive function on 0 .. j with this base and these steps.
Solves(f, j, base, step) ==
    f = [k \in 0 .. j |-> IF k = 0 THEN base ELSE step[k][f[k - 1]]]

\* There is a recursive function for every base and steps of a type.
LEMMA Recursion ==
  ASSUME NEW n \in Nat, NEW S, NEW base \in S, NEW step \in [1 .. n -> [S -> S]]
  PROVE \E f \in [0 .. n -> S] : Solves(f, n, base, step)
<1> DEFINE T == {j \in 0 .. n : \E f \in [0 .. j -> S] : Solves(f, j, base, step)}
<1>1. 0 \in T
  <2>1. [k \in 0 .. 0 |-> base] \in [0 .. 0 -> S]
    OBVIOUS
  <2>2. Solves([k \in 0 .. 0 |-> base], 0, base, step)
    BY DEF Solves
  <2>3. \E f \in [0 .. 0 -> S] : Solves(f, 0, base, step)
    BY <2>1, <2>2
  <2> QED BY <2>3
<1>2. ASSUME NEW j \in 1 .. n, j - 1 \in T PROVE j \in T
  <2>1. PICK f \in [0 .. j - 1 -> S] : Solves(f, j - 1, base, step)
    BY <1>2
  <2> DEFINE g == [k \in 0 .. j |-> IF k = j THEN step[j][f[j - 1]] ELSE f[k]]
  <2>2. step[j][f[j - 1]] \in S
    BY <2>1
  <2>3. g \in [0 .. j -> S]
    BY <2>1, <2>2
  <2>4. ASSUME NEW k \in 0 .. j
        PROVE g[k] = IF k = 0 THEN base ELSE step[k][g[k - 1]]
    <3>1. CASE k = j
      BY <3>1
    <3>2. CASE k # j
      <4>1. k \in 0 .. j - 1 /\ g[k] = f[k] /\ (k # 0 => g[k - 1] = f[k - 1])
        BY <3>2
      <4>2. f[k] = IF k = 0 THEN base ELSE step[k][f[k - 1]]
        BY <2>1, <4>1 DEF Solves
      <4> QED BY <4>1, <4>2
    <3> QED BY <3>1, <3>2
  <2>5. Solves(g, j, base, step)
    BY <2>4, Zenon DEF Solves
  <2>6. \E h \in [0 .. j -> S] : Solves(h, j, base, step)
    <3> HIDE DEF g
    <3> QED BY <2>3, <2>5
  <2> QED BY <2>6
<1>3. 0 .. n \subseteq T
  <2> HIDE DEF T
  <2> QED BY <1>1, <1>2, Induction
<1>4. n \in T
  BY <1>3
<1> QED BY <1>4

-----------------------------------------------------------------------------
\* The range of a sequence that is extended.
LEMMA RangeAppend ==
  ASSUME NEW X, NEW s \in Seq(X), NEW x \in X
  PROVE Append(s, x) \in Seq(X) /\ Range(Append(s, x)) = Range(s) \union {x}
<1>1. Append(s, x) \in Seq(X) /\ Len(Append(s, x)) = Len(s) + 1
      /\ DOMAIN Append(s, x) = 1 .. Len(s) + 1 /\ DOMAIN s = 1 .. Len(s)
      /\ Len(s) \in Nat
  OBVIOUS
<1>2. \A i \in 1 .. Len(s) + 1 : Append(s, x)[i] = IF i <= Len(s) THEN s[i] ELSE x
  OBVIOUS
<1> HIDE DEF Append
<1>3. ASSUME NEW y \in Range(s) \union {x} PROVE y \in Range(Append(s, x))
  <2>1. CASE y = x
    <3>1. Len(s) + 1 \in DOMAIN Append(s, x) /\ Append(s, x)[Len(s) + 1] = x
      BY <1>1, <1>2
    <3> QED BY <2>1, <3>1 DEF Range
  <2>2. CASE y \in Range(s)
    <3>1. PICK i \in 1 .. Len(s) : s[i] = y
      BY <1>1, <2>2 DEF Range
    <3>2. i \in DOMAIN Append(s, x) /\ Append(s, x)[i] = y
      BY <1>1, <1>2, <3>1
    <3> QED BY <3>2 DEF Range
  <2> QED BY <2>1, <2>2
<1>4. ASSUME NEW y \in Range(Append(s, x)) PROVE y \in Range(s) \union {x}
  <2>1. PICK i \in 1 .. Len(s) + 1 : Append(s, x)[i] = y
    BY <1>1 DEF Range
  <2> QED BY <1>1, <1>2, <2>1 DEF Range
<1> QED BY <1>1, <1>3, <1>4

\* Only leaves of a sequence what is in the set.
LEMMA OnlyRange ==
  ASSUME NEW X, NEW s \in Seq(X), NEW S
  PROVE Only(s, S) \in Seq(X) /\ Range(Only(s, S)) = Range(s) \intersect S
<1> DEFINE n == Len(s)
           step == [k \in 1 .. n |-> [t \in Seq(X) |->
                      IF s[k] \in S THEN Append(t, s[k]) ELSE t]]
           Eq(f) == f = [k \in 0 .. n |-> IF k = 0 THEN <<>>
                           ELSE IF s[k] \in S THEN Append(f[k - 1], s[k])
                                ELSE f[k - 1]]
           upto == CHOOSE f : Eq(f)
<1>1. n \in Nat /\ <<>> \in Seq(X) /\ (\A k \in 1 .. n : s[k] \in X)
      /\ DOMAIN s = 1 .. n
  OBVIOUS
<1>2. Only(s, S) = upto[n]
  BY DEF Only
<1>3. step \in [1 .. n -> [Seq(X) -> Seq(X)]]
  <2>1. ASSUME NEW k \in 1 .. n, NEW t \in Seq(X)
        PROVE (IF s[k] \in S THEN Append(t, s[k]) ELSE t) \in Seq(X)
    BY <1>1
  <2> QED BY <2>1
<1>4. \E f : Eq(f)
  <2>1. PICK f \in [0 .. n -> Seq(X)] : Solves(f, n, <<>>, step)
    <3> HIDE DEF step, n
    <3> QED BY <1>1, <1>3, Recursion
  <2>2. ASSUME NEW k \in 0 .. n
        PROVE f[k] = IF k = 0 THEN <<>>
                     ELSE IF s[k] \in S THEN Append(f[k - 1], s[k]) ELSE f[k - 1]
    <3>1. k # 0 => k \in 1 .. n /\ f[k - 1] \in Seq(X)
      <4> HIDE DEF step, n
      <4>1. k # 0 => k - 1 \in 0 .. n
        BY <1>1
      <4> QED BY <1>1, <2>1, <4>1
    <3>2. f[k] = IF k = 0 THEN <<>> ELSE step[k][f[k - 1]]
      <4> HIDE DEF step, n
      <4> QED BY <2>1 DEF Solves
    <3> QED BY <3>1, <3>2
  <2>3. Eq(f)
    <3> DEFINE g == [k \in 0 .. n |-> IF k = 0 THEN <<>>
                           ELSE IF s[k] \in S THEN Append(f[k - 1], s[k])
                                ELSE f[k - 1]]
    <3> SUFFICES f = g
      OBVIOUS
    <3>1. f \in [0 .. n -> Seq(X)] /\ DOMAIN g = 0 .. n
      BY <2>1
    <3>2. \A k \in 0 .. n : f[k] = g[k]
      BY <2>2
    <3> HIDE DEF n
    <3>3. DOMAIN f = DOMAIN g
      BY <3>1
    <3>4. f = [k \in DOMAIN f |-> f[k]] /\ g = [k \in DOMAIN g |-> g[k]]
      BY <3>1
    <3> QED BY <3>1, <3>2, <3>3, <3>4, Zenon
  <2> QED BY <2>3
<1>5. Eq(upto)
  <2> HIDE DEF Eq
  <2> QED BY <1>4
<1>6. upto[0] = <<>> /\ \A k \in 1 .. n :
        upto[k] = IF s[k] \in S THEN Append(upto[k - 1], s[k]) ELSE upto[k - 1]
  <2> HIDE DEF upto
  <2>1. \A k \in 0 .. n : upto[k] = IF k = 0 THEN <<>>
                     ELSE IF s[k] \in S THEN Append(upto[k - 1], s[k]) ELSE upto[k - 1]
    BY <1>5, Zenon
  <2> HIDE DEF Eq
  <2> QED BY <1>1, <2>1
<1> DEFINE Good(k) == upto[k] \in Seq(X)
                      /\ Range(upto[k]) = {s[j] : j \in 1 .. k} \intersect S
           T == {k \in 0 .. n : Good(k)}
<1>7. 0 \in T
  <2> HIDE DEF upto
  <2>1. Range(upto[0]) = {} /\ upto[0] \in Seq(X)
    BY <1>1, <1>6 DEF Range
  <2>2. {s[j] : j \in 1 .. 0} = {}
    OBVIOUS
  <2>3. Good(0)
    BY <2>1, <2>2
  <2> HIDE DEF Good
  <2> QED BY <1>1, <2>3
<1>8. ASSUME NEW k \in 1 .. n, k - 1 \in T PROVE k \in T
  <2> HIDE DEF upto
  <2>1. Good(k - 1) /\ s[k] \in X
    BY <1>1, <1>8
  <2>2. {s[j] : j \in 1 .. k} = {s[j] : j \in 1 .. k - 1} \union {s[k]}
    <3>1. 1 .. k = (1 .. k - 1) \union {k}
      BY <1>1
    <3> QED BY <3>1, Zenon
  <2>3. CASE s[k] \in S
    <3>1. upto[k] = Append(upto[k - 1], s[k])
      BY <1>6, <2>3
    <3>2. upto[k] \in Seq(X) /\ Range(upto[k]) = Range(upto[k - 1]) \union {s[k]}
      <4>1. upto[k - 1] \in Seq(X)
        BY <2>1
      <4> QED BY <2>1, <3>1, <4>1, RangeAppend
    <3> HIDE DEF Range
    <3>3. Good(k)
      BY <2>1, <2>2, <2>3, <3>2
    <3> HIDE DEF Good
    <3> QED BY <1>1, <3>3
  <2>4. CASE s[k] \notin S
    <3>1. upto[k] = upto[k - 1]
      BY <1>6, <2>4
    <3>2. Good(k)
      BY <2>1, <2>2, <2>4, <3>1
    <3> HIDE DEF Good
    <3> QED BY <1>1, <3>2
  <2> QED BY <2>3, <2>4
<1>9. 0 .. n \subseteq T
  <2> HIDE DEF T, n
  <2> QED BY <1>1, <1>7, <1>8, Induction
<1>10. Good(n)
  <2> HIDE DEF Good, n
  <2> QED BY <1>1, <1>9
<1>11. Range(s) = {s[j] : j \in 1 .. n}
  BY <1>1 DEF Range
<1> HIDE DEF upto, n
<1> QED BY <1>2, <1>10, <1>11

-----------------------------------------------------------------------------
\* The members of a stack.
LEMMA StackFacts ==
  ASSUME stack \in Stacks
  PROVE /\ stack.listing \in Seq(Ids) /\ Len(stack.listing) \in Nat
        /\ Members \subseteq Ids /\ IsFiniteSet(Members)
        /\ Cardinality(Members) \in 0 .. Len(stack.listing)
        /\ stack.service \in [Ids -> Services]
<1> DEFINE l == stack.listing
<1>1. l \in Seq(Ids) /\ stack.service \in [Ids -> Services]
  BY StackAssumption
<1>2. Len(l) \in Nat /\ DOMAIN l = 1 .. Len(l) /\ \A k \in 1 .. Len(l) : l[k] \in Ids
  BY <1>1
<1>3. IsFiniteSet(1 .. Len(l)) /\ Cardinality(1 .. Len(l)) = Len(l)
  BY <1>2, FS_Interval
<1>4. Members = {l[k] : k \in 1 .. Len(l)}
  BY <1>2 DEF Members, Range
<1>5. IsFiniteSet(Members) /\ Cardinality(Members) <= Len(l)
  <2>1. Len(l) \in Nat
    BY <1>2
  <2>2. l \in Surjection(1 .. Len(l), Members)
    BY <1>1, <1>2, <1>4 DEF Surjection
  <2> HIDE DEF l
  <2> QED BY <1>3, <2>2, FS_Surjection
<1>6. Cardinality(Members) \in Nat
  BY <1>5, FS_CardinalityType
<1> QED BY <1>1, <1>2, <1>4, <1>5, <1>6

\* A wave takes members that are left, some if any are.
LEMMA WaveTakes ==
  ASSUME NEW S, NEW ds
  PROVE Wave(S, ds) \subseteq S /\ (S # {} => Wave(S, ds) # {})
BY DEF Wave, Ready

\* The recursive functions of topo_order.
TodoIs(todo, ds) ==
    todo = [k \in 0 .. Len(stack.listing) |->
              IF k = 0 THEN Members ELSE todo[k - 1] \ Wave(todo[k - 1], ds)]
OrderIs(order, todo, ds) ==
    order = [k \in 0 .. Len(stack.listing) |->
               IF k = 0 THEN <<>>
               ELSE order[k - 1] \o Only(stack.listing, Wave(todo[k - 1], ds))]

\* topo_order is what they say after as many waves as there are members.
LEMMA TopoUnfold ==
  ASSUME stack \in Stacks, NEW ds
  PROVE \E todo, order :
          TodoIs(todo, ds) /\ OrderIs(order, todo, ds)
          /\ TopoOrder(ds) = order[Len(stack.listing)]
<1> DEFINE n == Len(stack.listing)
           todo == CHOOSE todo : TodoIs(todo, ds)
           order == CHOOSE order : OrderIs(order, todo, ds)
<1>1. n \in Nat /\ stack.listing \in Seq(Ids)
  BY StackFacts
<1>2. \E t : TodoIs(t, ds)
  <2> DEFINE step == [k \in 1 .. n |-> [S \in SUBSET Members |-> S \ Wave(S, ds)]]
  <2>1. step \in [1 .. n -> [SUBSET Members -> SUBSET Members]]
    OBVIOUS
  <2>2. Members \in SUBSET Members
    OBVIOUS
  <2>3. PICK f \in [0 .. n -> SUBSET Members] : Solves(f, n, Members, step)
    <3> HIDE DEF n, step
    <3> QED BY <1>1, <2>1, <2>2, Recursion
  <2>4. ASSUME NEW k \in 0 .. n
        PROVE f[k] = IF k = 0 THEN Members ELSE f[k - 1] \ Wave(f[k - 1], ds)
    <3>1. k # 0 => k \in 1 .. n /\ f[k - 1] \in SUBSET Members
      <4> HIDE DEF step, n
      <4>1. k # 0 => k - 1 \in 0 .. n
        BY <1>1
      <4> QED BY <1>1, <2>3, <4>1
    <3>2. f[k] = IF k = 0 THEN Members ELSE step[k][f[k - 1]]
      <4> HIDE DEF step, n
      <4> QED BY <2>3 DEF Solves
    <3> QED BY <3>1, <3>2
  <2>5. f = [k \in 0 .. n |-> f[k]]
    BY <2>3
  <2>6. TodoIs(f, ds)
    BY <2>4, <2>5, Zenon DEF TodoIs
  <2> QED BY <2>6
<1>3. TodoIs(todo, ds)
  BY <1>2
<1>4. \E f : OrderIs(f, todo, ds)
  <2> HIDE DEF todo
  <2> DEFINE step == [k \in 1 .. n |-> [t \in Seq(Ids) |->
                        t \o Only(stack.listing, Wave(todo[k - 1], ds))]]
  <2>1. step \in [1 .. n -> [Seq(Ids) -> Seq(Ids)]]
    <3>1. ASSUME NEW k \in 1 .. n, NEW t \in Seq(Ids)
          PROVE t \o Only(stack.listing, Wave(todo[k - 1], ds)) \in Seq(Ids)
      <4>1. Only(stack.listing, Wave(todo[k - 1], ds)) \in Seq(Ids)
        BY <1>1, OnlyRange
      <4> QED BY <4>1
    <3> QED BY <3>1
  <2>2. <<>> \in Seq(Ids)
    OBVIOUS
  <2>3. PICK f \in [0 .. n -> Seq(Ids)] : Solves(f, n, <<>>, step)
    <3> HIDE DEF n, step
    <3> QED BY <1>1, <2>1, <2>2, Recursion
  <2>4. ASSUME NEW k \in 0 .. n
        PROVE f[k] = IF k = 0 THEN <<>>
                     ELSE f[k - 1] \o Only(stack.listing, Wave(todo[k - 1], ds))
    <3>1. k # 0 => k \in 1 .. n /\ f[k - 1] \in Seq(Ids)
      <4> HIDE DEF step, n
      <4>1. k # 0 => k - 1 \in 0 .. n
        BY <1>1
      <4> QED BY <1>1, <2>3, <4>1
    <3>2. f[k] = IF k = 0 THEN <<>> ELSE step[k][f[k - 1]]
      <4> HIDE DEF step, n
      <4> QED BY <2>3 DEF Solves
    <3> QED BY <3>1, <3>2
  <2>5. f = [k \in 0 .. n |-> f[k]]
    BY <2>3
  <2>6. OrderIs(f, todo, ds)
    BY <2>4, <2>5, Zenon DEF OrderIs
  <2> QED BY <2>6
<1>5. OrderIs(order, todo, ds)
  <2> HIDE DEF todo
  <2> QED BY <1>4
<1>6. TopoOrder(ds) = order[n]
  BY DEF TopoOrder, TodoIs, OrderIs
<1> HIDE DEF todo, order
<1> QED BY <1>3, <1>5, <1>6

-----------------------------------------------------------------------------
\* Every service of a stack has one container.
Single == \A s \in Stacks : \A m, x \in Range(s.listing) :
             s.service[m] = s.service[x] => m = x

\* What m needs directly is needed, and so is what that needs.
LEMMA NeedsNeeded ==
  ASSUME NEW ds, NEW m, NEW x \in Members, Needs(ds, m, x)
  PROVE x \in Needed(ds, m) /\ Needed(ds, x) \subseteq Needed(ds, m)
BY DEF Needed, Closed

\* What m needs are members.
LEMMA NeededMembers ==
  ASSUME NEW ds, NEW m
  PROVE Needed(ds, m) \subseteq Members
BY DEF Needed

\* What m needs has all it needs among what m needs.
LEMMA NeededTransitive ==
  ASSUME NEW ds, NEW m, NEW x \in Needed(ds, m)
  PROVE Needed(ds, x) \subseteq Needed(ds, m)
BY DEF Needed, Closed

\* A set in which everybody needs somebody has nobody without a cycle below.
LEMMA StuckIsCyclic ==
  ASSUME IsFiniteSet(Members), NEW ds, NEW S \in SUBSET Members,
         \A x \in S : \E y \in S : Needs(ds, x, y), NEW m \in S
  PROVE ~Orderly(ds, m)
<1> SUFFICES ASSUME Orderly(ds, m) PROVE FALSE
  OBVIOUS
<1> DEFINE C == S \intersect (Needed(ds, m) \union {m})
           W == {Needed(ds, x) : x \in C}
<1>1. W \subseteq FiniteSubsetsOf(Members)
  <2> SUFFICES ASSUME NEW x \in C PROVE Needed(ds, x) \in FiniteSubsetsOf(Members)
    OBVIOUS
  <2>1. Needed(ds, x) \in SUBSET Members
    BY NeededMembers
  <2>2. IsFiniteSet(Needed(ds, x))
    BY <2>1, FS_Subset
  <2> QED BY <2>1, <2>2 DEF FiniteSubsetsOf
<1>2. W # {}
  OBVIOUS
<1>3. IsWellFoundedOn(StrictSubsetOrdering(Members), FiniteSubsetsOf(Members))
  BY FS_StrictSubsetOrderingWellFounded
<1>4. PICK A \in W : \A B \in W : ~(<<B, A>> \in StrictSubsetOrdering(Members))
  <2> HIDE DEF W
  <2> QED BY <1>1, <1>2, <1>3, WFMin
<1>5. PICK x \in C : A = Needed(ds, x)
  BY <1>4
<1>6. PICK y \in S : Needs(ds, x, y)
  BY <1>5
<1>7. y \in Needed(ds, x) /\ Needed(ds, y) \subseteq Needed(ds, x)
  BY <1>6, NeedsNeeded
<1>8. y \in Needed(ds, m)
  BY <1>5, <1>7, NeededTransitive
<1>9. y \notin Needed(ds, y)
  BY <1>8 DEF Orderly
<1>10. Needed(ds, y) \in W
  BY <1>8
<1>11. <<Needed(ds, y), A>> \in StrictSubsetOrdering(Members)
  <2>1. Needed(ds, y) \in SUBSET Members /\ A \in SUBSET Members
    BY <1>5, NeededMembers
  <2> QED BY <1>5, <1>7, <1>9, <2>1 DEF StrictSubsetOrdering
<1> QED BY <1>4, <1>10, <1>11

\* What a wave takes needs nothing that is left, if it has no cycle below it.
LEMMA WaveReady ==
  ASSUME stack \in Stacks, Single, NEW ds, NEW S \in SUBSET Members,
         NEW m \in Wave(S, ds), Orderly(ds, m), NEW x \in S
  PROVE ~Needs(ds, m, x)
<1> DEFINE placed == {stack.service[y] : y \in Members \ S}
<1>1. \A y, z \in Members : stack.service[y] = stack.service[z] => y = z
  BY DEF Single, Members
<1>2. CASE Ready(S, ds, placed) = {}
  <2>1. ASSUME NEW y \in S PROVE \E z \in S : Needs(ds, y, z)
    <3>1. PICK d \in ds[y] : d.service \in InStack /\ d.service \notin placed
      BY <1>2, <2>1 DEF Ready
    <3>2. PICK z \in Members : stack.service[z] = d.service
      BY <3>1 DEF InStack
    <3>3. z \in S
      BY <3>1, <3>2
    <3> QED BY <3>1, <3>2, <3>3 DEF Needs
  <2>2. m \in S
    BY WaveTakes
  <2> HIDE DEF placed
  <2> QED BY <2>1, <2>2, StackFacts, StuckIsCyclic
<1>3. CASE Ready(S, ds, placed) # {}
  <2>1. m \in Ready(S, ds, placed)
    BY <1>3 DEF Wave
  <2> SUFFICES ASSUME Needs(ds, m, x) PROVE FALSE
    OBVIOUS
  <2>2. PICK d \in ds[m] : d.service = stack.service[x]
    BY DEF Needs
  <2>3. d.service \in InStack
    BY <2>2 DEF InStack
  <2>4. d.service \in placed
    BY <2>1, <2>3 DEF Ready
  <2> QED BY <1>1, <2>2, <2>4
<1> QED BY <1>2, <1>3

-----------------------------------------------------------------------------
\* In a sequence, who has no cycle below comes after all it needs.
Sorted(ds, t) == \A i, j \in 1 .. Len(t) :
    Orderly(ds, t[j]) /\ Needs(ds, t[j], t[i]) => i < j

\* Nothing that is left is needed by a member that is placed.
Settled(ds, S) == \A m \in Members \ S, x \in S :
    Orderly(ds, m) => ~Needs(ds, m, x)

\* The range of a concatenation.
LEMMA RangeConcat ==
  ASSUME NEW X, NEW s \in Seq(X), NEW t \in Seq(X)
  PROVE s \o t \in Seq(X) /\ Range(s \o t) = Range(s) \union Range(t)
<1>1. /\ s \o t \in Seq(X) /\ Len(s \o t) = Len(s) + Len(t)
      /\ DOMAIN (s \o t) = 1 .. Len(s) + Len(t)
      /\ DOMAIN s = 1 .. Len(s) /\ DOMAIN t = 1 .. Len(t)
      /\ Len(s) \in Nat /\ Len(t) \in Nat
  OBVIOUS
<1>2. \A i \in 1 .. Len(s) + Len(t) :
        (s \o t)[i] = IF i <= Len(s) THEN s[i] ELSE t[i - Len(s)]
  OBVIOUS
<1> DEFINE u == s \o t
<1> HIDE DEF u
<1>3. ASSUME NEW y \in Range(u) PROVE y \in Range(s) \union Range(t)
  <2>1. PICK i \in 1 .. Len(s) + Len(t) : u[i] = y
    BY <1>1 DEF Range, u
  <2>2. CASE i <= Len(s)
    <3>1. i \in DOMAIN s /\ s[i] = y
      BY <1>1, <1>2, <2>1, <2>2 DEF u
    <3> QED BY <3>1 DEF Range
  <2>3. CASE i > Len(s)
    <3>1. i - Len(s) \in DOMAIN t /\ t[i - Len(s)] = y
      BY <1>1, <1>2, <2>1, <2>3 DEF u
    <3> QED BY <3>1 DEF Range
  <2> QED BY <1>1, <2>2, <2>3
<1>4. ASSUME NEW y \in Range(s) PROVE y \in Range(u)
  <2>1. PICK i \in 1 .. Len(s) : s[i] = y
    BY <1>1, <1>4 DEF Range
  <2>2. i \in DOMAIN u /\ u[i] = y
    BY <1>1, <1>2, <2>1 DEF u
  <2> QED BY <2>2 DEF Range
<1>5. ASSUME NEW y \in Range(t) PROVE y \in Range(u)
  <2>1. PICK i \in 1 .. Len(t) : t[i] = y
    BY <1>1, <1>5 DEF Range
  <2>2. Len(s) + i \in DOMAIN u /\ u[Len(s) + i] = y
    BY <1>1, <1>2, <2>1 DEF u
  <2> QED BY <2>2 DEF Range
<1> QED BY <1>1, <1>3, <1>4, <1>5 DEF u

\* A wave extends an order that is sorted, and leaves what is left settled.
LEMMA WaveSorts ==
  ASSUME stack \in Stacks, Single, NEW ds, NEW S \in SUBSET Members,
         NEW s \in Seq(Ids), Range(s) = Members \ S,
         NEW t \in Seq(Ids), Range(t) = Wave(S, ds),
         Settled(ds, S), Sorted(ds, s)
  PROVE Settled(ds, S \ Wave(S, ds)) /\ Sorted(ds, s \o t)
<1>1. Settled(ds, S \ Wave(S, ds))
  <2> SUFFICES ASSUME NEW m \in Members \ (S \ Wave(S, ds)),
                      NEW x \in S \ Wave(S, ds), Orderly(ds, m)
               PROVE ~Needs(ds, m, x)
    BY DEF Settled
  <2>1. CASE m \in S
    BY <2>1, WaveReady
  <2>2. CASE m \notin S
    BY <2>2 DEF Settled
  <2> QED BY <2>1, <2>2
<1>2. Sorted(ds, s \o t)
  <2> DEFINE u == s \o t
  <2>1. /\ Len(u) = Len(s) + Len(t) /\ Len(s) \in Nat /\ Len(t) \in Nat
        /\ DOMAIN s = 1 .. Len(s) /\ DOMAIN t = 1 .. Len(t)
    OBVIOUS
  <2>2. \A i \in 1 .. Len(s) + Len(t) :
          u[i] = IF i <= Len(s) THEN s[i] ELSE t[i - Len(s)]
    OBVIOUS
  <2> HIDE DEF u
  <2>3. \A i \in 1 .. Len(s) : s[i] \in Members \ S
    BY <2>1 DEF Range
  <2>4. \A i \in 1 .. Len(t) : t[i] \in Wave(S, ds)
    BY <2>1 DEF Range
  <2> SUFFICES ASSUME NEW i \in 1 .. Len(u), NEW j \in 1 .. Len(u),
                      Orderly(ds, u[j]), Needs(ds, u[j], u[i]), ~(i < j)
               PROVE FALSE
    BY DEF Sorted, u
  <2>5. CASE i <= Len(s)
    <3>1. i \in 1 .. Len(s) /\ j \in 1 .. Len(s) /\ u[i] = s[i] /\ u[j] = s[j]
      BY <2>1, <2>2, <2>5
    <3> QED BY <3>1 DEF Sorted
  <2>6. CASE i > Len(s)
    <3>1. i - Len(s) \in 1 .. Len(t) /\ u[i] = t[i - Len(s)]
      BY <2>1, <2>2, <2>6
    <3>2. u[i] \in S
      BY <2>4, <3>1, WaveTakes
    <3>3. CASE j <= Len(s)
      <4>1. j \in 1 .. Len(s) /\ u[j] = s[j]
        BY <2>1, <2>2, <3>3
      <4>2. u[j] \in Members \ S
        BY <2>3, <4>1
      <4> QED BY <3>2, <4>2 DEF Settled
    <3>4. CASE j > Len(s)
      <4>1. j - Len(s) \in 1 .. Len(t) /\ u[j] = t[j - Len(s)]
        BY <2>1, <2>2, <3>4
      <4>2. u[j] \in Wave(S, ds)
        BY <2>4, <4>1
      <4> QED BY <3>2, <4>2, WaveReady
    <3> QED BY <2>1, <3>3, <3>4
  <2> QED BY <2>1, <2>5, <2>6
<1> QED BY <1>1, <1>2

\* What the order is after some waves: of what is not left, and sorted.
After(ds, S, s, k) ==
    /\ S \in SUBSET Members /\ Cardinality(S) <= Len(stack.listing) - k
    /\ s \in Seq(Ids) /\ Range(s) = Members \ S
    /\ Single => Settled(ds, S) /\ Sorted(ds, s)

\* One wave further.
LEMMA WaveAfter ==
  ASSUME stack \in Stacks, NEW ds, NEW S, NEW s, NEW k \in 1 .. Len(stack.listing),
         After(ds, S, s, k - 1)
  PROVE After(ds, S \ Wave(S, ds), s \o Only(stack.listing, Wave(S, ds)), k)
<1> DEFINE t == Only(stack.listing, Wave(S, ds))
           R == S \ Wave(S, ds)
<1>1. S \in SUBSET Members /\ Cardinality(S) <= Len(stack.listing) - (k - 1)
      /\ s \in Seq(Ids) /\ Range(s) = Members \ S
  BY DEF After
<1>2. stack.listing \in Seq(Ids) /\ Len(stack.listing) \in Nat /\ IsFiniteSet(Members)
  BY StackFacts
<1>3. Wave(S, ds) \subseteq S /\ (S # {} => Wave(S, ds) # {})
  BY WaveTakes
<1>4. t \in Seq(Ids) /\ Range(t) = Wave(S, ds)
  <2>1. t \in Seq(Ids) /\ Range(t) = Range(stack.listing) \intersect Wave(S, ds)
    BY <1>2, OnlyRange
  <2> QED BY <1>1, <1>3, <2>1 DEF Members
<1> HIDE DEF t
<1>5. s \o t \in Seq(Ids) /\ Range(s \o t) = Members \ R
  <2>1. s \o t \in Seq(Ids) /\ Range(s \o t) = Range(s) \union Range(t)
    BY <1>1, <1>4, RangeConcat
  <2> QED BY <1>1, <1>3, <1>4, <2>1
<1>6. R \in SUBSET Members /\ Cardinality(R) <= Len(stack.listing) - k
  <2>1. IsFiniteSet(S)
    BY <1>1, <1>2, FS_Subset
  <2>2. IsFiniteSet(R) /\ Cardinality(R) <= Cardinality(S)
        /\ (Cardinality(S) = Cardinality(R) => S = R)
    BY <2>1, FS_Subset
  <2>3. Cardinality(S) \in Nat /\ Cardinality(R) \in Nat
    BY <2>1, <2>2, FS_CardinalityType
  <2>4. CASE S = {}
    <3>1. Cardinality(R) = 0
      BY <2>4, FS_EmptySet
    <3> QED BY <1>1, <1>2, <3>1
  <2>5. CASE S # {}
    <3>1. S # R
      BY <1>3, <2>5
    <3> QED BY <1>1, <1>2, <2>2, <2>3, <3>1
  <2> QED BY <2>4, <2>5
<1>7. ASSUME Single PROVE Settled(ds, R) /\ Sorted(ds, s \o t)
  <2>1. Settled(ds, S) /\ Sorted(ds, s)
    BY <1>7 DEF After
  <2> QED BY <1>1, <1>4, <1>7, <2>1, WaveSorts
<1> HIDE DEF R
<1>8. After(ds, R, s \o t, k)
  BY <1>5, <1>6, <1>7 DEF After
<1> QED BY <1>8 DEF R, t

\* topo_order returns every member, and, where every service has one container,
\* each one that has no cycle below it after all it needs.
THEOREM TopoFacts ==
  ASSUME stack \in Stacks, NEW ds
  PROVE /\ TopoOrder(ds) \in Seq(Ids) /\ Range(TopoOrder(ds)) = Members
        /\ Single => Sorted(ds, TopoOrder(ds))
<1> DEFINE n == Len(stack.listing)
<1>1. PICK todo, order : TodoIs(todo, ds) /\ OrderIs(order, todo, ds)
                         /\ TopoOrder(ds) = order[n]
  BY TopoUnfold
<1>2. n \in Nat /\ IsFiniteSet(Members) /\ Cardinality(Members) \in 0 .. n
  BY StackFacts
<1>3. todo[0] = Members /\ order[0] = <<>>
  BY <1>1, <1>2 DEF TodoIs, OrderIs
<1>4. ASSUME NEW k \in 1 .. n
      PROVE /\ todo[k] = todo[k - 1] \ Wave(todo[k - 1], ds)
            /\ order[k] = order[k - 1] \o Only(stack.listing, Wave(todo[k - 1], ds))
  <2>1. k \in 0 .. n /\ k # 0
    BY <1>2
  <2>2. todo[k] = IF k = 0 THEN Members ELSE todo[k - 1] \ Wave(todo[k - 1], ds)
    BY <1>1, <2>1, Zenon DEF TodoIs
  <2>3. order[k] = IF k = 0 THEN <<>>
                   ELSE order[k - 1] \o Only(stack.listing, Wave(todo[k - 1], ds))
    BY <1>1, <2>1, Zenon DEF OrderIs
  <2> QED BY <2>1, <2>2, <2>3, Zenon
<1> DEFINE T == {k \in 0 .. n : After(ds, todo[k], order[k], k)}
<1>5. 0 \in T
  <2>1. order[0] \in Seq(Ids) /\ Range(order[0]) = {} /\ Len(order[0]) = 0
    BY <1>3 DEF Range
  <2>2. Sorted(ds, order[0])
    BY <2>1 DEF Sorted
  <2>3. Settled(ds, todo[0])
    BY <1>3 DEF Settled
  <2>4. After(ds, todo[0], order[0], 0)
    BY <1>2, <1>3, <2>1, <2>2, <2>3 DEF After
  <2> QED BY <1>2, <2>4
<1>6. ASSUME NEW k \in 1 .. n, k - 1 \in T PROVE k \in T
  <2>1. After(ds, todo[k - 1], order[k - 1], k - 1)
    BY <1>6
  <2>2. After(ds, todo[k - 1] \ Wave(todo[k - 1], ds),
              order[k - 1] \o Only(stack.listing, Wave(todo[k - 1], ds)), k)
    BY <2>1, WaveAfter
  <2>3. After(ds, todo[k], order[k], k)
    BY <1>4, <2>2, Zenon
  <2> QED BY <2>3, <1>2
<1>7. 0 .. n \subseteq T
  <2> HIDE DEF T, n
  <2> QED BY <1>2, <1>5, <1>6, Induction
<1>8. After(ds, todo[n], order[n], n)
  BY <1>2, <1>7
<1>9. todo[n] = {}
  <2>1. IsFiniteSet(todo[n]) /\ Cardinality(todo[n]) \in Nat
    BY <1>2, <1>8, FS_Subset, FS_CardinalityType DEF After
  <2>2. Cardinality(todo[n]) = 0
    BY <1>2, <1>8, <2>1 DEF After
  <2> QED BY <2>1, <2>2, FS_EmptySet
<1> QED BY <1>1, <1>8, <1>9 DEF After

-----------------------------------------------------------------------------
\* A sequence backwards.
LEMMA BackwardsFacts ==
  ASSUME NEW X, NEW s \in Seq(X)
  PROVE /\ Backwards(s) \in Seq(X) /\ Len(Backwards(s)) = Len(s)
        /\ Range(Backwards(s)) = Range(s) /\ Backwards(Backwards(s)) = s
<1> DEFINE b == Backwards(s)
           c == Backwards(b)
<1>1. Len(s) \in Nat /\ DOMAIN s = 1 .. Len(s) /\ \A i \in 1 .. Len(s) : s[i] \in X
  OBVIOUS
<1>2. b \in [1 .. Len(s) -> X] /\ \A i \in 1 .. Len(s) : b[i] = s[Len(s) + 1 - i]
  <2>1. \A i \in 1 .. Len(s) : Len(s) + 1 - i \in 1 .. Len(s)
    BY <1>1
  <2> QED BY <1>1, <2>1 DEF Backwards
<1>3. b \in Seq(X) /\ Len(b) = Len(s) /\ DOMAIN b = 1 .. Len(s)
  <2> HIDE DEF b
  <2> QED BY <1>1, <1>2
<1>4. Range(b) = Range(s)
  <2> HIDE DEF b
  <2>1. ASSUME NEW y \in Range(s) PROVE y \in Range(b)
    <3>1. PICK i \in 1 .. Len(s) : s[i] = y
      BY <1>1, <2>1 DEF Range
    <3>2. Len(s) + 1 - i \in DOMAIN b /\ b[Len(s) + 1 - i] = y
      BY <1>1, <1>2, <1>3, <3>1
    <3> QED BY <3>2 DEF Range
  <2>2. ASSUME NEW y \in Range(b) PROVE y \in Range(s)
    <3>1. PICK i \in 1 .. Len(s) : b[i] = y
      BY <1>3, <2>2 DEF Range
    <3>2. Len(s) + 1 - i \in DOMAIN s /\ s[Len(s) + 1 - i] = y
      BY <1>1, <1>2, <3>1
    <3> QED BY <3>2 DEF Range
  <2> QED BY <2>1, <2>2
<1>5. c = s
  <2>1. c = [i \in 1 .. Len(b) |-> b[Len(b) + 1 - i]]
    BY DEF Backwards
  <2> HIDE DEF b, c
  <2>2. ASSUME NEW i \in 1 .. Len(s) PROVE c[i] = s[i]
    <3>1. c[i] = b[Len(s) + 1 - i] /\ Len(s) + 1 - i \in 1 .. Len(s)
      BY <1>1, <1>3, <2>1
    <3>2. b[Len(s) + 1 - i] = s[Len(s) + 1 - (Len(s) + 1 - i)]
      BY <1>2, <3>1
    <3>3. Len(s) + 1 - (Len(s) + 1 - i) = i
      BY <1>1
    <3> QED BY <3>1, <3>2, <3>3
  <2>3. s = [i \in 1 .. Len(s) |-> s[i]]
    OBVIOUS
  <2>4. c = [i \in 1 .. Len(s) |-> c[i]]
    BY <1>3, <2>1
  <2> QED BY <2>2, <2>3, <2>4, Zenon
<1> QED BY <1>3, <1>4, <1>5

-----------------------------------------------------------------------------
(* Types *)

ActType ==
    [kind : {"none", "start", "stop", "restart"},
     pc : {"idle", "stop", "check", "wait", "nap"},
     order : Seq(Ids), next : Nat \ {0}, waits : SUBSET Dep,
     on : Dep \union {NoDep}, failed : Nat, progressed : BOOLEAN]

\* Docker, the dependencies and the counts.
DockerTypes ==
    /\ stack \in Stacks /\ denies \in BOOLEAN /\ readOnly \in BOOLEAN
    /\ running \subseteq Ids /\ healthy \subseteq running \intersect probed
    /\ running \intersect stack.checked \subseteq probed /\ probed \subseteq stack.checked
    /\ deps \in [Ids -> SUBSET Dep]
    /\ interference \in Nat /\ blind \in Nat

\* The action under way: where it is, it has a member to be at.
ActTypes ==
    /\ act \in ActType
    /\ act.failed < act.next /\ act.next <= Len(act.order) + 1
    /\ act.pc = "wait" => act.next <= Len(act.order)
    /\ act.pc = "idle" => act = Idle
    /\ act.on # NoDep => act.pc = "wait"

\* The timers run only where they are used.
TimerTypes ==
    /\ left \in 0 .. Budget /\ patience \in 0 .. DepWait /\ nap \in 0 .. 1
    /\ patience > 0 => act.on # NoDep
    /\ nap > 0 => act.pc = "nap" \/ act.on # NoDep
    /\ left > 0 => act.pc \in {"check", "wait", "nap"}

Types == DockerTypes /\ ActTypes /\ TimerTypes

\* No action is an action.
LEMMA IdleType ==
  Idle \in ActType /\ Idle.failed < Idle.next /\ Idle.next <= Len(Idle.order) + 1
  /\ Idle.pc = "idle" /\ Idle.on = NoDep /\ Idle.next = 1 /\ Idle.failed = 0
<1>1. <<>> \in Seq(Ids) /\ Len(<<>>) = 0
  OBVIOUS
<1> QED BY <1>1 DEF Idle, ActType

\* An action in its first step.
Fresh(kind, pc, order) == [Idle EXCEPT !.kind = kind, !.pc = pc, !.order = order]

\* An action in its first step has the type of one.
LEMMA FreshType ==
  ASSUME NEW kind \in {"none", "start", "stop", "restart"},
         NEW pc \in {"idle", "stop", "check", "wait", "nap"}, NEW order \in Seq(Ids)
  PROVE LET a == Fresh(kind, pc, order) IN
        /\ a \in ActType /\ a.kind = kind /\ a.pc = pc /\ a.order = order
        /\ a.next = 1 /\ a.failed = 0 /\ a.waits = {} /\ a.on = NoDep
<1>1. \A i \in ActType : [i EXCEPT !.kind = kind, !.pc = pc, !.order = order] \in ActType
  BY DEF ActType
<1>2. Fresh(kind, pc, order) \in ActType
  BY <1>1, IdleType DEF Fresh
<1> QED BY <1>2 DEF Fresh, Idle

\* An action moved on, with f failures.
Moved(a, f) == [a EXCEPT !.failed = f, !.next = a.next + 1]

\* Moving on changes the cursor and the failures.
LEMMA MovedType ==
  ASSUME NEW a \in ActType, NEW f \in Nat
  PROVE LET m == Moved(a, f) IN
        /\ m \in ActType /\ m.kind = a.kind /\ m.pc = a.pc /\ m.order = a.order
        /\ m.next = a.next + 1 /\ m.failed = f /\ m.waits = a.waits /\ m.on = a.on
        /\ m.progressed = a.progressed
<1>1. a.next + 1 \in Nat \ {0}
  BY DEF ActType
<1>2. Moved(a, f) \in ActType
  BY <1>1 DEF ActType, Moved
<1> QED BY <1>2 DEF Moved, ActType

\* The initial states have their types.
LEMMA InitTypes == Init => Types
<1> SUFFICES ASSUME Init PROVE Types
  OBVIOUS
<1>1. stack \in Stacks /\ Members \subseteq Ids
  BY StackFacts DEF Init
<1>2. DockerTypes
  BY <1>1, ProxyAssumption DEF Init, DockerTypes
<1>3. ActTypes
  BY IdleType DEF Init, ActTypes
<1>4. TimerTypes
  BY TimerAssumption DEF Init, TimerTypes
<1> QED BY <1>2, <1>3, <1>4 DEF Types

\* The types imply TypeOK.
LEMMA TypesImply == Types => TypeOK
<1> SUFFICES ASSUME Types PROVE TypeOK
  OBVIOUS
<1>1. act.pc \in {"idle", "stop", "check", "wait", "nap"} /\ Len(act.order) \in Nat
      /\ act.failed \in Nat /\ act.next \in Nat \ {0}
  BY DEF Types, ActTypes, ActType
<1>2. act.pc = "idle" => act = Idle /\ left + patience + nap = 0
  <2> SUFFICES ASSUME act.pc = "idle" PROVE act = Idle /\ left + patience + nap = 0
    OBVIOUS
  <2>1. act = Idle /\ act.on = NoDep
    BY IdleType DEF Types, ActTypes
  <2>2. left = 0 /\ patience = 0 /\ nap = 0
    BY <2>1, TimerAssumption DEF Types, TimerTypes
  <2> QED BY <2>1, <2>2
<1>3. act.failed \in 0 .. Len(act.order) /\ act.next \in 1 .. Len(act.order) + 1
  BY <1>1 DEF Types, ActTypes
<1> QED BY <1>1, <1>2, <1>3 DEF Types, DockerTypes, TimerTypes, TypeOK

\* The member the action is at.
LEMMA CurrentType ==
  ASSUME Types, act.next <= Len(act.order)
  PROVE Current \in Ids /\ act.next \in 1 .. Len(act.order)
<1>1. act.order \in Seq(Ids) /\ act.next \in Nat \ {0} /\ Len(act.order) \in Nat
  BY DEF Types, ActTypes, ActType
<1>2. act.next \in 1 .. Len(act.order)
  BY <1>1
<1> QED BY <1>1, <1>2 DEF Current

\* The dependencies of a member have their type.
LEMMA DepsOfType ==
  ASSUME stack \in Stacks, NEW unread
  PROVE [m \in Ids |-> DepsOf(m, unread)] \in [Ids -> SUBSET Dep]
<1> SUFFICES ASSUME NEW m \in Ids PROVE DepsOf(m, unread) \subseteq Dep
  OBVIOUS
<1> DEFINE shared == IF m \in unread THEN {}
                     ELSE {stack.service[x] : x \in stack.shares[m] \intersect Members}
<1>1. stack.label[m] \subseteq Dep
  BY StackAssumption
<1>2. shared \subseteq Services
  BY StackFacts
<1>3. \A t \in Services : [service |-> t, condition |-> "started"] \in Dep
  BY DEF Dep, Condition
<1> QED BY <1>1, <1>2, <1>3 DEF DepsOf

\* Containers, other users and the clock preserve the types.
LEMMA WorldTypes ==
  ASSUME Types,
         \/ \E m \in Ids : BecomesHealthy(m) \/ Exits(m) \/ Interfere(m)
         \/ \E m \in Ids, kind \in {"start", "stop", "restart"} :
               ContainerAction(m, kind)
         \/ ListFails \/ Advance
  PROVE Types'
<1>1. CASE \E m \in Ids : BecomesHealthy(m)
  BY <1>1 DEF Types, DockerTypes, ActTypes, TimerTypes, BecomesHealthy, timers, counts
<1>2. CASE \E m \in Ids : Exits(m)
  BY <1>2 DEF Types, DockerTypes, ActTypes, TimerTypes, Exits, timers, counts
<1>3. CASE \E m \in Ids : Interfere(m)
  BY <1>3 DEF Types, DockerTypes, ActTypes, TimerTypes, Interfere, Probed, timers
<1>4. CASE \E m \in Ids, kind \in {"start", "stop", "restart"} : ContainerAction(m, kind)
  <2>1. readOnly' \in BOOLEAN
    BY <1>4, Zenon DEF Types, DockerTypes, ContainerAction
  <2>2. DockerTypes'
    BY <1>4, <2>1 DEF Types, DockerTypes, ContainerAction, Probed
  <2>3. ActTypes' /\ TimerTypes'
    BY <1>4 DEF Types, ActTypes, TimerTypes, ContainerAction, timers
  <2> QED BY <2>2, <2>3 DEF Types
<1>5. CASE ListFails
  <2>1. readOnly' \in BOOLEAN
    BY <1>5, Zenon DEF Types, DockerTypes, ListFails
  <2>2. DockerTypes'
    BY <1>5, <2>1 DEF Types, DockerTypes, ListFails, docker
  <2>3. ActTypes' /\ TimerTypes'
    BY <1>5 DEF Types, ActTypes, TimerTypes, ListFails, timers
  <2> QED BY <2>2, <2>3 DEF Types
<1>6. CASE Advance
  <2>1. DockerTypes' /\ ActTypes'
    BY <1>6 DEF Types, DockerTypes, ActTypes, Advance, docker, counts
  <2>2. TimerTypes'
    BY <1>6, TimerAssumption DEF Types, TimerTypes, Advance, Down
  <2> QED BY <2>1, <2>2 DEF Types
<1> QED BY <1>1, <1>2, <1>3, <1>4, <1>5, <1>6

\* A new action has the type of one.
LEMMA RequestTypes ==
  ASSUME Types, NEW kind \in {"start", "stop", "restart"}, Request(kind)
  PROVE Types'
<1>1. PICK unread \in SUBSET Members :
        LET ds == [m \in Ids |-> DepsOf(m, unread)] IN
        /\ act = Idle
        /\ blind' = blind + Cardinality(unread)
        /\ deps' = ds
        /\ act' = IF kind = "start"
                    THEN [Idle EXCEPT !.kind = kind, !.pc = "check", !.order = TopoOrder(ds)]
                    ELSE [Idle EXCEPT !.kind = kind, !.pc = "stop", !.order = StopOrder(ds)]
        /\ left' = IF kind = "start" THEN Budget ELSE 0
        /\ UNCHANGED <<docker, patience, nap, readOnly, interference>>
  BY Zenon DEF Request
<1> DEFINE ds == [m \in Ids |-> DepsOf(m, unread)]
<1>2. stack \in Stacks
  BY DEF Types, DockerTypes
<1>3. ds \in [Ids -> SUBSET Dep]
  BY <1>2, DepsOfType
<1>4. Cardinality(unread) \in Nat
  BY <1>2, StackFacts, FS_Subset, FS_CardinalityType
<1> HIDE DEF ds
<1>5. TopoOrder(ds) \in Seq(Ids) /\ StopOrder(ds) \in Seq(Ids)
  <2>1. TopoOrder(ds) \in Seq(Ids)
    BY <1>2, TopoFacts
  <2> QED BY <2>1, BackwardsFacts DEF StopOrder
<1>6. DockerTypes'
  BY <1>1, <1>3, <1>4 DEF Types, DockerTypes, docker, ds
<1>7. act' \in ActType /\ act'.failed = 0 /\ act'.next = 1 /\ act'.on = NoDep
      /\ act'.pc = IF kind = "start" THEN "check" ELSE "stop"
  <2>1. act' = IF kind = "start" THEN Fresh(kind, "check", TopoOrder(ds))
                                ELSE Fresh(kind, "stop", StopOrder(ds))
    BY <1>1 DEF ds, Fresh
  <2> QED BY <1>5, <2>1, FreshType
<1>8. ActTypes'
  <2>1. Len(act'.order) \in Nat
    BY <1>7 DEF ActType
  <2> QED BY <1>7, <2>1 DEF ActTypes
<1>9. TimerTypes'
  <2>1. patience = 0 /\ nap = 0
    BY <1>1, IdleType DEF Types, TimerTypes
  <2> QED BY <1>1, <1>7, <2>1, TimerAssumption DEF Types, TimerTypes
<1> QED BY <1>6, <1>8, <1>9 DEF Types

\* A dropped handler leaves no timer running.
LEMMA CancelTypes == ASSUME Types, Cancel PROVE Types'
<1>1. DockerTypes'
  BY DEF Types, DockerTypes, Cancel, docker
<1>2. ActTypes'
  BY IdleType DEF ActTypes, Cancel
<1>3. TimerTypes'
  BY TimerAssumption DEF TimerTypes, Cancel
<1> QED BY <1>1, <1>2, <1>3 DEF Types

\* stop_in_order preserves the types.
LEMMA StopTypes == ASSUME Types, Stop \/ Stopped PROVE Types'
<1>0. act \in ActType /\ act.next \in Nat \ {0} /\ Len(act.order) \in Nat
      /\ act.failed \in Nat /\ act.failed < act.next
      /\ act.pc = "stop" /\ act.on = NoDep
  BY DEF Types, ActTypes, ActType, Stop, Stopped
<1>1. CASE Stop
  <2>1. DockerTypes'
    BY <1>1 DEF Types, DockerTypes, Stop, timers
  <2>2. PICK f \in {act.failed, act.failed + 1} : act' = Moved(act, f)
    <3>1. CASE act' = Onward(act)
      <4>1. act' = Moved(act, act.failed)
        BY <1>0, <3>1 DEF Onward, Moved, ActType
      <4> QED BY <4>1
    <3>2. CASE act' = Onward([act EXCEPT !.failed = @ + 1])
      <4>1. act' = Moved(act, act.failed + 1)
        BY <1>0, <3>2 DEF Onward, Moved, ActType
      <4> QED BY <4>1
    <3> QED BY <1>1, <3>1, <3>2 DEF Stop
  <2>3. /\ act' \in ActType /\ act'.pc = "stop" /\ act'.on = NoDep
        /\ act'.next = act.next + 1 /\ act'.failed = f /\ act'.order = act.order
    <3>1. f \in Nat
      BY <1>0
    <3> QED BY <1>0, <2>2, <3>1, MovedType
  <2>4. ActTypes'
    BY <1>0, <1>1, <2>3 DEF ActTypes, Stop, AtEnd
  <2>5. TimerTypes'
    BY <1>0, <1>1, <2>3, TimerAssumption DEF Types, TimerTypes, Stop, timers
  <2> QED BY <2>1, <2>4, <2>5 DEF Types
<1>2. CASE Stopped
  <2>1. DockerTypes'
    BY <1>2 DEF Types, DockerTypes, Stopped, docker, counts
  <2>2. left = 0 /\ patience = 0 /\ nap = 0
    BY <1>0, TimerAssumption DEF Types, TimerTypes
  <2>3. CASE act' = Idle
    <3>1. ActTypes'
      BY <2>3, IdleType DEF ActTypes
    <3>2. left' \in {0, Budget} /\ (left' = Budget => act' # Idle \/ Budget = 0)
      BY <1>2, <2>2, <2>3 DEF Stopped, Idle
    <3>3. TimerTypes'
      BY <1>2, <2>2, <2>3, <3>2, TimerAssumption DEF TimerTypes, Stopped
    <3> QED BY <2>1, <3>1, <3>3 DEF Types
  <2>4. CASE act' = [Idle EXCEPT !.kind = act.kind, !.pc = "check",
                                 !.order = Backwards(act.order)]
             /\ left' = Budget
    <3>1. Backwards(act.order) \in Seq(Ids)
      BY <1>0, BackwardsFacts DEF ActType
    <3>2. /\ act' \in ActType /\ act'.failed = 0 /\ act'.next = 1
          /\ act'.on = NoDep /\ act'.pc = "check"
      <4>1. act' = Fresh(act.kind, "check", Backwards(act.order))
        BY <2>4 DEF Fresh
      <4>2. act.kind \in {"none", "start", "stop", "restart"}
        BY <1>0 DEF ActType
      <4> QED BY <3>1, <4>1, <4>2, FreshType
    <3>3. Len(act'.order) \in Nat
      BY <3>2 DEF ActType
    <3>4. ActTypes'
      BY <3>2, <3>3 DEF ActTypes
    <3>5. TimerTypes'
      BY <1>2, <2>2, <2>4, <3>2, TimerAssumption DEF TimerTypes, Stopped
    <3> QED BY <2>1, <3>4, <3>5 DEF Types
  <2> QED BY <1>2, <2>3, <2>4 DEF Stopped
<1> QED BY <1>1, <1>2

\* A check finds its member running, or begins to wait for what it needs.
LEMMA CheckShape ==
  ASSUME Types, Check
  PROVE \/ Current \in running /\ act' = Moved(act, act.failed)
        \/ act' = [act EXCEPT !.pc = "wait", !.waits = Waits(Current)]
<1>1. act \in ActType
  BY DEF Types, ActTypes
<1>2. PICK state \in {RunState(Current), "none"} :
        act' = IF IsRunning(state) THEN Onward(act)
               ELSE [On(act, "wait") EXCEPT !.waits = Waits(Current)]
  BY DEF Check
<1>3. CASE IsRunning(state)
  <2>1. Current \in running
    BY <1>2, <1>3 DEF IsRunning, RunState
  <2>2. act' = Moved(act, act.failed)
    BY <1>1, <1>2, <1>3 DEF Onward, Moved, ActType
  <2> QED BY <2>1, <2>2
<1>4. CASE ~IsRunning(state)
  <2>1. act' = [act EXCEPT !.pc = "wait", !.waits = Waits(Current)]
    BY <1>1, <1>2, <1>4 DEF On, ActType
  <2> QED BY <2>1
<1> QED BY <1>3, <1>4

\* A start goes on to the next member.
LEMMA StartShape ==
  ASSUME Types, Start
  PROVE /\ act' \in ActType /\ act'.pc = "check" /\ act'.order = act.order
        /\ act'.next = act.next + 1 /\ act'.on = NoDep
        /\ \/ act'.failed = act.failed /\ running' = running \union {Current}
           \/ act'.failed = act.failed + 1 /\ running' = running
<1>1. act \in ActType /\ act.on = NoDep
  BY DEF Types, ActTypes, Start
<1>2. CASE /\ running' = running \union {Current}
           /\ act' = On(Onward([act EXCEPT !.progressed = TRUE]), "check")
  <2>1. act' = [act EXCEPT !.progressed = TRUE, !.next = act.next + 1, !.pc = "check"]
    BY <1>1, <1>2 DEF On, Onward, ActType
  <2>2. act.next + 1 \in Nat \ {0}
    BY <1>1 DEF ActType
  <2>3. act' \in ActType
    BY <1>1, <2>1, <2>2 DEF ActType
  <2> QED BY <1>1, <1>2, <2>1, <2>3 DEF ActType
<1>3. CASE /\ running' = running
           /\ act' = On(Onward([act EXCEPT !.failed = @ + 1]), "check")
  <2>1. act' = [act EXCEPT !.failed = act.failed + 1, !.next = act.next + 1,
                           !.pc = "check"]
    BY <1>1, <1>3 DEF On, Onward, ActType
  <2>2. act.next + 1 \in Nat \ {0} /\ act.failed + 1 \in Nat
    BY <1>1 DEF ActType
  <2>3. act' \in ActType
    BY <1>1, <2>1, <2>2 DEF ActType
  <2> QED BY <1>1, <1>3, <2>1, <2>3 DEF ActType
<1> QED BY <1>2, <1>3 DEF Start

\* A dependency that is waited for has the type of one.
LEMMA WaitsType ==
  ASSUME Types, act.next <= Len(act.order)
  PROVE Waits(Current) \subseteq Dep
<1>1. Current \in Ids
  BY CurrentType
<1> QED BY <1>1 DEF Waits, Types, DockerTypes

\* start_in_order preserves the types.
LEMMA StartTypes ==
  ASSUME Types, Check \/ BeginWait \/ PollDep \/ Start \/ FinishPass \/ NextPass \/ Wake
  PROVE Types'
<1>0. /\ act \in ActType /\ act.next \in Nat \ {0} /\ Len(act.order) \in Nat
      /\ act.failed \in Nat /\ act.failed < act.next /\ act.next <= Len(act.order) + 1
      /\ act.order \in Seq(Ids)
  BY DEF Types, ActTypes, ActType
<1>1. CASE Check
  <2>1. DockerTypes'
    BY <1>1 DEF Types, DockerTypes, Check, docker, timers
  <2>2. act.next <= Len(act.order) /\ act.pc = "check" /\ act.on = NoDep
    BY <1>0, <1>1 DEF Check, AtEnd, Types, ActTypes
  <2>3. CASE act' = Moved(act, act.failed)
    <3>1. /\ act' \in ActType /\ act'.pc = "check" /\ act'.on = NoDep
          /\ act'.next = act.next + 1 /\ act'.failed = act.failed
          /\ act'.order = act.order
      BY <1>0, <2>2, <2>3, MovedType
    <3>2. ActTypes'
      BY <1>0, <2>2, <3>1 DEF ActTypes
    <3>3. TimerTypes'
      BY <1>1, <2>2, <3>1 DEF Types, TimerTypes, Check, timers
    <3> QED BY <2>1, <3>2, <3>3 DEF Types
  <2>4. CASE act' = [act EXCEPT !.pc = "wait", !.waits = Waits(Current)]
    <3>1. Waits(Current) \in SUBSET Dep
      BY <2>2, WaitsType
    <3>2. /\ act' \in ActType /\ act'.pc = "wait" /\ act'.on = act.on
          /\ act'.next = act.next /\ act'.failed = act.failed
          /\ act'.order = act.order
      BY <1>0, <2>4, <3>1 DEF ActType
    <3>3. ActTypes'
      BY <1>0, <2>2, <3>2 DEF ActTypes
    <3>4. TimerTypes'
      BY <1>1, <2>2, <3>2 DEF Types, TimerTypes, Check, timers
    <3> QED BY <2>1, <3>3, <3>4 DEF Types
  <2> QED BY <1>1, <2>3, <2>4, CheckShape
<1>2. CASE BeginWait
  <2>1. DockerTypes'
    BY <1>2 DEF Types, DockerTypes, BeginWait, docker, counts
  <2>2. act.pc = "wait" /\ act.on = NoDep
    BY <1>2 DEF BeginWait
  <2>3. PICK d \in act.waits : act' = [act EXCEPT !.on = d, !.waits = act.waits \ {d}]
    BY <1>0, <1>2 DEF BeginWait, ActType
  <2>4. d \in Dep /\ d # NoDep
    BY <1>0, <2>3, NoDepAssumption DEF ActType
  <2>5. /\ act' \in ActType /\ act'.pc = "wait" /\ act'.on = d
        /\ act'.next = act.next /\ act'.failed = act.failed /\ act'.order = act.order
    BY <1>0, <2>2, <2>3, <2>4 DEF ActType
  <2>6. ActTypes'
    BY <1>0, <2>2, <2>5 DEF Types, ActTypes
  <2>7. left' = left /\ patience' = DepWait /\ nap' = nap
    BY <1>2 DEF BeginWait
  <2>8. TimerTypes'
    BY <2>2, <2>4, <2>5, <2>7, TimerAssumption DEF Types, TimerTypes
  <2> QED BY <2>1, <2>6, <2>8 DEF Types
<1>3. CASE PollDep
  <2>1. DockerTypes'
    BY <1>3 DEF Types, DockerTypes, PollDep, docker
  <2>2. act.pc = "wait" /\ act.on # NoDep /\ nap = 0
    BY <1>3 DEF PollDep
  <2>3. CASE act' = [act EXCEPT !.on = NoDep] /\ patience' = 0 /\ nap' = nap
    <3>1. /\ act' \in ActType /\ act'.pc = "wait" /\ act'.on = NoDep
          /\ act'.next = act.next /\ act'.failed = act.failed /\ act'.order = act.order
      BY <1>0, <2>2, <2>3 DEF ActType
    <3>2. ActTypes'
      BY <1>0, <2>2, <3>1 DEF Types, ActTypes
    <3>3. TimerTypes'
      BY <1>3, <2>2, <2>3, <3>1, TimerAssumption DEF Types, TimerTypes, PollDep
    <3> QED BY <2>1, <3>2, <3>3 DEF Types
  <2>4. CASE act' = act /\ patience' = patience /\ nap' = 1
    <3>1. ActTypes'
      BY <2>4 DEF Types, ActTypes
    <3>2. TimerTypes'
      BY <1>3, <2>2, <2>4, TimerAssumption DEF Types, TimerTypes, PollDep
    <3> QED BY <2>1, <3>1, <3>2 DEF Types
  <2> QED BY <1>3, <2>3, <2>4 DEF PollDep
<1>4. CASE Start
  <2>1. act.next <= Len(act.order) /\ act.pc = "wait" /\ act.on = NoDep
    BY <1>4 DEF Start, Types, ActTypes
  <2>2. Current \in Ids
    BY <2>1, CurrentType
  <2>3. DockerTypes'
    BY <1>4, <2>2 DEF Types, DockerTypes, Start, Probed, timers
  <2>4. /\ act' \in ActType /\ act'.pc = "check" /\ act'.order = act.order
        /\ act'.next = act.next + 1 /\ act'.on = NoDep
        /\ act'.failed \in {act.failed, act.failed + 1}
    BY <1>4, StartShape
  <2>5. ActTypes'
    BY <1>0, <2>1, <2>4 DEF ActTypes
  <2>6. TimerTypes'
    BY <1>4, <2>1, <2>4 DEF Types, TimerTypes, Start, timers
  <2> QED BY <2>3, <2>5, <2>6 DEF Types
<1>5. CASE FinishPass
  <2>1. DockerTypes'
    BY <1>5 DEF Types, DockerTypes, FinishPass, docker, counts
  <2>2. ActTypes'
    BY <1>5, IdleType DEF ActTypes, FinishPass
  <2>3. act.on = NoDep /\ act.pc = "check" /\ act' = Idle
    BY <1>5 DEF Types, ActTypes, FinishPass
  <2>4. TimerTypes'
    BY <1>5, <2>3, TimerAssumption, IdleType DEF Types, TimerTypes, FinishPass
  <2> QED BY <2>1, <2>2, <2>4 DEF Types
<1>6. CASE NextPass
  <2>1. DockerTypes'
    BY <1>6 DEF Types, DockerTypes, NextPass, docker, counts
  <2>2. act.on = NoDep /\ act.pc = "check" /\ act' = [act EXCEPT !.pc = "nap"]
    BY <1>6 DEF Types, ActTypes, NextPass
  <2>3. /\ act' \in ActType /\ act'.pc = "nap" /\ act'.on = NoDep
        /\ act'.next = act.next /\ act'.failed = act.failed /\ act'.order = act.order
    BY <1>0, <2>2 DEF ActType
  <2>4. ActTypes'
    BY <1>0, <2>3 DEF ActTypes
  <2>5. nap' \in 0 .. 1
    BY <1>6 DEF NextPass
  <2>6. TimerTypes'
    BY <1>6, <2>2, <2>3, <2>5, TimerAssumption DEF Types, TimerTypes, NextPass
  <2> QED BY <2>1, <2>4, <2>6 DEF Types
<1>7. CASE Wake
  <2>1. DockerTypes'
    BY <1>7 DEF Types, DockerTypes, Wake, docker, counts
  <2>2. act' = Fresh(act.kind, "check", act.order)
    BY <1>7 DEF Wake, Fresh
  <2>3. /\ act' \in ActType /\ act'.pc = "check" /\ act'.on = NoDep
        /\ act'.next = 1 /\ act'.failed = 0 /\ act'.order = act.order
    <3>1. act.kind \in {"none", "start", "stop", "restart"}
      BY <1>0 DEF ActType
    <3> QED BY <1>0, <2>2, <3>1, FreshType
  <2>4. ActTypes'
    BY <1>0, <2>3 DEF ActTypes
  <2>5. act.on = NoDep /\ nap = 0
    BY <1>7 DEF Types, ActTypes, Wake
  <2>6. TimerTypes'
    BY <1>7, <2>3, <2>5 DEF Types, TimerTypes, Wake, timers
  <2> QED BY <2>1, <2>4, <2>6 DEF Types
<1> QED BY <1>1, <1>2, <1>3, <1>4, <1>5, <1>6, <1>7

\* Every step preserves the types.
LEMMA NextTypes == Types /\ [Next]_vars => Types'
<1> SUFFICES ASSUME Types, [Next]_vars PROVE Types'
  OBVIOUS
<1>1. CASE \E kind \in {"start", "stop", "restart"} : Request(kind)
  BY <1>1, RequestTypes
<1>2. CASE Cancel
  BY <1>2, CancelTypes
<1>3. CASE Stop \/ Stopped
  BY <1>3, StopTypes
<1>4. CASE Check \/ BeginWait \/ PollDep \/ Start \/ FinishPass \/ NextPass \/ Wake
  BY <1>4, StartTypes
<1>5. CASE UNCHANGED vars
  BY <1>5 DEF Types, DockerTypes, ActTypes, TimerTypes, vars, docker, timers, counts
<1>6. CASE \/ \E m \in Ids : BecomesHealthy(m) \/ Exits(m) \/ Interfere(m)
           \/ \E m \in Ids, kind \in {"start", "stop", "restart"} :
                 ContainerAction(m, kind)
           \/ ListFails \/ Advance
  BY <1>6, WorldTypes
<1> QED BY <1>1, <1>2, <1>3, <1>4, <1>5, <1>6, Zenon DEF Next, Handler

\* Type correctness: at every step of an action its cursor is on a member, and the
\* deadlines and sleeps of stack_action, start_in_order, wait_healthy and
\* wait_completed run only where the code has set them.
THEOREM TypeCorrect == Spec => []TypeOK
<1>1. Spec => []Types
  BY InitTypes, NextTypes, PTL DEF Spec
<1>2. Types => TypeOK
  BY TypesImply
<1> QED BY <1>1, <1>2, PTL

-----------------------------------------------------------------------------
(* The inductive invariant *)

\* Needs, Needed, Orderly and Sorted of a stack that is given.
NeedsOf(k, ds, m, x) == \E d \in ds[m] : d.service = k.service[x]

NeededOf(k, ds, m) ==
    {y \in Range(k.listing) : \A S \in SUBSET Range(k.listing) :
        (\A z \in S, x \in Range(k.listing) : NeedsOf(k, ds, z, x) => x \in S)
          /\ (\A x \in Range(k.listing) : NeedsOf(k, ds, m, x) => x \in S) => y \in S}

OrderlyOf(k, ds, m) == \A x \in NeededOf(k, ds, m) \union {m} : x \notin NeededOf(k, ds, x)

SortedOf(k, ds, t) == \A i, j \in 1 .. Len(t) :
    OrderlyOf(k, ds, t[j]) /\ NeedsOf(k, ds, t[j], t[i]) => i < j

\* They say the same of the stack acted on.
LEMMA SortedIs ==
  ASSUME NEW ds, NEW t
  PROVE SortedOf(stack, ds, t) <=> Sorted(ds, t)
<1>1. \A m, x : NeedsOf(stack, ds, m, x) <=> Needs(ds, m, x)
  BY DEF NeedsOf, Needs
<1>2. \A m : NeededOf(stack, ds, m) = Needed(ds, m)
  BY <1>1, Zenon DEF NeededOf, Needed, Closed, Members
<1>3. \A m : OrderlyOf(stack, ds, m) <=> Orderly(ds, m)
  BY <1>2, Zenon DEF OrderlyOf, Orderly
<1> QED BY <1>1, <1>3, Zenon DEF SortedOf, Sorted

\* The order has every member, and is that of topo_order, or backwards.
OrderInv == act.pc # "idle" =>
    /\ Range(act.order) = Range(stack.listing)
    /\ Single => SortedOf(stack, deps, IF act.pc = "stop" THEN Backwards(act.order)
                                                       ELSE act.order)

\* What stop_in_order has gone past is stopped, or refused to.
StopInv == interference = 0 /\ act.pc = "stop" =>
    \A k \in 1 .. act.next - 1 : act.order[k] \notin running \/ act.order[k] \in refused

\* What a pass without failures has gone past is running, or exits by itself.
PassInv == interference = 0 /\ act.pc \in {"check", "wait"} /\ act.failed = 0 =>
    \A k \in 1 .. act.next - 1 : act.order[k] \in running \union stack.oneshot

\* x need not be waited for any longer.
Fit(x) == \/ x \in healthy \/ x \notin probed
          \/ x \in gaveUp \/ x \in stack.oneshot \ running

\* What a member needs healthy is, or is still to be waited for.
HealthInv == Single /\ interference + blind = 0 /\ act.pc = "wait" =>
    \A d \in deps[act.order[act.next]], x \in Range(stack.listing) :
        d.condition = "healthy" /\ stack.service[x] = d.service =>
          d \in act.waits \/ d = act.on \/ Fit(x)

StackInv == Types /\ OrderInv /\ StopInv /\ PassInv /\ HealthInv

\* The invariant holds initially.
LEMMA InitInv == Init => StackInv
<1> SUFFICES ASSUME Init PROVE StackInv
  OBVIOUS
<1>1. Types
  BY InitTypes
<1>2. act.pc = "idle"
  BY IdleType DEF Init
<1> QED BY <1>1, <1>2 DEF StackInv, OrderInv, StopInv, PassInv, HealthInv

\* An action that is not under way has nothing to keep.
LEMMA IdleInv ==
  ASSUME act' = Idle
  PROVE OrderInv' /\ StopInv' /\ PassInv' /\ HealthInv'
<1>1. act'.pc = "idle"
  BY IdleType
<1> QED BY <1>1 DEF OrderInv, StopInv, PassInv, HealthInv

\* Healthchecks, exits and the clock preserve the invariant.
LEMMA DaemonInv ==
  ASSUME StackInv, \/ \E m \in Ids : BecomesHealthy(m) \/ Exits(m)
                   \/ Advance \/ UNCHANGED vars
  PROVE OrderInv' /\ StopInv' /\ PassInv' /\ HealthInv'
<1>1. UNCHANGED <<stack, deps, act, probed, gaveUp, refused, interference, blind>>
  BY DEF BecomesHealthy, Exits, Advance, vars, docker, counts
<1>2. /\ running' \subseteq running
      /\ \A x \in running \ running' : x \in stack.oneshot
      /\ \A x \in healthy \ healthy' : x \in stack.oneshot \ running'
  <2>1. CASE \E m \in Ids : BecomesHealthy(m)
    BY <2>1 DEF BecomesHealthy
  <2>2. CASE \E m \in Ids : Exits(m)
    BY <2>2 DEF Exits
  <2>3. CASE Advance \/ UNCHANGED vars
    BY <2>3 DEF Advance, vars, docker
  <2> QED BY <2>1, <2>2, <2>3
<1>3. OrderInv'
  BY <1>1 DEF StackInv, OrderInv
<1>4. StopInv'
  BY <1>1, <1>2 DEF StackInv, StopInv
<1>5. PassInv'
  BY <1>1, <1>2 DEF StackInv, PassInv
<1>6. HealthInv'
  <2>1. \A x : Fit(x) => Fit(x)'
    BY <1>1, <1>2 DEF Fit
  <2> QED BY <1>1, <2>1 DEF StackInv, HealthInv
<1> QED BY <1>3, <1>4, <1>5, <1>6

\* Interference does, as the invariant says little after it.
LEMMA OthersInv ==
  ASSUME StackInv,
         \/ \E m \in Ids : Interfere(m)
         \/ \E m \in Ids, kind \in {"start", "stop", "restart"} :
               ContainerAction(m, kind)
         \/ ListFails
  PROVE OrderInv' /\ StopInv' /\ PassInv' /\ HealthInv'
<1>1. UNCHANGED <<stack, deps, act, blind>> /\ interference' = interference + 1
  BY DEF Interfere, ContainerAction, ListFails, docker
<1>2. interference' > 0 /\ blind \in Nat
  BY <1>1 DEF StackInv, Types, DockerTypes
<1>3. OrderInv'
  BY <1>1 DEF StackInv, OrderInv
<1> QED BY <1>1, <1>2, <1>3 DEF StopInv, PassInv, HealthInv

\* A new action has the order of topo_order, and nothing behind it.
LEMMA RequestInv ==
  ASSUME StackInv, NEW kind \in {"start", "stop", "restart"}, Request(kind)
  PROVE OrderInv' /\ StopInv' /\ PassInv' /\ HealthInv'
<1>1. PICK ds :
        /\ deps' = ds /\ stack' = stack
        /\ act' = IF kind = "start" THEN Fresh(kind, "check", TopoOrder(ds))
                                    ELSE Fresh(kind, "stop", StopOrder(ds))
  BY DEF Request, Fresh, docker
<1>2. /\ TopoOrder(ds) \in Seq(Ids) /\ Range(TopoOrder(ds)) = Range(stack.listing)
      /\ Single => SortedOf(stack, ds, TopoOrder(ds))
  BY TopoFacts, SortedIs DEF StackInv, Types, DockerTypes, Members
<1>3. CASE kind = "start"
  <2>1. act'.pc = "check" /\ act'.next = 1 /\ act'.order = TopoOrder(ds)
    BY <1>1, <1>2, <1>3, FreshType
  <2>2. OrderInv'
    BY <1>1, <1>2, <2>1 DEF OrderInv
  <2> QED BY <2>1, <2>2 DEF StopInv, PassInv, HealthInv
<1>4. CASE kind # "start"
  <2>1. StopOrder(ds) \in Seq(Ids) /\ Range(StopOrder(ds)) = Range(stack.listing)
        /\ Backwards(StopOrder(ds)) = TopoOrder(ds)
    BY <1>2, BackwardsFacts DEF StopOrder
  <2>2. act'.pc = "stop" /\ act'.next = 1 /\ act'.order = StopOrder(ds)
    BY <1>1, <1>4, <2>1, FreshType
  <2>3. OrderInv'
    <3>1. Single => SortedOf(stack', deps', Backwards(act'.order))
      BY <1>1, <1>2, <2>1, <2>2
    <3> QED BY <1>1, <2>1, <2>2, <3>1 DEF OrderInv
  <2> QED BY <2>2, <2>3 DEF StopInv, PassInv, HealthInv
<1> QED BY <1>3, <1>4

\* A member that is gone past is stopped, or has refused.
LEMMA StopStepInv ==
  ASSUME StackInv, Stop
  PROVE OrderInv' /\ StopInv' /\ PassInv' /\ HealthInv'
<1>1. /\ act \in ActType /\ act.pc = "stop" /\ act.next \in Nat \ {0}
      /\ act.failed \in Nat
  BY DEF StackInv, Types, ActTypes, ActType, Stop
<1>2. PICK f \in {act.failed, act.failed + 1} : act' = Moved(act, f)
  <2>1. CASE act' = Onward(act)
    <3>1. act' = Moved(act, act.failed)
      BY <1>1, <2>1 DEF Onward, Moved, ActType
    <3> QED BY <3>1
  <2>2. CASE act' = Onward([act EXCEPT !.failed = @ + 1])
    <3>1. act' = Moved(act, act.failed + 1)
      BY <1>1, <2>2 DEF Onward, Moved, ActType
    <3> QED BY <3>1
  <2> QED BY <2>1, <2>2 DEF Stop
<1>3. act'.pc = "stop" /\ act'.next = act.next + 1 /\ act'.order = act.order
  <2>1. f \in Nat
    BY <1>1
  <2> QED BY <1>1, <1>2, <2>1, MovedType
<1>4. /\ UNCHANGED <<stack, deps, interference>>
      /\ \/ running' = running \ {Current} /\ refused' = refused
         \/ running' = running /\ refused' = refused \union {Current}
  BY DEF Stop
<1>5. OrderInv'
  BY <1>1, <1>3, <1>4 DEF StackInv, OrderInv
<1>6. StopInv'
  <2> SUFFICES ASSUME interference = 0, NEW k \in 1 .. act.next
               PROVE act.order[k] \notin running' \/ act.order[k] \in refused'
    BY <1>1, <1>3, <1>4 DEF StopInv
  <2>1. CASE k = act.next
    BY <1>4, <2>1 DEF Current
  <2>2. CASE k \in 1 .. act.next - 1
    BY <1>1, <1>4, <2>2 DEF StackInv, StopInv
  <2> QED BY <1>1, <2>1, <2>2
<1> QED BY <1>3, <1>5, <1>6 DEF PassInv, HealthInv

\* A restart goes on with the order backwards.
LEMMA StoppedInv ==
  ASSUME StackInv, Stopped
  PROVE OrderInv' /\ StopInv' /\ PassInv' /\ HealthInv'
<1>1. CASE act' = Idle
  BY <1>1, IdleInv
<1>2. CASE act' = Fresh(act.kind, "check", Backwards(act.order))
  <2>1. act \in ActType /\ act.order \in Seq(Ids)
        /\ act.kind \in {"none", "start", "stop", "restart"}
    BY DEF StackInv, Types, ActTypes, ActType
  <2>2. Backwards(act.order) \in Seq(Ids) /\ Range(Backwards(act.order)) = Range(act.order)
    BY <2>1, BackwardsFacts
  <2>3. act'.pc = "check" /\ act'.next = 1 /\ act'.order = Backwards(act.order)
    BY <1>2, <2>1, <2>2, FreshType
  <2>4. UNCHANGED <<stack, deps>> /\ act.pc = "stop"
    BY DEF Stopped, docker
  <2>5. OrderInv'
    BY <2>2, <2>3, <2>4 DEF StackInv, OrderInv
  <2> QED BY <2>3, <2>5 DEF StopInv, PassInv, HealthInv
<1> QED BY <1>1, <1>2 DEF Stopped, Fresh

\* Where services have one container, IdOf is that container.
LEMMA IdOfSingle ==
  ASSUME stack \in Stacks, Single, NEW x \in Range(stack.listing)
  PROVE IdOf(stack.service[x]) = x
<1> DEFINE l == stack.listing
           at == {k \in DOMAIN l : stack.service[l[k]] = stack.service[x]}
<1>1. l \in Seq(Ids) /\ Len(l) \in Nat /\ DOMAIN l = 1 .. Len(l)
  BY StackFacts
<1>2. at # {} /\ at \subseteq 1 .. Len(l)
  BY <1>1 DEF Range
<1>3. \E k \in at : \A j \in at : j <= k
  <2> DEFINE U == {Len(l) - k : k \in at}
  <2>1. U \in SUBSET Nat /\ U # {}
    <3> HIDE DEF l, at
    <3>1. \A k \in at : Len(l) - k \in Nat
      BY <1>1, <1>2
    <3>2. PICK k \in at : TRUE
      BY <1>2
    <3> QED BY <3>1, <3>2
  <2>2. PICK u \in U : \A v \in U : u <= v
    <3> HIDE DEF U
    <3> QED BY <2>1, LeastNat
  <2>3. PICK k \in at : u = Len(l) - k
    BY <2>2
  <2>4. ASSUME NEW j \in at PROVE j <= k
    <3>1. Len(l) - k <= Len(l) - j /\ j \in 1 .. Len(l) /\ k \in 1 .. Len(l)
      BY <1>2, <2>2, <2>3, <2>4
    <3> QED BY <1>1, <3>1
  <2> QED BY <2>4
<1>4. (CHOOSE k \in at : \A j \in at : j <= k) \in at
  <2> HIDE DEF at
  <2> QED BY <1>3
<1>5. \A k \in at : l[k] = x
  <2> SUFFICES ASSUME NEW k \in at PROVE l[k] = x
    OBVIOUS
  <2>1. l[k] \in Range(l) /\ stack.service[l[k]] = stack.service[x]
    BY DEF Range
  <2> QED BY <2>1 DEF Single
<1> QED BY <1>4, <1>5 DEF IdOf

\* A check goes past a running member, or waits for all it needs healthy.
LEMMA CheckInv ==
  ASSUME StackInv, Check
  PROVE OrderInv' /\ StopInv' /\ PassInv' /\ HealthInv'
<1>1. /\ act \in ActType /\ act.pc = "check" /\ act.next \in Nat \ {0}
      /\ act.failed \in Nat
  BY DEF StackInv, Types, ActTypes, ActType, Check
<1>2. UNCHANGED <<stack, deps, running, healthy, probed, gaveUp, interference>>
  BY DEF Check, docker
<1>3. CASE Current \in running /\ act' = Moved(act, act.failed)
  <2>1. /\ act'.pc = "check" /\ act'.next = act.next + 1 /\ act'.order = act.order
        /\ act'.failed = act.failed
    BY <1>1, <1>3, MovedType
  <2>2. OrderInv'
    BY <1>1, <1>2, <2>1 DEF StackInv, OrderInv
  <2>3. PassInv'
    <3> SUFFICES ASSUME interference = 0, act.failed = 0, NEW k \in 1 .. act.next
                 PROVE act.order[k] \in running \union stack.oneshot
      BY <1>1, <1>2, <2>1 DEF PassInv
    <3>1. CASE k = act.next
      BY <1>3, <3>1 DEF Current
    <3>2. CASE k \in 1 .. act.next - 1
      BY <1>1, <3>2 DEF StackInv, PassInv
    <3> QED BY <1>1, <3>1, <3>2
  <2> QED BY <2>1, <2>2, <2>3 DEF StopInv, HealthInv
<1>4. CASE act' = [act EXCEPT !.pc = "wait", !.waits = Waits(Current)]
  <2>1. /\ act'.pc = "wait" /\ act'.next = act.next /\ act'.order = act.order
        /\ act'.failed = act.failed /\ act'.waits = Waits(Current)
    BY <1>1, <1>4 DEF ActType
  <2>2. OrderInv'
    BY <1>1, <1>2, <2>1 DEF StackInv, OrderInv
  <2>3. PassInv'
    BY <1>1, <1>2, <2>1 DEF StackInv, PassInv
  <2>4. HealthInv'
    <3> SUFFICES ASSUME NEW d \in deps[Current], NEW x \in Range(stack.listing),
                        d.condition = "healthy", stack.service[x] = d.service
                 PROVE d \in Waits(Current)
      BY <1>2, <2>1 DEF HealthInv, Current
    <3> QED BY DEF Waits, InStack, Members
  <2> QED BY <2>1, <2>2, <2>3, <2>4 DEF StopInv
<1> QED BY <1>3, <1>4, CheckShape DEF StackInv

\* A dependency waited for is still waited for.
LEMMA BeginWaitInv ==
  ASSUME StackInv, BeginWait
  PROVE OrderInv' /\ StopInv' /\ PassInv' /\ HealthInv'
<1>1. act \in ActType /\ act.pc = "wait"
  BY DEF StackInv, Types, ActTypes, BeginWait
<1>2. UNCHANGED <<stack, deps, running, healthy, probed, gaveUp, interference, blind>>
  BY DEF BeginWait, docker, counts
<1>3. PICK d \in act.waits : act' = [act EXCEPT !.on = d, !.waits = act.waits \ {d}]
  BY <1>1 DEF BeginWait, ActType
<1>4. /\ act'.pc = "wait" /\ act'.next = act.next /\ act'.order = act.order
      /\ act'.failed = act.failed /\ act'.on = d /\ act'.waits = act.waits \ {d}
  BY <1>1, <1>3 DEF ActType
<1>5. OrderInv'
  BY <1>1, <1>2, <1>4 DEF StackInv, OrderInv
<1>6. PassInv'
  BY <1>1, <1>2, <1>4 DEF StackInv, PassInv
<1>7. HealthInv'
  <2>1. act.on = NoDep
    BY DEF BeginWait
  <2>2. \A x : Fit(x)' <=> Fit(x)
    BY <1>2 DEF Fit
  <2> SUFFICES ASSUME Single, interference + blind = 0,
                      NEW e \in deps[act.order[act.next]], NEW x \in Range(stack.listing),
                      e.condition = "healthy", stack.service[x] = e.service
               PROVE e \in act'.waits \/ e = act'.on \/ Fit(x)
    BY <1>2, <1>4, <2>2 DEF HealthInv
  <2>3. e \in act.waits \/ e = NoDep \/ Fit(x)
    BY <1>1, <2>1 DEF StackInv, HealthInv
  <2>4. e # NoDep
    <3>1. act.order[act.next] \in Ids
      BY CurrentType, <1>1 DEF StackInv, Types, ActTypes, Current
    <3> QED BY <3>1, NoDepAssumption DEF StackInv, Types, DockerTypes
  <2> QED BY <1>4, <2>3, <2>4
<1> QED BY <1>4, <1>5, <1>6, <1>7 DEF StopInv

\* A poll ends a wait only when the dependency is met or given up on.
LEMMA PollDepInv ==
  ASSUME StackInv, PollDep
  PROVE OrderInv' /\ StopInv' /\ PassInv' /\ HealthInv'
<1>1. act \in ActType /\ act.pc = "wait" /\ stack \in Stacks /\ blind \in Nat
      /\ interference \in Nat
  BY DEF StackInv, Types, ActTypes, DockerTypes, PollDep
<1>2. UNCHANGED <<stack, deps, running, healthy, probed, interference>>
  BY DEF PollDep, docker
<1>3. /\ act'.pc = "wait" /\ act'.next = act.next /\ act'.order = act.order
      /\ act'.failed = act.failed /\ act'.waits = act.waits
      /\ act'.on = act.on \/ act'.on = NoDep
  <2>1. CASE act' = act
    BY <1>1, <2>1
  <2>2. CASE act' = [act EXCEPT !.on = NoDep]
    BY <1>1, <2>2 DEF ActType
  <2> QED BY <2>1, <2>2 DEF PollDep
<1>4. OrderInv'
  BY <1>1, <1>2, <1>3 DEF StackInv, OrderInv
<1>5. PassInv'
  BY <1>1, <1>2, <1>3 DEF StackInv, PassInv
<1>6. HealthInv'
  <2> SUFFICES ASSUME Single, interference + blind' = 0,
                      NEW d \in deps[act.order[act.next]], NEW x \in Range(stack.listing),
                      d.condition = "healthy", stack.service[x] = d.service
               PROVE d \in act.waits \/ d = act'.on \/ Fit(x)'
    BY <1>2, <1>3 DEF HealthInv
  <2>1. blind' = blind /\ blind = 0
    BY <1>1 DEF PollDep
  <2>2. d \in act.waits \/ d = act.on \/ Fit(x)
    BY <1>1, <2>1 DEF StackInv, HealthInv
  <2>3. Fit(x) => Fit(x)'
    BY <1>2 DEF Fit, PollDep
  <2>4. CASE d = act.on
    <3>1. IdOf(act.on.service) = x
      BY <1>1, <2>4, IdOfSingle
    <3>2. CASE Met(act.on)
      <4>1. x \in healthy \/ x \notin probed
        BY <2>4, <3>1, <3>2 DEF Met
      <4> QED BY <1>2, <4>1 DEF Fit
    <3>3. CASE gaveUp' = gaveUp \union {IdOf(act.on.service)}
      BY <3>1, <3>3 DEF Fit
    <3>4. CASE act' = act
      BY <2>4, <3>4
    <3> QED BY <1>1, <2>1, <3>2, <3>3, <3>4 DEF PollDep
  <2> QED BY <2>2, <2>3, <2>4
<1> QED BY <1>3, <1>4, <1>5, <1>6 DEF StopInv

\* A pass without failures has started the member it goes past.
LEMMA StartInv ==
  ASSUME StackInv, Start
  PROVE OrderInv' /\ StopInv' /\ PassInv' /\ HealthInv'
<1>1. /\ act \in ActType /\ act.pc = "wait" /\ act.next \in Nat \ {0}
      /\ act.failed \in Nat
  BY DEF StackInv, Types, ActTypes, ActType, Start
<1>2. UNCHANGED <<stack, deps, interference>>
  BY DEF Start
<1>3. /\ act'.pc = "check" /\ act'.order = act.order /\ act'.next = act.next + 1
      /\ \/ act'.failed = act.failed /\ running' = running \union {Current}
         \/ act'.failed = act.failed + 1 /\ running' = running
  BY StartShape DEF StackInv
<1>4. OrderInv'
  BY <1>1, <1>2, <1>3 DEF StackInv, OrderInv
<1>5. PassInv'
  <2> SUFFICES ASSUME interference = 0, act'.failed = 0, NEW k \in 1 .. act.next
               PROVE act.order[k] \in running' \union stack.oneshot
    BY <1>1, <1>2, <1>3 DEF PassInv
  <2>1. act.failed = 0 /\ running' = running \union {Current}
    BY <1>1, <1>3
  <2>2. CASE k = act.next
    BY <2>1, <2>2 DEF Current
  <2>3. CASE k \in 1 .. act.next - 1
    BY <1>1, <2>1, <2>3 DEF StackInv, PassInv
  <2> QED BY <1>1, <2>2, <2>3
<1> QED BY <1>3, <1>4, <1>5 DEF StopInv, HealthInv

\* A further pass goes through the same order from the beginning.
LEMMA PassInvs ==
  ASSUME StackInv, NextPass \/ Wake
  PROVE OrderInv' /\ StopInv' /\ PassInv' /\ HealthInv'
<1>1. /\ act \in ActType /\ act.pc \in {"check", "nap"} /\ act.order \in Seq(Ids)
      /\ act.kind \in {"none", "start", "stop", "restart"}
  BY DEF StackInv, Types, ActTypes, ActType, NextPass, Wake
<1>2. UNCHANGED <<stack, deps>>
  BY DEF NextPass, Wake, docker
<1>3. /\ act'.order = act.order
      /\ act'.pc = "nap" \/ (act'.pc = "check" /\ act'.next = 1)
  <2>1. CASE NextPass
    BY <1>1, <2>1 DEF NextPass, ActType
  <2>2. CASE Wake
    <3>1. act' = Fresh(act.kind, "check", act.order)
      BY <2>2 DEF Wake, Fresh
    <3> QED BY <1>1, <3>1, FreshType
  <2> QED BY <2>1, <2>2
<1>4. OrderInv'
  BY <1>1, <1>2, <1>3 DEF StackInv, OrderInv
<1> QED BY <1>3, <1>4 DEF StopInv, PassInv, HealthInv

\* Every step preserves the invariant.
LEMMA NextInv == StackInv /\ [Next]_vars => StackInv'
<1> SUFFICES ASSUME StackInv, [Next]_vars PROVE StackInv'
  OBVIOUS
<1>1. Types'
  BY NextTypes DEF StackInv
<1>2. OrderInv' /\ StopInv' /\ PassInv' /\ HealthInv'
  <2>1. CASE \E kind \in {"start", "stop", "restart"} : Request(kind)
    BY <2>1, RequestInv
  <2>2. CASE Cancel \/ FinishPass
    <3>1. act' = Idle
      BY <2>2 DEF Cancel, FinishPass
    <3> QED BY <3>1, IdleInv
  <2>3. CASE Stop
    BY <2>3, StopStepInv
  <2>4. CASE Stopped
    BY <2>4, StoppedInv
  <2>5. CASE Check
    BY <2>5, CheckInv
  <2>6. CASE BeginWait
    BY <2>6, BeginWaitInv
  <2>7. CASE PollDep
    BY <2>7, PollDepInv
  <2>8. CASE Start
    BY <2>8, StartInv
  <2>9. CASE NextPass \/ Wake
    BY <2>9, PassInvs
  <2>10. CASE (\E m \in Ids : BecomesHealthy(m) \/ Exits(m)) \/ Advance \/ UNCHANGED vars
    BY <2>10, DaemonInv
  <2>11. CASE \/ \E m \in Ids : Interfere(m)
              \/ \E m \in Ids, kind \in {"start", "stop", "restart"} :
                    ContainerAction(m, kind)
              \/ ListFails
    BY <2>11, OthersInv
  <2> QED BY <2>1, <2>2, <2>3, <2>4, <2>5, <2>6, <2>7, <2>8, <2>9, <2>10, <2>11, Zenon
          DEF Next, Handler
<1> QED BY <1>1, <1>2 DEF StackInv

\* Only Stop moves on to the next member of a stop.
LEMMA OnlyStopMoves ==
  ASSUME Types, [Next]_vars, act.pc = "stop", act'.next = act.next + 1
  PROVE Stop
<1>1. act.next \in Nat \ {0} /\ act.order \in Seq(Ids)
      /\ act.kind \in {"none", "start", "stop", "restart"}
  BY DEF Types, ActTypes, ActType
<1>2. act' # act /\ act' # Idle
  BY <1>1, IdleType
<1>3. ~(\E kind \in {"start", "stop", "restart"} : Request(kind))
  BY IdleType DEF Request
<1>4. ~Stopped
  <2> SUFFICES ASSUME Stopped PROVE FALSE
    OBVIOUS
  <2>1. act' = Fresh(act.kind, "check", Backwards(act.order))
    BY <1>2 DEF Stopped, Fresh
  <2>2. Backwards(act.order) \in Seq(Ids)
    BY <1>1, BackwardsFacts
  <2>3. act'.next = 1
    BY <1>1, <2>1, <2>2, FreshType
  <2> QED BY <1>1, <2>3
<1>5. ~(Check \/ BeginWait \/ PollDep \/ Start \/ FinishPass \/ NextPass \/ Wake)
  BY DEF Check, BeginWait, PollDep, Start, FinishPass, NextPass, Wake
<1>6. ~Cancel
  BY <1>2 DEF Cancel
<1> QED BY <1>2, <1>3, <1>4, <1>5, <1>6, Zenon DEF Next, Handler, BecomesHealthy, Exits,
        Interfere, Advance, ContainerAction, ListFails, vars

\* Only Start ends the wait for what a member needs and goes on checking.
LEMMA OnlyStartChecks ==
  ASSUME Types, [Next]_vars, act.pc = "wait", act'.pc = "check"
  PROVE Start
<1>1. act' # act /\ act' # Idle /\ act \in ActType
  BY IdleType DEF Types, ActTypes
<1>2. ~(\E kind \in {"start", "stop", "restart"} : Request(kind))
  BY IdleType DEF Request
<1>3. ~(Stop \/ Stopped \/ Check \/ FinishPass \/ NextPass \/ Wake)
  BY DEF Stop, Stopped, Check, FinishPass, NextPass, Wake
<1>4. ~BeginWait
  BY <1>1 DEF BeginWait, ActType
<1>5. ~PollDep
  BY <1>1 DEF PollDep, ActType
<1>6. ~Cancel
  BY <1>1 DEF Cancel
<1> QED BY <1>1, <1>2, <1>3, <1>4, <1>5, <1>6, Zenon DEF Next, Handler, BecomesHealthy,
        Exits, Interfere, Advance, ContainerAction, ListFails, vars

\* The invariant holds throughout.
LEMMA Invariance == Spec => []StackInv
BY InitInv, NextInv, PTL DEF Spec

-----------------------------------------------------------------------------
(* What follows *)

\* A start or restart that reports no failure leaves every member running, but
\* for those that are meant to exit, as long as nobody interferes
\* (start_in_order).
THEOREM OutcomesAreHonest == Spec => OutcomeHonest
<1>1. ASSUME StackInv, [Next]_vars
      PROVE [interference = 0 /\ outcome' # outcome =>
               \/ outcome'.kind = "stop" \/ outcome'.failed > 0
               \/ Members \subseteq running \union stack.oneshot]_vars
  <2> SUFFICES ASSUME interference = 0, outcome' # outcome
               PROVE \/ outcome'.kind = "stop" \/ outcome'.failed > 0
                     \/ Members \subseteq running \union stack.oneshot
    OBVIOUS
  <2>1. Stopped \/ FinishPass
    BY <1>1, Zenon DEF Next, Handler, BecomesHealthy, Exits, Interfere, Advance, Request,
       ContainerAction, ListFails, Cancel, Stop, Check, BeginWait, PollDep, Start,
       NextPass, Wake, vars
  <2>2. CASE Stopped
    <3>1. outcome' = [kind |-> "stop", failed |-> act.failed]
      BY <2>2 DEF Stopped
    <3> QED BY <3>1
  <2>3. CASE FinishPass
    <3>1. /\ act.pc = "check" /\ act.next > Len(act.order) /\ outcome'.failed = act.failed
      BY <2>3 DEF FinishPass, AtEnd
    <3>2. /\ act.failed \in Nat /\ act.next \in Nat /\ act.order \in Seq(Ids)
          /\ Len(act.order) \in Nat /\ DOMAIN act.order = 1 .. Len(act.order)
      BY <1>1 DEF StackInv, Types, ActTypes, ActType
    <3>3. CASE act.failed = 0
      <4>1. Range(act.order) = Members
        BY <1>1, <3>1 DEF StackInv, OrderInv, Members
      <4>2. \A k \in 1 .. act.next - 1 : act.order[k] \in running \union stack.oneshot
        BY <1>1, <3>1, <3>3 DEF StackInv, PassInv
      <4>3. ASSUME NEW m \in Members PROVE m \in running \union stack.oneshot
        <5>1. PICK k \in 1 .. Len(act.order) : act.order[k] = m
          BY <3>2, <4>1 DEF Range
        <5>2. k \in 1 .. act.next - 1
          BY <3>1, <3>2
        <5> QED BY <4>2, <5>1, <5>2
      <4> QED BY <4>3
    <3> QED BY <3>1, <3>2, <3>3
  <2> QED BY <2>1, <2>2, <2>3
<1> QED BY <1>1, Invariance, PTL DEF Spec, OutcomeHonest

\* What a member needs has had its turn before it, with no cycle below it.
LEMMA TurnsInOrder ==
  ASSUME Single, StackInv, act.pc = "wait", Orderly(deps, Current),
         NEW x \in Members, Needs(deps, Current, x)
  PROVE HadTurn(x)
<1>1. /\ act.order \in Seq(Ids) /\ Len(act.order) \in Nat /\ act.next \in Nat \ {0}
      /\ DOMAIN act.order = 1 .. Len(act.order)
  BY DEF StackInv, Types, ActTypes, ActType
<1>2. Sorted(deps, act.order) /\ Range(act.order) = Members
  BY SortedIs DEF StackInv, OrderInv, Members
<1>3. act.next \in 1 .. Len(act.order)
  BY <1>1 DEF StackInv, Types, ActTypes
<1>4. PICK k \in 1 .. Len(act.order) : act.order[k] = x
  BY <1>1, <1>2 DEF Range
<1>5. k < act.next
  BY <1>2, <1>3, <1>4 DEF Sorted, Current
<1>6. k \in 1 .. act.next - 1
  BY <1>1, <1>5
<1> QED BY <1>4, <1>6 DEF HadTurn

\* Nothing is stopped under a running container that needs it, and no member is
\* started before all it needs has had its turn, with the exceptions the property
\* names (stop_in_order, start_in_order, topo_order), where every service of a
\* stack has one container.
THEOREM OrderHolds ==
  ASSUME Single
  PROVE Spec => DependencyOrder
<1>1. ASSUME StackInv, [Next]_vars
      PROVE [/\ interference = 0 /\ act.pc = "stop" /\ act'.next = act.next + 1 =>
                  \A m \in Members : Orderly(deps, m) /\ Needs(deps, m, Current) =>
                    m \notin running \/ m \in refused
             /\ act.pc = "wait" /\ act'.next = act.next + 1 /\ Orderly(deps, Current) =>
                  \A x \in Members : Needs(deps, Current, x) => HadTurn(x)]_vars
  <2>0. /\ act.order \in Seq(Ids) /\ Len(act.order) \in Nat /\ act.next \in Nat \ {0}
        /\ DOMAIN act.order = 1 .. Len(act.order)
    BY <1>1 DEF StackInv, Types, ActTypes, ActType
  <2>1. ASSUME interference = 0, act.pc = "stop", act'.next = act.next + 1,
               NEW m \in Members, Orderly(deps, m), Needs(deps, m, Current)
        PROVE m \notin running \/ m \in refused
    <3> DEFINE t == Backwards(act.order)
    <3>1. /\ Len(t) = Len(act.order) /\ Backwards(t) = act.order /\ t \in Seq(Ids)
          /\ Range(t) = Members
      BY <1>1, <2>0, <2>1, BackwardsFacts DEF StackInv, OrderInv, Members
    <3>2. Sorted(deps, t)
      BY <1>1, <2>1, SortedIs DEF StackInv, OrderInv
    <3>3. \A i \in 1 .. Len(act.order) : act.order[i] = t[Len(act.order) + 1 - i]
      BY <3>1 DEF Backwards
    <3>4. act.next <= Len(act.order)
      <4>1. act'.next # 1
        BY <2>0, <2>1
      <4>2. Stop
        BY <1>1, <2>0, <2>1, <4>1, OnlyStopMoves DEF StackInv
      <4> QED BY <2>0, <4>2 DEF Stop, AtEnd
    <3> HIDE DEF t
    <3>5. PICK j \in 1 .. Len(act.order) : t[j] = m
      <4>1. DOMAIN t = 1 .. Len(act.order)
        BY <3>1
      <4> QED BY <3>1, <4>1 DEF Range
    <3> DEFINE i == Len(act.order) + 1 - act.next
               k == Len(act.order) + 1 - j
    <3>6. i \in 1 .. Len(act.order) /\ t[i] = Current
      <4>1. i \in 1 .. Len(act.order) /\ act.next \in 1 .. Len(act.order)
            /\ Len(act.order) + 1 - act.next = i
        BY <2>0, <3>4
      <4>2. act.order[act.next] = t[Len(act.order) + 1 - act.next]
        BY <3>3, <4>1
      <4> HIDE DEF i
      <4> QED BY <4>1, <4>2 DEF Current
    <3>7. i < j
      BY <2>1, <3>1, <3>2, <3>5, <3>6 DEF Sorted
    <3>8. k \in 1 .. act.next - 1 /\ k \in 1 .. Len(act.order)
          /\ Len(act.order) + 1 - k = j
      BY <2>0, <3>4, <3>7
    <3>9. act.order[k] = m
      BY <3>3, <3>5, <3>8
    <3> HIDE DEF k
    <3> QED BY <1>1, <2>1, <3>8, <3>9 DEF StackInv, StopInv
  <2>2. ASSUME act.pc = "wait", Orderly(deps, Current),
               NEW x \in Members, Needs(deps, Current, x)
        PROVE HadTurn(x)
    BY <1>1, <2>2, TurnsInOrder
  <2> QED BY <2>1, <2>2
<1> QED BY <1>1, Invariance, PTL DEF Spec, DependencyOrder

\* "a service_healthy dependency is waited on until its healthcheck reports
\* healthy" (stack_action), with the exceptions the property names, where every
\* service of a stack has one container.
THEOREM HealthHolds ==
  ASSUME Single
  PROVE Spec => HealthyFirst
<1>1. ASSUME StackInv, [Next]_vars
      PROVE [act.pc = "wait" /\ act'.pc = "check" /\ interference + blind = 0 =>
               \A d \in deps[Current] : d.condition = "healthy" =>
                 \A x \in Members : stack.service[x] = d.service =>
                   \/ x \in healthy \/ x \notin stack.checked
                   \/ x \in gaveUp \/ x \in stack.oneshot \ running
                   \/ x \notin probed /\ (HadTurn(x) \/ ~Orderly(deps, Current))]_vars
  <2> SUFFICES ASSUME act.pc = "wait", act'.pc = "check", interference + blind = 0,
                      NEW d \in deps[Current], d.condition = "healthy",
                      NEW x \in Members, stack.service[x] = d.service
               PROVE Fit(x) /\ (Orderly(deps, Current) => HadTurn(x))
    BY DEF Fit
  <2>1. act.waits = {} /\ act.on = NoDep
    BY <1>1, OnlyStartChecks DEF StackInv, Start
  <2>2. d # NoDep
    <3>1. Current \in Ids
      BY <1>1, CurrentType DEF StackInv, Types, ActTypes
    <3> QED BY <1>1, <3>1, NoDepAssumption DEF StackInv, Types, DockerTypes
  <2>3. Fit(x)
    BY <1>1, <2>1, <2>2 DEF StackInv, HealthInv, Current, Members
  <2>4. Needs(deps, Current, x)
    BY DEF Needs
  <2>5. Orderly(deps, Current) => HadTurn(x)
    BY <1>1, <2>4, TurnsInOrder
  <2> QED BY <2>3, <2>5
<1> QED BY <1>1, Invariance, PTL DEF Spec, HealthyFirst
=============================================================================
