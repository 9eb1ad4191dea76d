-------------------------- MODULE FederationProofs --------------------------
(***************************************************************************)
(* Theorems about the mirror of a federated node, for every set of names,  *)
(* every configuration of the hub and every bound.                         *)
(***************************************************************************)
EXTENDS Federation, FiniteSetTheorems, SequenceTheorems, TLAPS

-----------------------------------------------------------------------------
(* The inductive invariant *)

\* The pieces of whole events, two by two.
Paired(s) ==
    /\ Len(s) % 2 = 0
    /\ \A i \in DOMAIN s : s[i].end <=> i % 2 = 0
    /\ \A i \in DOMAIN s : i % 2 = 0 => s[i].of = s[i - 1].of

Rising(s) == \A i, j \in DOMAIN s : i <= j => s[i].snap <= s[j].snap

\* What the hub's session has still to make of: an event cut in two included.
Text == buf \o uplink.wire

Snaps(s) == {s[i].snap : i \in DOMAIN s}
Payloads(s) == [i \in DOMAIN s |-> s[i].of]

NoneAbove(A, B) == \A a \in A, b \in B : a <= b

\* The snapshots on their way from the node to the page, stage by stage.
Travelling == IF pc = "stream" THEN Snaps(Payloads(Text)) ELSE {}
Queued == Snaps(batch)
Held == IF hand = NoPayload THEN {} ELSE {hand.snap}
Stored == {hubSlot} \ {0}
Served == Snaps(downlink.wire)
Shown == {view.snap}

\* Nothing is newer than a thing that is further back on the way.
Chain(T, Q, H, S, D, V, p) ==
    /\ NoneAbove(T \union Q \union H \union S \union D \union V, {p})
    /\ NoneAbove(Q \union H \union S \union D \union V, T)
    /\ NoneAbove(H \union S \union D \union V, Q)
    /\ NoneAbove(S \union D \union V, H)
    /\ NoneAbove(D \union V, S)
    /\ NoneAbove(V, D)

\* The hub has an uplink while it streams, and whole events are on it; a
\* snapshot that was polled is in hand.
Session ==
    /\ pc \in {"reply", "polled"} => hand \in Payload
    /\ pc # "stream" => uplink = Closed
    /\ pc = "stream" => Paired(Text)

\* The node's slot is empty or up to date; the stages are in order, and so is
\* each of them.
Staged ==
    /\ nodeSlot \in {0, pub}
    /\ Rising(Payloads(Text)) /\ Rising(batch) /\ Rising(downlink.wire)
    /\ Chain(Travelling, Queued, Held, Stored, Served, Shown, pub)

MirrorInv == TypeOK /\ Session /\ Staged

-----------------------------------------------------------------------------
(* Sequences, counted and cut *)

\* The j-th of the even numbers up to 2 * m.
LEMMA EvenRank ==
  ASSUME NEW m \in Nat, NEW j \in 0..m
  PROVE  LET E == {i \in 1..2 * m : i % 2 = 0}
         IN Cardinality({i \in E : i <= 2 * j}) = j
<1> DEFINE F == {i \in {x \in 1..2 * m : x % 2 = 0} : i <= 2 * j}
           f == [k \in 1..j |-> 2 * k]
<1>1. f \in [1..j -> F]
  OBVIOUS
<1>2. f \in Injection(1..j, F)
  BY <1>1 DEF Injection, IsInjective
<1>3. \A i \in F : \E k \in 1..j : f[k] = i
  <2> SUFFICES ASSUME NEW i \in F PROVE \E k \in 1..j : f[k] = i
    OBVIOUS
  <2>1. i \in Nat /\ i % 2 = 0 /\ 1 <= i /\ i <= 2 * j
    OBVIOUS
  <2>2. PICK k \in Nat : i = 2 * k
    <3> (i \div 2) \in Nat /\ i = 2 * (i \div 2)
      BY <2>1
    <3> QED OBVIOUS
  <2> QED BY <2>1, <2>2
<1>4. f \in Bijection(1..j, F)
  BY <1>1, <1>2, <1>3 DEF Bijection, Surjection
<1>5. IsFiniteSet(1..j) /\ Cardinality(1..j) = j
  BY FS_Interval
<1>6. IsFiniteSet(F) /\ Cardinality(F) = Cardinality(1..j)
  BY <1>4, <1>5, FS_Bijection DEF ExistsBijection
<1> QED BY <1>5, <1>6

\* The j-th of them is 2 * j.
LEMMA NthEven ==
  ASSUME NEW m \in Nat, NEW j \in 1..m
  PROVE  Nth({i \in 1..2 * m : i % 2 = 0}, j) = 2 * j
<1> DEFINE E == {i \in 1..2 * m : i % 2 = 0}
           R(i) == Cardinality({x \in E : x <= i})
<1>1. 2 * j \in E /\ R(2 * j) = j
  BY EvenRank
<1>2. ASSUME NEW i \in E, R(i) = j PROVE i = 2 * j
  <2>1. PICK k \in 0..m : i = 2 * k
    <3> (i \div 2) \in 0..m /\ i = 2 * (i \div 2)
      OBVIOUS
    <3> QED OBVIOUS
  <2>2. R(2 * k) = k
    BY EvenRank
  <2> QED BY <2>1, <2>2, <1>2
<1> HIDE DEF R, E
<1>3. (CHOOSE i \in E : R(i) = j) = 2 * j
  BY <1>1, <1>2
<1> QED BY <1>3 DEF Nth, R, E

\* The events of a prefix of whole events, and the piece it may leave over.
LEMMA PrefixRead ==
  ASSUME NEW s \in Seq(Piece), Paired(s), NEW n \in 0..Len(s), NEW t,
         t = SubSeq(s, 1, n)
  PROVE  \E m \in Nat :
           /\ 2 * m <= n /\ n <= 2 * m + 1
           /\ Ends(t) = {i \in 1..2 * m : i % 2 = 0}
           /\ Rest(t) = SubSeq(t, 2 * m + 1, n)
           /\ Events(t) \in Seq(Payload) /\ Len(Events(t)) = m
           /\ \A k \in 1..m : Events(t)[k] = s[2 * k].of
<1>1. PICK m \in Nat : 2 * m <= n /\ n <= 2 * m + 1
  <2> (n \div 2) \in Nat /\ 2 * (n \div 2) <= n /\ n <= 2 * (n \div 2) + 1
    OBVIOUS
  <2> QED OBVIOUS
<1>2. /\ t \in Seq(Piece) /\ Len(t) = n /\ DOMAIN t = 1..n
      /\ \A i \in 1..n : t[i] = s[i]
  <2>1. SubSeq(s, 1, n) = [i \in 1..n |-> s[i]]
    BY SubSeqProperties
  <2> QED BY <2>1, SubSeqProperties
<1> DEFINE E == {i \in 1..2 * m : i % 2 = 0}
<1>3. \A i \in 1..n : t[i].end <=> i % 2 = 0
  BY <1>2 DEF Paired
<1>4. \A i \in 1..n : i % 2 = 0 <=> i \in E
  BY <1>1
<1>5. Ends(t) = E
  <2>1. \A i \in 1..n : i \in Ends(t) <=> i \in E
    BY <1>2, <1>3, <1>4 DEF Ends
  <2>2. Ends(t) \subseteq 1..n
    BY <1>2 DEF Ends
  <2>3. E \subseteq 1..n
    BY <1>1
  <2> HIDE DEF E
  <2> QED BY <2>1, <2>2, <2>3
<1>6. ASSUME NEW i \in E PROVE Whole(t, i) /\ t[i - 1].of = t[i].of
  <2>1. i \in 1..n /\ i > 1 /\ i - 1 \in 1..n /\ (i - 1) % 2 # 0 /\ i \in DOMAIN s
    BY <1>1
  <2>2. i > 2 => i - 2 \in 1..n /\ (i - 2) % 2 = 0
    BY <1>1
  <2> QED BY <2>1, <2>2, <1>2, <1>3 DEF Whole, Paired
<1>7. Decoded(t) = E
  BY <1>5, <1>6 DEF Decoded
<1>8. Cardinality(E) = m
  <2>1. Cardinality({i \in E : i <= 2 * m}) = m
    BY EvenRank
  <2>2. {i \in E : i <= 2 * m} = E
    OBVIOUS
  <2> QED BY <2>1, <2>2
<1>9. Events(t) = [k \in 1..m |-> s[2 * k].of]
  <2>1. \A k \in 1..m : Nth(Decoded(t), k) = 2 * k /\ 2 * k \in 1..n
    BY <1>1, <1>7, NthEven
  <2> QED BY <2>1, <1>2, <1>7, <1>8 DEF Events
<1>10. \A k \in 1..m : s[2 * k].of \in Payload
  <2> TAKE k \in 1..m
  <2>1. s[2 * k] \in Piece
    BY <1>1
  <2> QED BY <2>1 DEF Piece
<1>11. Max(Ends(t) \union {0}) = 2 * m
  <2> DEFINE S == Ends(t) \union {0}
  <2>1. 2 * m \in S /\ \A i \in S : i \in Nat /\ 2 * m >= i
    BY <1>5
  <2>2. \A x \in S : (\A y \in S : x >= y) => x = 2 * m
    BY <2>1
  <2> HIDE DEF S
  <2>3. (CHOOSE x \in S : \A y \in S : x >= y) = 2 * m
    BY <2>1, <2>2
  <2> QED BY <2>3 DEF Max, S
<1>12. Rest(t) = SubSeq(t, 2 * m + 1, n)
  BY <1>2, <1>11 DEF Rest
<1>13. /\ Events(t) \in Seq(Payload) /\ Len(Events(t)) = m
       /\ \A k \in 1..m : Events(t)[k] = s[2 * k].of
  <2> DEFINE e == [k \in 1..m |-> s[2 * k].of]
  <2>1. e \in Seq(Payload) /\ Len(e) = m
    BY <1>10, IsASeq, LenProperties
  <2>2. \A k \in 1..m : e[k] = s[2 * k].of
    OBVIOUS
  <2> QED BY <1>9, <2>1, <2>2
<1> QED BY <1>1, <1>5, <1>12, <1>13

\* What is left of a sequence after its first n elements.
LEMMA SuffixOf ==
  ASSUME NEW S, NEW s \in Seq(S), NEW n \in Nat, n <= Len(s)
  PROVE  /\ SubSeq(s, n + 1, Len(s)) \in Seq(S)
         /\ Len(SubSeq(s, n + 1, Len(s))) = Len(s) - n
         /\ \A i \in 1..Len(s) - n : SubSeq(s, n + 1, Len(s))[i] = s[n + i]
<1>1. Len(s) \in Nat /\ s \in [1..Len(s) -> S]
  BY LenProperties
<1>2. \A i \in n + 1..Len(s) : s[i] \in S
  BY <1>1
<1> DEFINE t == SubSeq(s, n + 1, Len(s))
<1>3. /\ t \in Seq(S)
      /\ Len(t) = IF n + 1 <= Len(s) THEN Len(s) - (n + 1) + 1 ELSE 0
      /\ \A i \in 1..Len(s) - (n + 1) + 1 : t[i] = s[n + 1 + i - 1]
  BY <1>1, <1>2, SubSeqProperties
<1> HIDE DEF t
<1>4. Len(t) = Len(s) - n
  <2>1. Len(t) = IF n + 1 <= Len(s) THEN Len(s) - (n + 1) + 1 ELSE 0
    BY <1>3
  <2>2. PICK l \in Nat : l = Len(s)
    BY <1>1
  <2>3. n <= l
    BY <2>2
  <2>4. (IF n + 1 <= l THEN l - (n + 1) + 1 ELSE 0) = l - n
    BY <2>3
  <2> QED BY <2>1, <2>2, <2>4
<1>5. \A i \in 1..Len(s) - n : i \in 1..Len(s) - (n + 1) + 1 /\ n + 1 + i - 1 = n + i
  BY <1>1
<1>6. \A i \in 1..Len(s) - n : t[i] = s[n + i]
  BY <1>3, <1>5
<1> QED BY <1>3, <1>4, <1>6 DEF t

\* What is left of whole events once m of them are taken.
LEMMA PairedSuffix ==
  ASSUME NEW s \in Seq(Piece), Paired(s), NEW m \in Nat, 2 * m <= Len(s), NEW r,
         r = SubSeq(s, 2 * m + 1, Len(s))
  PROVE  /\ r \in Seq(Piece) /\ Paired(r) /\ Len(r) = Len(s) - 2 * m
         /\ \A i \in 1..Len(r) : r[i] = s[i + 2 * m]
<1>1. /\ r \in Seq(Piece) /\ Len(r) = Len(s) - 2 * m /\ DOMAIN r = 1..Len(r)
      /\ \A i \in 1..Len(r) : r[i] = s[i + 2 * m]
  <2>1. /\ SubSeq(s, 2 * m + 1, Len(s)) \in Seq(Piece)
        /\ Len(SubSeq(s, 2 * m + 1, Len(s))) = Len(s) - 2 * m
        /\ \A i \in 1..Len(s) - 2 * m : SubSeq(s, 2 * m + 1, Len(s))[i] = s[2 * m + i]
    <3>1. PICK n \in Nat : n = 2 * m
      OBVIOUS
    <3>2. n <= Len(s)
      BY <3>1
    <3> QED BY <3>1, <3>2, SuffixOf
  <2>2. r \in Seq(Piece) /\ Len(r) = Len(s) - 2 * m
    BY <2>1
  <2>3. \A i \in 1..Len(r) : 2 * m + i = i + 2 * m
    BY <2>2
  <2>4. DOMAIN r = 1..Len(r)
    BY <2>2, LenProperties
  <2> QED BY <2>1, <2>2, <2>3, <2>4
<1>2. Len(r) % 2 = 0
  <2>1. Len(s) \in Nat /\ Len(s) % 2 = 0
    BY LenProperties DEF Paired
  <2>2. (Len(s) - 2 * m) % 2 = 0
    BY <2>1
  <2> QED BY <1>1, <2>2
<1>3. ASSUME NEW i \in 1..Len(r)
      PROVE  /\ r[i].end <=> i % 2 = 0
             /\ i % 2 = 0 => r[i].of = r[i - 1].of
  <2>1. i + 2 * m \in DOMAIN s /\ ((i + 2 * m) % 2 = 0 <=> i % 2 = 0)
    BY <1>1
  <2>2. i % 2 = 0 => i - 1 \in 1..Len(r) /\ (i - 1) + 2 * m = (i + 2 * m) - 1
    BY <1>1
  <2>3. i % 2 = 0 => r[i - 1] = s[(i + 2 * m) - 1]
    BY <2>2, <1>1
  <2> QED BY <1>1, <2>1, <2>3 DEF Paired
<1> QED BY <1>1, <1>2, <1>3 DEF Paired

\* A chunk of the connection, after what is left of the one before it.
LEMMA ChunkOfText ==
  ASSUME NEW b \in Seq(Piece), NEW w \in Seq(Piece), NEW n \in 1..Len(w)
  PROVE  LET t == b \o SubSeq(w, 1, n)
             l == Len(b) + n
         IN /\ b \o w \in Seq(Piece) /\ l \in 0..Len(b \o w)
            /\ t \in Seq(Piece) /\ Len(t) = l
            /\ t = SubSeq(b \o w, 1, l)
            /\ \A k \in 0..l :
                 SubSeq(t, k + 1, l) \o SubSeq(w, n + 1, Len(w))
                   = SubSeq(b \o w, k + 1, Len(b \o w))
<1> DEFINE s == b \o w
           h == SubSeq(w, 1, n)
           q == SubSeq(w, n + 1, Len(w))
           t == b \o h
           l == Len(b) + n
<1>1. Len(b) \in Nat /\ Len(w) \in Nat /\ n \in Nat /\ n <= Len(w)
  BY LenProperties
<1>2. h \in Seq(Piece) /\ Len(h) = n /\ q \in Seq(Piece)
  <2>1. \A i \in 1..n : w[i] \in Piece
    BY <1>1, LenProperties
  <2>2. h \in Seq(Piece) /\ Len(h) = IF 1 <= n THEN n - 1 + 1 ELSE 0
    BY <1>1, <2>1, SubSeqProperties
  <2>3. q \in Seq(Piece)
    BY <1>1, SuffixOf
  <2> QED BY <2>2, <2>3
<1>3. h \o q = w
  BY <1>1, ConcatAdjacentSubSeq, SubSeqFull
<1>4. t \in Seq(Piece) /\ Len(t) = l /\ s \in Seq(Piece) /\ Len(s) = Len(b) + Len(w)
  BY <1>1, <1>2, ConcatProperties
<1>5. s = t \o q
  <2> HIDE DEF h, q
  <2>2. \A x, y, z \in Seq(Piece) : (x \o y) \o z = x \o (y \o z)
    BY ConcatAssociative, SMTT(30)
  <2>1. (b \o h) \o q = b \o (h \o q)
    BY <1>2, <2>2
  <2> QED BY <2>1, <1>3
<1>6. l \in 0..Len(s)
  BY <1>1, <1>4
<1>7. PICK N \in Nat, L \in Nat : N = Len(s) /\ L = l /\ L <= N /\ Len(t) = L /\ L > 0
  BY <1>1, <1>4, <1>6
<1> HIDE DEF s, h, q, t, l
<1>8. t = SubSeq(s, 1, L)
  BY <1>2, <1>4, <1>5, <1>7, SubSeqOfConcat1, SubSeqFull
<1>9. q = SubSeq(s, L + 1, N)
  BY <1>2, <1>4, <1>5, <1>7, SubSeqOfConcat2, SubSeqFull, ConcatProperties
<1>10. ASSUME NEW k \in 0..L
       PROVE SubSeq(t, k + 1, L) \o q = SubSeq(s, k + 1, N)
  <2>1. SubSeq(t, k + 1, L) = SubSeq(s, k + 1, L)
    <3>1. CASE k = L
      BY <3>1, <1>7, SubSeqEmpty
    <3>2. CASE k # L
      <4>1. k + 1 \in 1..L /\ L \in 1..L
        BY <3>2, <1>7
      <4> QED BY <4>1, <1>2, <1>4, <1>5, <1>7, SubSeqOfConcat1
    <3> QED BY <3>1, <3>2
  <2>2. k + 1 \in 1..N + 1 /\ L \in k + 1 - 1..N /\ N \in L..N
    BY <1>7
  <2>3. SubSeq(s, k + 1, L) \o SubSeq(s, L + 1, N) = SubSeq(s, k + 1, N)
    <3>1. s \in Seq(Piece) /\ Len(s) = N
      BY <1>4, <1>7
    <3> QED BY <3>1, <2>2, ConcatAdjacentSubSeq, SMTT(30)
  <2> QED BY <1>9, <2>1, <2>3
<1> QED BY <1>4, <1>6, <1>7, <1>8, <1>10 DEF s, h, q, t, l

-----------------------------------------------------------------------------
(* What moves from one stage to the next *)

\* Stages that lose snapshots stay in order.
LEMMA ChainShrinks ==
  ASSUME NEW T, NEW Q, NEW H, NEW S, NEW D, NEW V, NEW p,
         NEW T2 \in SUBSET T, NEW Q2 \in SUBSET Q, NEW H2 \in SUBSET H,
         NEW S2 \in SUBSET S, NEW D2 \in SUBSET D, NEW V2 \in SUBSET V,
         Chain(T, Q, H, S, D, V, p)
  PROVE  Chain(T2, Q2, H2, S2, D2, V2, p)
  BY DEF Chain, NoneAbove

\* A newer snapshot at the node.
LEMMA ChainGrows ==
  ASSUME NEW T \in SUBSET Nat, NEW Q \in SUBSET Nat, NEW H \in SUBSET Nat,
         NEW S \in SUBSET Nat, NEW D \in SUBSET Nat, NEW V \in SUBSET Nat,
         NEW p \in Nat, Chain(T, Q, H, S, D, V, p)
  PROVE  Chain(T, Q, H, S, D, V, p + 1)
<1> DEFINE All == T \union Q \union H \union S \union D \union V
<1>1. \A a \in All : a \in Nat /\ a <= p
  BY DEF Chain, NoneAbove
<1>2. \A a \in All : a <= p + 1
  BY <1>1
<1> QED BY <1>2 DEF Chain, NoneAbove

\* The node feeds its latest snapshot.
LEMMA ChainFed ==
  ASSUME NEW T, NEW Q, NEW H, NEW S, NEW D, NEW V, NEW p \in Nat,
         NEW T2 \in SUBSET (T \union {p}), Chain(T, Q, H, S, D, V, p)
  PROVE  Chain(T2, Q, H, S, D, V, p)
  BY DEF Chain, NoneAbove

\* Events come out of the text, the earlier ones of it.
LEMMA ChainRead ==
  ASSUME NEW T, NEW H, NEW S, NEW D, NEW V, NEW p,
         NEW T2 \in SUBSET T, NEW Q2 \in SUBSET T, NoneAbove(Q2, T2),
         Chain(T, {}, H, S, D, V, p), H = {}
  PROVE  Chain(T2, Q2, H, S, D, V, p)
  BY DEF Chain, NoneAbove

\* The first of them is taken in hand.
LEMMA ChainTaken ==
  ASSUME NEW T, NEW Q, NEW S, NEW D, NEW V, NEW p,
         NEW Q2 \in SUBSET Q, NEW H2 \in SUBSET Q, NoneAbove(H2, Q2),
         Chain(T, Q, {}, S, D, V, p)
  PROVE  Chain(T, Q2, H2, S, D, V, p)
  BY DEF Chain, NoneAbove

\* A poll brings the latest snapshot.
LEMMA ChainPolled ==
  ASSUME NEW S, NEW D, NEW V, NEW p \in Nat, NEW H2 \in SUBSET {p},
         Chain({}, {}, {}, S, D, V, p)
  PROVE  Chain({}, {}, H2, S, D, V, p)
<1>1. \A a \in S \union D \union V : a <= p
  BY DEF Chain, NoneAbove
<1>2. NoneAbove(D \union V, S) /\ NoneAbove(V, D)
  BY DEF Chain
<1>3. \A a \in H2 : a = p
  OBVIOUS
<1>4. NoneAbove({} \union {} \union H2 \union S \union D \union V, {p})
  <2> SUFFICES ASSUME NEW a \in H2 \union (S \union D \union V) PROVE a <= p
    BY DEF NoneAbove
  <2> QED BY <1>1, <1>3
<1>5. NoneAbove(S \union D \union V, H2)
  BY <1>1, <1>3 DEF NoneAbove
<1>6. \A A : NoneAbove(A, {})
  BY DEF NoneAbove
<1> QED BY <1>2, <1>4, <1>5, <1>6 DEF Chain

\* What is in hand replaces what is in the slot.
LEMMA ChainStored ==
  ASSUME NEW T, NEW Q, NEW H, NEW S, NEW D, NEW V, NEW p, NEW S2 \in SUBSET H,
         Chain(T, Q, H, S, D, V, p)
  PROVE  Chain(T, Q, {}, S2, D, V, p)
  BY DEF Chain, NoneAbove

\* The slot is served to the page: it is one snapshot.
LEMMA ChainServed ==
  ASSUME NEW T, NEW Q, NEW H, NEW n \in Nat, NEW D, NEW V, NEW p,
         NEW D2 \in SUBSET (D \union {n}), Chain(T, Q, H, {n}, D, V, p)
  PROVE  Chain(T, Q, H, {n}, D2, V, p)
  BY DEF Chain, NoneAbove

\* The page shows the first of what it was served.
LEMMA ChainShown ==
  ASSUME NEW T, NEW Q, NEW H, NEW S, NEW D, NEW V, NEW p,
         NEW D2 \in SUBSET D, NEW V2 \in SUBSET D, NoneAbove(V2, D2),
         Chain(T, Q, H, S, D, V, p)
  PROVE  Chain(T, Q, H, S, D2, V2, p)
  BY DEF Chain, NoneAbove

-----------------------------------------------------------------------------
(* Connections *)

\* A closed connection, and one that was just opened.
LEMMA NewLinks ==
  ASSUME NEW I, NEW n
  PROVE  /\ Closed \in Link(I) /\ Closed.wire = <<>> /\ ~Closed.open
         /\ Opened(n) \in Link(I) /\ Opened(n).wire = <<>>
  BY EmptySeq DEF Closed, Opened, Link

\* What a stream sends goes to the end of the wire.
LEMMA PushedLink ==
  ASSUME NEW I, NEW c \in Link(I), NEW n \in Nat, NEW e \in Seq(I)
  PROVE  /\ Pushed(c, n, e) \in Link(I)
         /\ Pushed(c, n, e).wire = c.wire \o e
<1>1. Pushed(c, n, e).wire = c.wire \o e
  BY DEF Pushed, Link
<1>2. c.wire \o e \in Seq(I)
  BY ConcatProperties DEF Link
<1>3. Pushed(c, n, e).open = c.open /\ Pushed(c, n, e).last = n
  BY DEF Pushed, Link
<1>4. Pushed(c, n, e) \in Link(I)
  BY <1>2, n \in Nat DEF Pushed, Link
<1> QED BY <1>1, <1>4

\* What is read comes from the front of the wire.
LEMMA TakenLink ==
  ASSUME NEW I, NEW c \in Link(I), NEW n \in Nat, n <= Len(c.wire)
  PROVE  /\ Taken(c, n) \in Link(I)
         /\ Taken(c, n).wire = SubSeq(c.wire, n + 1, Len(c.wire))
<1>1. Taken(c, n).wire = SubSeq(c.wire, n + 1, Len(c.wire))
  BY DEF Taken, Link
<1>2. SubSeq(c.wire, n + 1, Len(c.wire)) \in Seq(I)
  BY SuffixOf DEF Link
<1>3. Taken(c, n).open = c.open /\ Taken(c, n).last = c.last
  BY DEF Taken, Link
<1>4. Taken(c, n) \in Link(I)
  BY <1>2 DEF Taken, Link
<1> QED BY <1>1, <1>4

\* A connection that ends keeps what is on the wire.
LEMMA CutLink ==
  ASSUME NEW I, NEW c \in Link(I)
  PROVE  Cut(c) \in Link(I) /\ Cut(c).wire = c.wire
<1>1. Cut(c) \in Link(I)
  BY DEF Cut, Link
<1>2. Cut(c).wire = c.wire
  BY DEF Cut, Link
<1> QED BY <1>1, <1>2

\* The two pieces of an event that carries snapshot n.
IsEvent(e, n) ==
    /\ Len(e) = 2 /\ ~e[1].end /\ e[2].end
    /\ e[1].of = e[2].of /\ e[1].of.snap = n

\* An event is two pieces that belong together.
LEMMA EventPieces ==
  ASSUME NEW n \in Nat, NEW ro \in BOOLEAN
  PROVE  Event(n, ro) \in Seq(Piece) /\ IsEvent(Event(n, ro), n)
<1> DEFINE p == [snap |-> n, ro |-> ro]
<1>1. p \in Payload /\ p.snap = n
  BY DEF Payload
<1> HIDE DEF p
<1>2. [of |-> p, end |-> FALSE] \in Piece /\ [of |-> p, end |-> TRUE] \in Piece
  BY <1>1 DEF Piece
<1>3. Event(n, ro) = <<[of |-> p, end |-> FALSE], [of |-> p, end |-> TRUE]>>
  BY DEF Event, p
<1> QED BY <1>1, <1>2, <1>3 DEF IsEvent

-----------------------------------------------------------------------------
(* The text of a session *)

\* The text before the parser: its buffer and then the wire.
LEMMA TextType ==
  ASSUME TypeOK
  PROVE  /\ buf \in Seq(Piece) /\ uplink.wire \in Seq(Piece) /\ Text \in Seq(Piece)
         /\ Len(Text) = Len(buf) + Len(uplink.wire)
<1>1. buf \in Seq(Piece) /\ uplink \in Link(Piece)
  BY DEF TypeOK
<1>2. uplink.wire \in Seq(Piece)
  BY <1>1 DEF Link
<1> QED BY <1>1, <1>2, ConcatProperties DEF Text

\* The elements of two sequences one after the other.
LEMMA Joined ==
  ASSUME NEW S, NEW s \in Seq(S), NEW e \in Seq(S), NEW l \in Nat, l = Len(s),
         NEW k \in Nat, k = Len(e)
  PROVE  /\ s \o e \in Seq(S) /\ Len(s \o e) = l + k
         /\ \A i \in 1..l : (s \o e)[i] = s[i]
         /\ \A i \in 1..k : (s \o e)[l + i] = e[i]
<1>1. s \o e \in Seq(S)
  BY ConcatProperties
<1>2. Len(s \o e) = l + k
  BY ConcatProperties
<1>3. \A i \in 1..l + k : (s \o e)[i] = IF i <= l THEN s[i] ELSE e[i - l]
  BY ConcatProperties
<1>4. \A i \in 1..l : i \in 1..l + k /\ i <= l
  OBVIOUS
<1>5. \A i \in 1..k : l + i \in 1..l + k /\ ~(l + i <= l) /\ l + i - l = i
  OBVIOUS
<1> QED BY <1>1, <1>2, <1>3, <1>4, <1>5

\* An event the node sends comes to the end of the text.
LEMMA TextGrows ==
  ASSUME NEW b \in Seq(Piece), NEW w \in Seq(Piece), NEW e \in Seq(Piece),
         NEW l \in Nat, l = Len(b \o w), NEW k \in Nat, k = Len(e)
  PROVE  /\ b \o (w \o e) \in Seq(Piece) /\ Len(b \o (w \o e)) = l + k
         /\ \A i \in 1..l : (b \o (w \o e))[i] = (b \o w)[i]
         /\ \A i \in 1..k : (b \o (w \o e))[l + i] = e[i]
<1>1. b \o w \in Seq(Piece)
  BY ConcatProperties
<1>2. (b \o w) \o e = b \o (w \o e)
  BY ConcatAssociative
<1> DEFINE s == b \o w
           t == b \o (w \o e)
<1>3. s \in Seq(Piece) /\ t = s \o e /\ l = Len(s)
  BY <1>1, <1>2
<1> HIDE DEF s, t
<1>4. /\ t \in Seq(Piece) /\ Len(t) = l + k
      /\ \A i \in 1..l : t[i] = s[i]
      /\ \A i \in 1..k : t[l + i] = e[i]
  BY <1>3, Joined
<1> QED BY <1>4 DEF s, t

\* A whole event is appended to it.
LEMMA PairedAppend ==
  ASSUME NEW s \in Seq(Piece), Paired(s), NEW l \in Nat, l = Len(s),
         NEW t \in Seq(Piece), Len(t) = l + 2, \A i \in 1..l : t[i] = s[i],
         ~t[l + 1].end, t[l + 2].end, t[l + 1].of = t[l + 2].of
  PROVE  Paired(t)
<1>1. DOMAIN s = 1..l
  BY LenProperties
<1>2. l % 2 = 0
  BY DEF Paired
<1>3. DOMAIN t = 1..l + 2
  BY LenProperties
<1>4. Len(t) % 2 = 0 /\ (l + 1) % 2 # 0 /\ (l + 2) % 2 = 0
  BY <1>2, <1>3
<1>5. ASSUME NEW i \in 1..l + 2
      PROVE  /\ t[i].end <=> i % 2 = 0
             /\ i % 2 = 0 => t[i].of = t[i - 1].of
  <2>1. CASE i \in 1..l
    <3>1. i % 2 = 0 => i - 1 \in 1..l
      BY <2>1
    <3> QED BY <2>1, <3>1, <1>1, <1>3 DEF Paired
  <2>2. CASE i = l + 1
    BY <2>2, <1>3, <1>4
  <2>3. CASE i = l + 2
    <3>1. i - 1 = l + 1
      BY <2>3
    <3> QED BY <2>3, <3>1, <1>3, <1>4
  <2> QED BY <2>1, <2>2, <2>3
<1> QED BY <1>3, <1>4, <1>5 DEF Paired

-----------------------------------------------------------------------------
(* Sequences that rise *)

\* The end of a rising sequence rises.
LEMMA SuffixRises ==
  ASSUME NEW s, NEW r, NEW n \in Nat, Rising(s), DOMAIN r \subseteq Nat,
         \A i \in DOMAIN r : i + n \in DOMAIN s /\ r[i].snap = s[i + n].snap
  PROVE  Rising(r) /\ Snaps(r) \subseteq Snaps(s)
<1>1. ASSUME NEW i \in DOMAIN r, NEW j \in DOMAIN r, i <= j
      PROVE r[i].snap <= r[j].snap
  <2>1. i + n <= j + n
    BY <1>1
  <2> QED BY <2>1 DEF Rising
<1>2. Snaps(r) \subseteq Snaps(s)
  BY DEF Snaps
<1> QED BY <1>1, <1>2 DEF Rising

\* What the pieces of a text tell of it.
LEMMA PayloadsOf ==
  ASSUME NEW s \in Seq(Piece)
  PROVE  /\ DOMAIN Payloads(s) = 1..Len(s)
         /\ \A i \in 1..Len(s) : Payloads(s)[i] = s[i].of /\ s[i].of.snap \in Nat
         /\ Snaps(Payloads(s)) \subseteq Nat
<1>1. DOMAIN s = 1..Len(s) /\ s \in [1..Len(s) -> Piece]
  BY LenProperties
<1>2. \A i \in 1..Len(s) : s[i].of.snap \in Nat
  BY <1>1 DEF Piece, Payload
<1> QED BY <1>1, <1>2 DEF Payloads, Snaps

\* The snapshots of a sequence are numbers.
LEMMA SnapsOf ==
  ASSUME NEW s \in Seq(Payload)
  PROVE  Snaps(s) \subseteq Nat /\ \A i \in 1..Len(s) : s[i].snap \in Snaps(s)
<1>1. DOMAIN s = 1..Len(s) /\ s \in [1..Len(s) -> Payload]
  BY LenProperties
<1> QED BY <1>1 DEF Snaps, Payload

\* The first of a sequence, and the rest of it.
LEMMA FirstOf ==
  ASSUME NEW s \in Seq(Payload), Rising(s), Len(s) > 0, NEW r,
         r = SubSeq(s, 2, Len(s))
  PROVE  /\ r \in Seq(Payload) /\ Rising(r) /\ Snaps(r) \subseteq Snaps(s)
         /\ Head(s) \in Payload /\ Head(s).snap \in Snaps(s)
         /\ NoneAbove({Head(s).snap}, Snaps(r))
<1>1. PICK l \in Nat : l = Len(s) /\ l > 0 /\ DOMAIN s = 1..l /\ s \in [1..l -> Payload]
  BY LenProperties
<1>2. /\ r \in Seq(Payload) /\ Len(r) = l - 1
      /\ \A i \in 1..l - 1 : r[i] = s[1 + i]
  BY <1>1, SuffixOf
<1>3. DOMAIN r = 1..l - 1
  BY <1>2, LenProperties
<1>4. Rising(r) /\ Snaps(r) \subseteq Snaps(s)
  <2>1. \A i \in DOMAIN r : 1 + i \in DOMAIN s /\ r[i] = s[1 + i]
    BY <1>1, <1>2, <1>3
  <2>2. \A i, j \in DOMAIN r : i <= j => 1 + i <= 1 + j
    BY <1>3
  <2>3. Rising(r)
    BY <2>1, <2>2 DEF Rising
  <2>4. Snaps(r) \subseteq Snaps(s)
    BY <2>1 DEF Snaps
  <2> QED BY <2>3, <2>4
<1>5. Head(s) = s[1] /\ 1 \in DOMAIN s
  BY <1>1
<1>6. Head(s) \in Payload /\ Head(s).snap \in Snaps(s)
  BY <1>1, <1>5 DEF Snaps
<1>7. \A i \in DOMAIN r : Head(s).snap <= r[i].snap
  <2> SUFFICES ASSUME NEW i \in DOMAIN r PROVE Head(s).snap <= r[i].snap
    OBVIOUS
  <2>1. 1 + i \in DOMAIN s /\ 1 <= 1 + i /\ r[i] = s[1 + i]
    BY <1>1, <1>2, <1>3
  <2> QED BY <1>5, <2>1 DEF Rising
<1> QED BY <1>2, <1>4, <1>6, <1>7 DEF NoneAbove, Snaps

\* The node feeds an event to a text of whole events.
LEMMA FedPaired ==
  ASSUME NEW b \in Seq(Piece), NEW w \in Seq(Piece), NEW e \in Seq(Piece),
         NEW p, Paired(b \o w), IsEvent(e, p)
  PROVE  Paired(b \o (w \o e))
<1>1. b \o w \in Seq(Piece)
  BY ConcatProperties
<1>2. PICK l \in Nat : l = Len(b \o w)
  BY <1>1, LenProperties
<1>3. PICK k \in Nat : k = Len(e)
  BY LenProperties
<1>4. /\ b \o (w \o e) \in Seq(Piece) /\ Len(b \o (w \o e)) = l + k
      /\ \A i \in 1..l : (b \o (w \o e))[i] = (b \o w)[i]
      /\ \A i \in 1..k : (b \o (w \o e))[l + i] = e[i]
  <2>1. b \o (w \o e) \in Seq(Piece)
    BY <1>2, <1>3, TextGrows
  <2>2. Len(b \o (w \o e)) = l + k
    BY <1>2, <1>3, TextGrows
  <2>3. \A i \in 1..l : (b \o (w \o e))[i] = (b \o w)[i]
    BY <1>2, <1>3, TextGrows
  <2>4. \A i \in 1..k : (b \o (w \o e))[l + i] = e[i]
    BY <1>2, <1>3, TextGrows
  <2> QED BY <2>1, <2>2, <2>3, <2>4
<1> DEFINE s == b \o w
           t == b \o (w \o e)
<1>5. s \in Seq(Piece) /\ Paired(s) /\ l = Len(s)
  BY <1>1, <1>2
<1>6. /\ t \in Seq(Piece) /\ Len(t) = l + k /\ \A i \in 1..l : t[i] = s[i]
      /\ \A i \in 1..k : t[l + i] = e[i]
  BY <1>4
<1> HIDE DEF s, t
<1>7. k = 2 /\ Len(t) = l + 2 /\ t[l + 1] = e[1] /\ t[l + 2] = e[2]
  BY <1>3, <1>6 DEF IsEvent
<1>8. ~t[l + 1].end /\ t[l + 2].end /\ t[l + 1].of = t[l + 2].of
  BY <1>7 DEF IsEvent
<1>9. Paired(t)
  BY <1>2, <1>5, <1>6, <1>7, <1>8, PairedAppend
<1> QED BY <1>9 DEF t

\* An event not older than what is on the way keeps it rising.
LEMMA FedRises ==
  ASSUME NEW b \in Seq(Piece), NEW w \in Seq(Piece), NEW e \in Seq(Piece),
         NEW p \in Nat, Rising(Payloads(b \o w)),
         NoneAbove(Snaps(Payloads(b \o w)), {p}), IsEvent(e, p)
  PROVE  /\ Rising(Payloads(b \o (w \o e)))
         /\ Snaps(Payloads(b \o (w \o e))) \subseteq Snaps(Payloads(b \o w)) \union {p}
<1>1. b \o w \in Seq(Piece)
  BY ConcatProperties
<1>2. PICK l \in Nat : l = Len(b \o w)
  BY <1>1, LenProperties
<1>3. PICK k \in Nat : k = Len(e)
  BY LenProperties
<1>4. /\ b \o (w \o e) \in Seq(Piece) /\ Len(b \o (w \o e)) = l + k
      /\ \A i \in 1..l : (b \o (w \o e))[i] = (b \o w)[i]
      /\ \A i \in 1..k : (b \o (w \o e))[l + i] = e[i]
  <2>1. b \o (w \o e) \in Seq(Piece)
    BY <1>2, <1>3, TextGrows
  <2>2. Len(b \o (w \o e)) = l + k
    BY <1>2, <1>3, TextGrows
  <2>3. \A i \in 1..l : (b \o (w \o e))[i] = (b \o w)[i]
    BY <1>2, <1>3, TextGrows
  <2>4. \A i \in 1..k : (b \o (w \o e))[l + i] = e[i]
    BY <1>2, <1>3, TextGrows
  <2> QED BY <2>1, <2>2, <2>3, <2>4
<1> DEFINE s == Payloads(b \o w)
           t == Payloads(b \o (w \o e))
<1>5. DOMAIN s = 1..l /\ \A i \in 1..l : s[i] = (b \o w)[i].of
  BY <1>1, <1>2, PayloadsOf
<1>6. DOMAIN t = 1..l + k /\ \A i \in 1..l + k : t[i] = (b \o (w \o e))[i].of
  BY <1>4, PayloadsOf
<1>7. \A i \in 1..l : t[i].snap = s[i].snap
  <2> SUFFICES ASSUME NEW i \in 1..l PROVE t[i].snap = s[i].snap
    OBVIOUS
  <2>1. i \in 1..l + k
    BY <1>2
  <2>2. t[i] = (b \o w)[i].of /\ s[i] = (b \o w)[i].of
    BY <2>1, <1>4, <1>5, <1>6
  <2> HIDE DEF s, t
  <2> QED BY <2>2
<1>8. \A i \in l + 1..l + k : t[i].snap = p
  <2> SUFFICES ASSUME NEW i \in l + 1..l + k PROVE t[i].snap = p
    OBVIOUS
  <2>1. PICK j \in 1..k : i = l + j
    <3> i - l \in 1..k /\ i = l + (i - l)
      OBVIOUS
    <3> QED OBVIOUS
  <2>2. t[i] = e[j].of
    <3>1. i \in 1..l + k /\ (b \o (w \o e))[i] = e[j]
      BY <1>4, <2>1
    <3>2. t[i] = (b \o (w \o e))[i].of
      BY <3>1, <1>6
    <3> QED BY <3>1, <3>2
  <2>3. j \in {1, 2}
    BY <1>3 DEF IsEvent
  <2> HIDE DEF t
  <2> QED BY <2>2, <2>3 DEF IsEvent
<1> HIDE DEF s, t
<1>9. \A i \in 1..l : s[i].snap <= p
  <2>1. NoneAbove(Snaps(s), {p})
    BY DEF s
  <2> QED BY <1>5, <2>1 DEF NoneAbove, Snaps
<1>10. Rising(s)
  BY DEF s
<1>11. \A i \in 1..l + k : i \in 1..l \/ i \in l + 1..l + k
  OBVIOUS
<1>12. ASSUME NEW i \in 1..l + k, NEW j \in 1..l + k, i <= j
       PROVE t[i].snap <= t[j].snap
  <2>1. CASE j \in 1..l
    <3>1. i \in 1..l
      BY <1>12, <2>1
    <3>2. s[i].snap <= s[j].snap
      BY <1>5, <1>10, <1>12, <2>1, <3>1 DEF Rising
    <3> QED BY <1>7, <2>1, <3>1, <3>2
  <2>2. CASE j \in l + 1..l + k
    <3>1. t[j].snap = p
      BY <1>8, <2>2
    <3>2. i \in 1..l => t[i].snap <= p
      BY <1>7, <1>9
    <3>3. i \in l + 1..l + k => t[i].snap = p
      BY <1>8
    <3> QED BY <1>11, <3>1, <3>2, <3>3
  <2> QED BY <1>11, <2>1, <2>2
<1>13. ASSUME NEW i \in 1..l + k PROVE t[i].snap \in Snaps(s) \union {p}
  <2>1. CASE i \in 1..l
    BY <1>5, <1>7, <2>1 DEF Snaps
  <2>2. CASE i \in l + 1..l + k
    BY <1>8, <2>2
  <2> QED BY <1>11, <2>1, <2>2
<1>14. DOMAIN t = 1..l + k
  BY <1>6
<1>15. Rising(t)
  BY <1>12, <1>14 DEF Rising
<1>16. Snaps(t) \subseteq Snaps(s) \union {p}
  BY <1>13, <1>14 DEF Snaps
<1> QED BY <1>15, <1>16 DEF s, t

\* The hub feeds a snapshot to a page.
LEMMA ServedRises ==
  ASSUME NEW s \in Seq(Payload), NEW x \in Payload, Rising(s),
         NoneAbove(Snaps(s), {x.snap})
  PROVE  /\ Rising(s \o <<x>>)
         /\ Snaps(s \o <<x>>) \subseteq Snaps(s) \union {x.snap}
<1> DEFINE t == Append(s, x)
<1>1. PICK l \in Nat : l = Len(s) /\ DOMAIN s = 1..l
  BY LenProperties
<1>2. s \o <<x>> = t
  BY AppendIsConcat
<1>3. DOMAIN t = 1..l + 1 /\ t[l + 1] = x /\ \A i \in 1..l : t[i] = s[i]
  <2>1. /\ t \in Seq(Payload) /\ Len(t) = l + 1 /\ t[l + 1] = x
        /\ \A i \in 1..l : t[i] = s[i]
    BY <1>1, AppendProperties
  <2> HIDE DEF t
  <2> QED BY <2>1, LenProperties
<1> HIDE DEF t
<1>4. x.snap \in Nat /\ \A i \in 1..l : s[i].snap <= x.snap
  BY <1>1 DEF NoneAbove, Snaps, Payload
<1>5. \A i \in 1..l + 1 : i \in 1..l \/ i = l + 1
  OBVIOUS
<1>6. ASSUME NEW i \in 1..l + 1, NEW j \in 1..l + 1, i <= j
      PROVE t[i].snap <= t[j].snap
  <2>1. CASE j \in 1..l
    <3>1. i \in 1..l
      BY <1>6, <2>1
    <3> QED BY <1>1, <1>3, <1>6, <2>1, <3>1 DEF Rising
  <2>2. CASE j = l + 1
    BY <1>3, <1>4, <1>5, <2>2
  <2> QED BY <1>5, <2>1, <2>2
<1>7. Rising(t)
  BY <1>3, <1>6 DEF Rising
<1>8. ASSUME NEW i \in 1..l + 1 PROVE t[i].snap \in Snaps(s) \union {x.snap}
  BY <1>1, <1>3, <1>5 DEF Snaps
<1>9. Snaps(t) \subseteq Snaps(s) \union {x.snap}
  BY <1>3, <1>8 DEF Snaps
<1> QED BY <1>2, <1>7, <1>9

\* The hub reads events out of a text: they come first.
LEMMA ReadRises ==
  ASSUME NEW s \in Seq(Piece), NEW m \in Nat, 2 * m <= Len(s), Paired(s),
         NEW r, r = SubSeq(s, 2 * m + 1, Len(s)), Rising(Payloads(s)),
         NEW e \in Seq(Payload), Len(e) = m, \A k \in 1..m : e[k] = s[2 * k].of
  PROVE  /\ Rising(Payloads(r)) /\ Rising(e)
         /\ Snaps(Payloads(r)) \subseteq Snaps(Payloads(s))
         /\ Snaps(e) \subseteq Snaps(Payloads(s))
         /\ NoneAbove(Snaps(e), Snaps(Payloads(r)))
<1>1. PICK l \in Nat, d \in Nat : l = Len(s) /\ d = 2 * m /\ d <= l
  BY LenProperties
<1>2. /\ r \in Seq(Piece) /\ Len(r) = l - d
      /\ \A i \in 1..l - d : r[i] = s[i + d]
  <2>1. r \in Seq(Piece)
    BY PairedSuffix
  <2>2. Len(r) = Len(s) - 2 * m
    BY PairedSuffix
  <2>3. \A i \in 1..Len(r) : r[i] = s[i + 2 * m]
    BY PairedSuffix
  <2>4. Len(r) = l - d
    BY <1>1, <2>2
  <2> QED BY <1>1, <2>1, <2>3, <2>4
<1> DEFINE P == Payloads(s)
           R == Payloads(r)
<1>3. DOMAIN P = 1..l /\ \A i \in 1..l : P[i] = s[i].of
  BY <1>1, PayloadsOf
<1>4. DOMAIN R = 1..l - d /\ \A i \in 1..l - d : R[i] = r[i].of
  BY <1>2, PayloadsOf
<1>5. DOMAIN e = 1..m
  BY LenProperties
<1> HIDE DEF P, R
<1>6. \A i \in 1..l - d : i + d \in 1..l /\ R[i] = P[i + d]
  <2> TAKE i \in 1..l - d
  <2>1. i + d \in 1..l
    BY <1>1
  <2> QED BY <2>1, <1>2, <1>3, <1>4
<1>7. \A k \in 1..m : 2 * k \in 1..l /\ 2 * k <= d /\ e[k] = P[2 * k]
  <2> TAKE k \in 1..m
  <2>1. 2 * k \in 1..l /\ 2 * k <= d
    BY <1>1
  <2> QED BY <2>1, <1>3
<1>8. \A i, j \in 1..l : i <= j => P[i].snap <= P[j].snap
  BY <1>3 DEF Rising, P
<1>9. Rising(R)
  <2> SUFFICES ASSUME NEW i \in 1..l - d, NEW j \in 1..l - d, i <= j
               PROVE R[i].snap <= R[j].snap
    BY <1>4 DEF Rising
  <2>1. i + d <= j + d
    BY <1>1
  <2>2. P[i + d].snap <= P[j + d].snap
    BY <1>6, <1>8, <2>1
  <2> QED BY <1>6, <2>2
<1>10. Rising(e)
  <2>1. \A i, j \in 1..m : i <= j => 2 * i <= 2 * j
    OBVIOUS
  <2> QED BY <1>5, <1>7, <1>8, <2>1 DEF Rising
<1>11. Snaps(R) \subseteq Snaps(P) /\ Snaps(e) \subseteq Snaps(P)
  <2>1. \A i \in DOMAIN R : \E j \in DOMAIN P : R[i] = P[j]
    BY <1>3, <1>4, <1>6
  <2>2. \A i \in DOMAIN e : \E j \in DOMAIN P : e[i] = P[j]
    BY <1>3, <1>5, <1>7
  <2>3. Snaps(R) \subseteq Snaps(P)
    BY <2>1 DEF Snaps
  <2>4. Snaps(e) \subseteq Snaps(P)
    BY <2>2 DEF Snaps
  <2> QED BY <2>3, <2>4
<1>12. NoneAbove(Snaps(e), Snaps(R))
  <2> SUFFICES ASSUME NEW k \in 1..m, NEW i \in 1..l - d PROVE e[k].snap <= R[i].snap
    BY <1>4, <1>5 DEF NoneAbove, Snaps
  <2>1. 2 * k <= i + d
    BY <1>1, <1>7
  <2> QED BY <1>6, <1>7, <1>8, <2>1
<1> QED BY <1>9, <1>10, <1>11, <1>12 DEF P, R

-----------------------------------------------------------------------------
(* Types *)

\* Init has the types.
LEMMA TypeInit == Init => TypeOK
<1> SUFFICES ASSUME Init PROVE TypeOK
  OBVIOUS
<1>1. uplink \in Link(Piece) /\ downlink \in Link(Payload)
  BY NewLinks DEF Init
<1>2. view \in Payload
  BY DEF Init, Payload
<1>3. /\ batch \in Seq(Payload) /\ batch = <<>>
      /\ buf \in Seq(Piece) /\ Len(buf) <= 1 /\ Ends(buf) = {}
  BY EmptySeq DEF Init, Ends
<1> QED BY <1>1, <1>2, <1>3 DEF Init, TypeOK

\* A chunk is read: what the parser makes of it.
LEMMA ReadStep ==
  ASSUME TypeOK, pc = "stream", Paired(Text), ReadChunk
  PROVE  \E m \in Nat :
           /\ 2 * m <= Len(Text)
           /\ batch' \in Seq(Payload) /\ Len(batch') = m
           /\ \A k \in 1..m : batch'[k] = Text[2 * k].of
           /\ buf' \in Seq(Piece) /\ Len(buf') <= 1 /\ Ends(buf') = {}
           /\ uplink' \in Link(Piece)
           /\ Text' = SubSeq(Text, 2 * m + 1, Len(Text))
<1>1. PICK n \in 1..Len(uplink.wire) :
        /\ batch' = Events(buf \o SubSeq(uplink.wire, 1, n))
        /\ buf' = Rest(buf \o SubSeq(uplink.wire, 1, n))
        /\ uplink' = Taken(uplink, n)
  BY DEF ReadChunk
<1>2. /\ buf \in Seq(Piece) /\ uplink \in Link(Piece) /\ uplink.wire \in Seq(Piece)
      /\ Text \in Seq(Piece)
  BY TextType DEF TypeOK
<1> DEFINE t == buf \o SubSeq(uplink.wire, 1, n)
           l == Len(buf) + n
<1>3. /\ l \in 0..Len(Text) /\ t \in Seq(Piece) /\ Len(t) = l /\ t = SubSeq(Text, 1, l)
      /\ \A k \in 0..l :
           SubSeq(t, k + 1, l) \o SubSeq(uplink.wire, n + 1, Len(uplink.wire))
             = SubSeq(Text, k + 1, Len(Text))
  BY <1>2, ChunkOfText DEF Text
<1>4. PICK L \in 0..Len(Text) : L = l
  BY <1>3
<1>5. n \in Nat /\ n <= Len(uplink.wire)
  BY <1>2, LenProperties
<1>6. /\ uplink' \in Link(Piece)
      /\ uplink'.wire = SubSeq(uplink.wire, n + 1, Len(uplink.wire))
  BY <1>1, <1>2, <1>5, TakenLink
<1> HIDE DEF t, l
<1>7. PICK m \in Nat :
        /\ 2 * m <= L /\ L <= 2 * m + 1
        /\ Ends(t) = {i \in 1..2 * m : i % 2 = 0}
        /\ Rest(t) = SubSeq(t, 2 * m + 1, L)
        /\ Events(t) \in Seq(Payload) /\ Len(Events(t)) = m
        /\ \A k \in 1..m : Events(t)[k] = Text[2 * k].of
  BY <1>2, <1>3, <1>4, PrefixRead
<1>8. batch' = Events(t) /\ buf' = Rest(t)
  BY <1>1 DEF t
<1>9. Text' = SubSeq(Text, 2 * m + 1, Len(Text))
  <2>1. 2 * m \in 0..L
    BY <1>4, <1>7, <1>2, LenProperties
  <2>2. SubSeq(t, 2 * m + 1, L) \o SubSeq(uplink.wire, n + 1, Len(uplink.wire))
           = SubSeq(Text, 2 * m + 1, Len(Text))
    BY <1>3, <1>4, <2>1
  <2>3. Text' = buf' \o uplink'.wire
    BY DEF Text
  <2> QED BY <1>6, <1>7, <1>8, <2>2, <2>3
<1>10. buf' \in Seq(Piece) /\ Len(buf') <= 1 /\ Ends(buf') = {}
  <2>1. t \in Seq(Piece) /\ Len(t) = L /\ DOMAIN t = 1..L /\ L \in Nat
    BY <1>2, <1>3, <1>4, LenProperties
  <2>2. PICK k \in Nat : k = 2 * m
    OBVIOUS
  <2>3. k <= L /\ L <= k + 1 /\ buf' = SubSeq(t, k + 1, L)
    BY <1>7, <1>8, <2>2
  <2>4. /\ buf' \in Seq(Piece) /\ Len(buf') = L - k
        /\ \A i \in 1..L - k : buf'[i] = t[k + i]
    BY <2>1, <2>3, SuffixOf
  <2>5. DOMAIN buf' = 1..L - k /\ Len(buf') <= 1
    BY <2>1, <2>3, <2>4, LenProperties
  <2>6. ASSUME NEW i \in 1..L - k PROVE ~buf'[i].end
    <3>1. k + i \in 1..L /\ k + i \notin 1..2 * m
      BY <2>1, <2>2, <2>3
    <3>2. k + i \notin Ends(t)
      BY <3>1, <1>7
    <3> QED BY <2>1, <2>4, <3>1, <3>2 DEF Ends
  <2> QED BY <2>4, <2>5, <2>6 DEF Ends
<1>11. 2 * m <= Len(Text)
  BY <1>2, <1>4, <1>7, LenProperties
<1> QED BY <1>6, <1>7, <1>8, <1>9, <1>10, <1>11

\* Every step keeps the types.
LEMMA TypeStep ==
  ASSUME TypeOK, Session, [Next]_vars
  PROVE  TypeOK'
<1> USE DEF node, parser, hub, ghosts
<1>1. CASE NodePublish
  BY <1>1 DEF NodePublish, TypeOK
<1>2. CASE NodeDenied
  BY <1>2 DEF NodeDenied, TypeOK
<1>3. CASE NodeFeed
  <2>1. Event(nodeSlot, nodeRO) \in Seq(Piece)
    BY EventPieces DEF TypeOK
  <2>2. uplink' \in Link(Piece)
    BY <1>3, <2>1, PushedLink DEF NodeFeed, TypeOK
  <2> QED BY <1>3, <2>2 DEF NodeFeed, TypeOK
<1>4. CASE NodeStop
  <2>1. uplink' \in Link(Piece)
    BY <1>4, CutLink DEF NodeStop, TypeOK
  <2>2. nodeUp' \in BOOLEAN /\ nodeSlot' \in Nat /\ nodeRO' \in BOOLEAN /\ upsets' \in Nat
    <3>1. upsets \in Nat
      BY DEF TypeOK
    <3>2. upsets' \in Nat
      BY <1>4, <3>1 DEF NodeStop, Upset
    <3>3. nodeUp' = FALSE /\ nodeSlot' = 0 /\ nodeRO' = FALSE
      BY <1>4 DEF NodeStop
    <3> QED BY <3>2, <3>3
  <2>3. UNCHANGED <<modern, nodeHost, hub, downlink, view, pub, inSession, denials>>
    BY <1>4 DEF NodeStop
  <2> QED BY <2>1, <2>2, <2>3 DEF TypeOK, Ends
<1>5. CASE NodeStart
  BY <1>5 DEF NodeStart, TypeOK
<1>6. CASE Tick
  BY <1>6 DEF Tick, TypeOK
<1>7. CASE Resolve
  BY <1>7 DEF Resolve, TypeOK
<1>8. CASE RequestFails
  BY <1>8 DEF RequestFails, Upset, TypeOK
<1>9. CASE Connect
  <2>1. uplink' \in Link(Piece)
    BY <1>9, NewLinks DEF Connect
  <2>2. buf' = <<>> /\ buf' \in Seq(Piece) /\ Len(buf') <= 1 /\ Ends(buf') = {}
    BY <1>9, EmptySeq DEF Connect, NewParser, Ends
  <2> QED BY <1>9, <2>1, <2>2 DEF Connect, TypeOK
<1>10. CASE NotFound
  BY <1>10 DEF NotFound, TypeOK
<1>11. CASE ReadChunk
  <2>1. pc = "stream" /\ Paired(Text)
    BY <1>11 DEF ReadChunk, Session
  <2>2. /\ batch' \in Seq(Payload)
        /\ buf' \in Seq(Piece) /\ Len(buf') <= 1 /\ Ends(buf') = {}
        /\ uplink' \in Link(Piece)
    BY <1>11, <2>1, ReadStep
  <2>3. UNCHANGED <<node, hubUp, target, streaming, pc, hand, hubSlot, hubRO,
                    downlink, view, ghosts>>
    BY <1>11 DEF ReadChunk
  <2> QED BY <2>1, <2>2, <2>3 DEF TypeOK
<1>12. CASE TakeEvent
  <2>1. Head(batch) \in Payload /\ Tail(batch) \in Seq(Payload)
    BY <1>12, HeadTailProperties DEF TakeEvent, TypeOK
  <2>2. hubRO' \in BOOLEAN
    BY <1>12, <2>1 DEF TakeEvent, Mirrored, Payload
  <2> QED BY <1>12, <2>1, <2>2 DEF TakeEvent, TypeOK
<1>13. CASE Poll
  <2>1. hand' \in Payload \union {NoPayload}
    BY <1>13 DEF Poll, Payload, TypeOK
  <2> QED BY <1>13, <2>1 DEF Poll, TypeOK
<1>14. CASE TakeReply
  <2>1. hubRO' \in BOOLEAN
    BY <1>14 DEF TakeReply, Mirrored, Payload, Session
  <2> QED BY <1>14, <2>1 DEF TakeReply, TypeOK
<1>15. CASE HubPublish
  <2>1. hubSlot' \in Nat
    BY <1>15 DEF HubPublish, Payload, TypeOK
  <2> QED BY <1>15, <2>1 DEF HubPublish, TypeOK
<1>16. CASE ReplyLost
  BY <1>16 DEF ReplyLost, Upset, TypeOK
<1>17. CASE StreamEnds
  <2>1. uplink' \in Link(Piece)
    BY <1>17, NewLinks DEF StreamEnds
  <2> QED BY <1>17, <2>1 DEF StreamEnds, TypeOK
<1>18. CASE HubDenied
  BY <1>18 DEF HubDenied, TypeOK
<1>19. CASE HubFeed
  <2>1. [snap |-> hubSlot, ro |-> hubRO] \in Payload
    BY DEF TypeOK, Payload
  <2>2. <<[snap |-> hubSlot, ro |-> hubRO]>> \in Seq(Payload)
    BY <2>1
  <2>3. downlink' \in Link(Payload)
    BY <1>19, <2>2, PushedLink DEF HubFeed, TypeOK
  <2> QED BY <1>19, <2>3 DEF HubFeed, TypeOK
<1>20. CASE HubStop
  <2>1. uplink' \in Link(Piece) /\ downlink' \in Link(Payload)
    BY <1>20, NewLinks, CutLink DEF HubStop, TypeOK
  <2>2. /\ batch' \in Seq(Payload) /\ batch' = <<>>
        /\ buf' \in Seq(Piece) /\ Len(buf') <= 1 /\ Ends(buf') = {}
    BY <1>20, EmptySeq DEF HubStop, Ends
  <2>3. /\ hubUp' \in BOOLEAN /\ target' = NoName /\ streaming' \in BOOLEAN /\ pc' = "tick"
        /\ hand' = NoPayload /\ hubSlot' \in Nat /\ hubRO' \in BOOLEAN /\ upsets' \in Nat
    <3>1. upsets \in Nat
      BY DEF TypeOK
    <3>2. upsets' \in Nat
      BY <1>20, <3>1 DEF HubStop, Upset
    <3>3. /\ hubUp' = FALSE /\ target' = NoName /\ streaming' = TRUE /\ pc' = "tick"
          /\ hand' = NoPayload /\ hubSlot' = 0 /\ hubRO' = FALSE
      BY <1>20 DEF HubStop
    <3> QED BY <3>2, <3>3
  <2>4. UNCHANGED <<node, view, pub, inSession, denials>>
    BY <1>20 DEF HubStop
  <2> QED BY <2>1, <2>2, <2>3, <2>4 DEF TypeOK
<1>21. CASE HubStart
  BY <1>21 DEF HubStart, TypeOK
<1>22. CASE Break
  <2>1. uplink' \in Link(Piece) /\ downlink' \in Link(Payload)
    BY <1>22, CutLink DEF Break, TypeOK
  <2> QED BY <1>22, <2>1 DEF Break, Upset, TypeOK
<1>23. CASE PageConnects
  <2>1. downlink' \in Link(Payload)
    BY <1>23, NewLinks DEF PageConnects
  <2> QED BY <1>23, <2>1 DEF PageConnects, TypeOK
<1>24. CASE PageShows
  <2>1. downlink.wire \in Seq(Payload) /\ downlink.wire # <<>>
    BY <1>24 DEF PageShows, TypeOK, Link
  <2>2. Head(downlink.wire) \in Payload /\ 1 <= Len(downlink.wire)
    BY <2>1, HeadTailProperties, LenProperties
  <2>3. downlink' \in Link(Payload)
    BY <1>24, <2>2, TakenLink DEF PageShows, TypeOK
  <2> QED BY <1>24, <2>2, <2>3 DEF PageShows, TypeOK
<1>25. CASE PageDisconnects
  <2>1. downlink' \in Link(Payload)
    BY <1>25, NewLinks DEF PageDisconnects
  <2> QED BY <1>25, <2>1 DEF PageDisconnects, TypeOK
<1>26. CASE PageHides
  <2>1. downlink' \in Link(Payload)
    BY <1>26, NewLinks DEF PageHides
  <2> QED BY <1>26, <2>1 DEF PageHides, Upset, TypeOK
<1>27. CASE UNCHANGED vars
  BY <1>27 DEF vars, TypeOK, Ends
<1> QED
  BY <1>1, <1>2, <1>3, <1>4, <1>5, <1>6, <1>7, <1>8, <1>9, <1>10, <1>11, <1>12, <1>13,
     <1>14, <1>15, <1>16, <1>17, <1>18, <1>19, <1>20, <1>21, <1>22, <1>23, <1>24, <1>25,
     <1>26, <1>27 DEF Next

-----------------------------------------------------------------------------
(* The session *)

\* Every step keeps what a session is like.
LEMMA SessionStep ==
  ASSUME TypeOK, Session, [Next]_vars
  PROVE  Session'
<1> USE DEF node, parser, hub, ghosts
<1>1. ASSUME UNCHANGED <<hand, buf, uplink>>, pc' = pc
      PROVE Session'
  BY <1>1 DEF Session, Text
<1>2. ASSUME UNCHANGED <<hand, buf, uplink>>, pc # "stream",
             pc' \notin {"stream", "reply", "polled"}
      PROVE Session'
  BY <1>2 DEF Session, Text
<1>3. CASE NodeFeed
  <2>1. pc = "stream" /\ Paired(Text)
    BY <1>3 DEF NodeFeed, Fresh, Session, Closed
  <2>2. pc' = pc /\ hand' = hand /\ buf' = buf
    BY <1>3 DEF NodeFeed
  <2> DEFINE e == Event(nodeSlot, nodeRO)
  <2>3. e \in Seq(Piece) /\ IsEvent(e, nodeSlot)
    BY EventPieces DEF TypeOK
  <2>4. uplink'.wire = uplink.wire \o e
    <3>1. uplink' = Pushed(uplink, nodeSlot, e)
      BY <1>3 DEF NodeFeed
    <3>2. uplink \in Link(Piece) /\ nodeSlot \in Nat
      BY DEF TypeOK
    <3>3. e \in Seq(Piece)
      BY <2>3
    <3> HIDE DEF e
    <3> QED BY <3>1, <3>2, <3>3, PushedLink
  <2> HIDE DEF e
  <2>5. buf \in Seq(Piece) /\ uplink.wire \in Seq(Piece)
    BY TextType
  <2>6. Text = buf \o uplink.wire /\ Text' = buf \o (uplink.wire \o e)
    BY <2>2, <2>4 DEF Text
  <2>7. Paired(buf \o (uplink.wire \o e))
    BY <2>1, <2>3, <2>5, <2>6, FedPaired
  <2> QED BY <2>1, <2>2, <2>6, <2>7 DEF Session
<1>4. CASE NodeStop
  <2>1. uplink'.wire = uplink.wire
    BY <1>4, CutLink DEF NodeStop, TypeOK
  <2>2. pc # "stream" => uplink' = uplink
    BY <1>4 DEF NodeStop, Session, Cut, Closed
  <2>3. Text' = Text /\ pc' = pc /\ hand' = hand
    BY <1>4, <2>1 DEF NodeStop, Text
  <2> QED BY <2>2, <2>3 DEF Session
<1>5. CASE Connect
  <2>1. uplink'.wire = <<>> /\ buf' = <<>> /\ pc' = "stream"
    BY <1>5, NewLinks DEF Connect, NewParser
  <2>2. Text' = <<>>
    BY <2>1 DEF Text
  <2>3. Paired(Text')
    BY <2>2 DEF Paired
  <2> QED BY <2>1, <2>3 DEF Session
<1>6. CASE ReadChunk
  <2>1. pc = "stream" /\ Paired(Text) /\ pc' = pc
    BY <1>6 DEF ReadChunk, Session
  <2>2. PICK m \in Nat :
          2 * m <= Len(Text) /\ Text' = SubSeq(Text, 2 * m + 1, Len(Text))
    BY <1>6, <2>1, ReadStep
  <2>3. Paired(Text')
    BY <2>1, <2>2, TextType, PairedSuffix
  <2> QED BY <2>1, <2>3 DEF Session
<1>7. CASE TakeEvent
  <2>1. pc = "stream" /\ pc' = pc /\ UNCHANGED <<buf, uplink>>
    BY <1>7 DEF TakeEvent
  <2> QED BY <2>1 DEF Session, Text
<1>8. CASE Poll
  <2>1. pc' \in {"reply", "tick"} /\ UNCHANGED <<buf, uplink>> /\ uplink = Closed
    BY <1>8 DEF Poll, Session
  <2>2. pc' = "reply" => hand' \in Payload
    BY <1>8 DEF Poll, Payload, TypeOK
  <2> QED BY <2>1, <2>2 DEF Session
<1>9. CASE TakeReply
  BY <1>9 DEF TakeReply, Session
<1>10. CASE HubPublish
  <2>1. CASE pc = "stream"
    BY <1>10, <2>1 DEF HubPublish, Session, Text
  <2>2. CASE pc = "polled"
    BY <1>10, <2>2 DEF HubPublish, Session
  <2> QED BY <1>10, <2>1, <2>2 DEF HubPublish
<1>11. CASE ReplyLost
  BY <1>11 DEF ReplyLost, Session
<1>12. CASE StreamEnds
  BY <1>12 DEF StreamEnds, Session
<1>13. CASE HubStop
  BY <1>13 DEF HubStop, Session
<1>14. CASE Break
  <2>1. uplink' = uplink \/ (uplink.open /\ uplink' = Cut(uplink))
    BY <1>14 DEF Break
  <2>2. uplink'.wire = uplink.wire
    BY <2>1, CutLink DEF TypeOK
  <2>3. pc # "stream" => uplink' = uplink
    BY <2>1 DEF Session, Closed
  <2>4. Text' = Text /\ pc' = pc /\ hand' = hand
    BY <1>14, <2>2 DEF Break, Text
  <2> QED BY <2>3, <2>4 DEF Session
<1>15. CASE Tick \/ Resolve \/ RequestFails \/ NotFound
  BY <1>2, <1>15 DEF Tick, Resolve, RequestFails, NotFound
<1>16. CASE \/ NodePublish \/ NodeDenied \/ NodeStart \/ HubDenied \/ HubFeed \/ HubStart
            \/ PageConnects \/ PageShows \/ PageDisconnects \/ PageHides \/ UNCHANGED vars
  BY <1>1, <1>16 DEF NodePublish, NodeDenied, NodeStart, HubDenied, HubFeed, HubStart,
     PageConnects, PageShows, PageDisconnects, PageHides, vars
<1> QED
  BY <1>3, <1>4, <1>5, <1>6, <1>7, <1>8, <1>9, <1>10, <1>11, <1>12, <1>13, <1>14, <1>15,
     <1>16 DEF Next

-----------------------------------------------------------------------------
(* The stages *)

\* What is at each stage are snapshots.
LEMMA StagesAreNat ==
  ASSUME TypeOK
  PROVE  /\ Travelling \in SUBSET Nat /\ Queued \in SUBSET Nat /\ Held \in SUBSET Nat
         /\ Stored \in SUBSET Nat /\ Served \in SUBSET Nat /\ Shown \in SUBSET Nat
         /\ pub \in Nat
<1>1. Travelling \in SUBSET Nat
  BY TextType, PayloadsOf DEF Travelling
<1>2. batch \in Seq(Payload) /\ downlink.wire \in Seq(Payload)
  BY DEF TypeOK, Link
<1>3. Queued \in SUBSET Nat /\ Served \in SUBSET Nat
  BY <1>2, SnapsOf DEF Queued, Served
<1>4. Held \in SUBSET Nat
  BY DEF TypeOK, Held, Payload
<1>5. Stored \in SUBSET Nat /\ Shown \in SUBSET Nat /\ pub \in Nat
  BY DEF TypeOK, Stored, Shown, Payload
<1> QED BY <1>1, <1>3, <1>4, <1>5

\* A stage whose variables do not change is as it was.
LEMMA StagesKept ==
  /\ UNCHANGED <<buf, uplink>> /\ (pc' = "stream" <=> pc = "stream")
       => Travelling' = Travelling /\ Text' = Text
  /\ UNCHANGED batch => Queued' = Queued
  /\ UNCHANGED hand => Held' = Held
  /\ UNCHANGED hubSlot => Stored' = Stored
  /\ UNCHANGED downlink => Served' = Served
  /\ UNCHANGED view => Shown' = Shown
<1>1. UNCHANGED <<buf, uplink>> /\ (pc' = "stream" <=> pc = "stream")
        => Travelling' = Travelling /\ Text' = Text
  BY DEF Travelling, Text
<1>2. UNCHANGED batch => Queued' = Queued
  BY DEF Queued
<1>3. UNCHANGED hand => Held' = Held
  BY DEF Held
<1>4. UNCHANGED hubSlot => Stored' = Stored
  BY DEF Stored
<1>5. UNCHANGED downlink => Served' = Served
  BY DEF Served
<1>6. UNCHANGED view => Shown' = Shown
  BY DEF Shown
<1> QED BY <1>1, <1>2, <1>3, <1>4, <1>5, <1>6

\* A stage that is emptied is in order.
LEMMA EmptyStage ==
  /\ Rising(<<>>) /\ Snaps(<<>>) = {} /\ Rising(Payloads(<<>>)) /\ Snaps(Payloads(<<>>)) = {}
  BY DEF Rising, Snaps, Payloads

\* Stages may lose what is in them.
LEMMA StagesDrop ==
  ASSUME Staged, nodeSlot' \in {0, pub'}, pub' = pub,
         Rising(Payloads(Text')), Rising(batch'), Rising(downlink'.wire),
         Travelling' \subseteq Travelling, Queued' \subseteq Queued, Held' \subseteq Held,
         Stored' \subseteq Stored, Served' \subseteq Served, Shown' \subseteq Shown
  PROVE  Staged'
<1>1. Chain(Travelling, Queued, Held, Stored, Served, Shown, pub)
  BY DEF Staged
<1>2. Chain(Travelling', Queued', Held', Stored', Served', Shown', pub)
  BY <1>1, ChainShrinks
<1> QED BY <1>2 DEF Staged

\* The steps of the node keep the stages in order.
LEMMA StagesOfNode ==
  ASSUME TypeOK, Session, Staged, NodePublish \/ NodeFeed \/ NodeStop
  PROVE  Staged'
<1> USE DEF node, parser, hub, ghosts
<1>1. Chain(Travelling, Queued, Held, Stored, Served, Shown, pub)
  BY DEF Staged
<1>2. CASE NodePublish
  <2>1. UNCHANGED <<buf, uplink, pc, batch, hand, hubSlot, downlink, view>>
    BY <1>2 DEF NodePublish
  <2>2. /\ Travelling' = Travelling /\ Text' = Text /\ Queued' = Queued /\ Held' = Held
        /\ Stored' = Stored /\ Served' = Served /\ Shown' = Shown
    BY <2>1, StagesKept
  <2>3. Chain(Travelling, Queued, Held, Stored, Served, Shown, pub + 1)
    BY <1>1, StagesAreNat, ChainGrows
  <2>4. pub' = pub + 1 /\ nodeSlot' = pub'
    BY <1>2 DEF NodePublish
  <2> QED BY <2>1, <2>2, <2>3, <2>4 DEF Staged
<1>3. CASE NodeFeed
  <2>1. /\ UNCHANGED <<buf, pc, batch, hand, hubSlot, downlink, view, nodeSlot, pub>>
        /\ pc = "stream" /\ nodeSlot = pub /\ pub \in Nat
    BY <1>3 DEF NodeFeed, Fresh, Session, Closed, Staged, TypeOK
  <2> DEFINE e == Event(nodeSlot, nodeRO)
  <2>2. e \in Seq(Piece) /\ IsEvent(e, pub)
    BY <2>1, EventPieces DEF TypeOK
  <2>3. uplink'.wire = uplink.wire \o e
    <3>1. uplink' = Pushed(uplink, nodeSlot, e)
      BY <1>3 DEF NodeFeed
    <3>2. uplink \in Link(Piece) /\ nodeSlot \in Nat
      BY DEF TypeOK
    <3>3. e \in Seq(Piece)
      BY <2>2
    <3> HIDE DEF e
    <3> QED BY <3>1, <3>2, <3>3, PushedLink
  <2> HIDE DEF e
  <2>4. Text = buf \o uplink.wire /\ Text' = buf \o (uplink.wire \o e)
    BY <2>1, <2>3 DEF Text
  <2>5. Travelling = Snaps(Payloads(Text)) /\ Travelling' = Snaps(Payloads(Text'))
    BY <2>1 DEF Travelling
  <2>6. NoneAbove(Travelling, {pub})
    BY <1>1 DEF Chain, NoneAbove
  <2>7. Rising(Payloads(Text)) /\ NoneAbove(Snaps(Payloads(Text)), {pub})
    BY <2>5, <2>6 DEF Staged
  <2>8. buf \in Seq(Piece) /\ uplink.wire \in Seq(Piece)
    BY TextType
  <2>9. Rising(Payloads(Text'))
    BY <2>1, <2>2, <2>4, <2>7, <2>8, FedRises
  <2>10. Travelling' \subseteq Travelling \union {pub}
    BY <2>1, <2>2, <2>4, <2>5, <2>7, <2>8, FedRises
  <2>11. Chain(Travelling', Queued, Held, Stored, Served, Shown, pub)
    BY <1>1, <2>1, <2>10, ChainFed
  <2>12. /\ Queued' = Queued /\ Held' = Held /\ Stored' = Stored
         /\ Served' = Served /\ Shown' = Shown
    BY <2>1, StagesKept
  <2> QED BY <2>1, <2>9, <2>11, <2>12 DEF Staged
<1>4. CASE NodeStop
  <2>1. /\ UNCHANGED <<buf, pc, batch, hand, hubSlot, downlink, view, pub>>
        /\ nodeSlot' = 0
    BY <1>4 DEF NodeStop
  <2>2. uplink'.wire = uplink.wire
    BY <1>4, CutLink DEF NodeStop, TypeOK
  <2>3. Text' = Text /\ Travelling' = Travelling
    BY <2>1, <2>2 DEF Text, Travelling
  <2>4. /\ Queued' = Queued /\ Held' = Held /\ Stored' = Stored
        /\ Served' = Served /\ Shown' = Shown
    BY <2>1, StagesKept
  <2> QED BY <2>1, <2>3, <2>4 DEF Staged
<1> QED BY <1>2, <1>3, <1>4

\* The steps of the hub do.
LEMMA StagesOfHub ==
  ASSUME TypeOK, Session, Staged,
         \/ Connect \/ ReadChunk \/ TakeEvent \/ Poll \/ HubPublish \/ ReplyLost
         \/ StreamEnds \/ HubStop
  PROVE  Staged'
<1> USE DEF node, parser, hub, ghosts
<1>1. Chain(Travelling, Queued, Held, Stored, Served, Shown, pub)
  BY DEF Staged
<1>2. nodeSlot \in {0, pub} /\ Rising(Payloads(Text)) /\ Rising(batch) /\ Rising(downlink.wire)
  BY DEF Staged
<1>3. CASE Connect
  <2>1. UNCHANGED <<batch, hand, hubSlot, downlink, view, nodeSlot, pub>> /\ buf' = <<>>
    BY <1>3 DEF Connect, NewParser
  <2>2. uplink'.wire = <<>>
    BY <1>3, NewLinks DEF Connect
  <2>3. Text' = <<>>
    BY <2>1, <2>2 DEF Text
  <2>4. Travelling' = {} /\ Rising(Payloads(Text'))
    BY <2>3, EmptyStage DEF Travelling
  <2>5. /\ Queued' = Queued /\ Held' = Held /\ Stored' = Stored
        /\ Served' = Served /\ Shown' = Shown
    BY <2>1, StagesKept
  <2> QED BY <1>2, <2>1, <2>4, <2>5, StagesDrop
<1>4. CASE ReadChunk
  <2>1. /\ UNCHANGED <<pc, hand, hubSlot, downlink, view, nodeSlot, pub>>
        /\ pc = "stream" /\ batch = <<>> /\ hand = NoPayload
    BY <1>4 DEF ReadChunk
  <2>2. Paired(Text) /\ Text \in Seq(Piece)
    BY <2>1, TextType DEF Session
  <2>3. PICK m \in Nat :
          /\ 2 * m <= Len(Text)
          /\ batch' \in Seq(Payload) /\ Len(batch') = m
          /\ \A k \in 1..m : batch'[k] = Text[2 * k].of
          /\ Text' = SubSeq(Text, 2 * m + 1, Len(Text))
    BY <1>4, <2>1, <2>2, ReadStep
  <2>4. /\ Rising(Payloads(Text')) /\ Rising(batch')
        /\ Snaps(Payloads(Text')) \subseteq Snaps(Payloads(Text))
        /\ Snaps(batch') \subseteq Snaps(Payloads(Text))
        /\ NoneAbove(Snaps(batch'), Snaps(Payloads(Text')))
    BY <1>2, <2>2, <2>3, ReadRises
  <2>5. /\ Travelling = Snaps(Payloads(Text)) /\ Travelling' = Snaps(Payloads(Text'))
        /\ Queued' = Snaps(batch')
    BY <2>1 DEF Travelling, Queued
  <2>6. Queued = {} /\ Held = {}
    BY <2>1, EmptyStage DEF Queued, Held
  <2>7. /\ Travelling' \subseteq Travelling /\ Queued' \subseteq Travelling
        /\ NoneAbove(Queued', Travelling')
    BY <2>4, <2>5
  <2>8. Chain(Travelling', Queued', Held, Stored, Served, Shown, pub)
    BY <1>1, <2>6, <2>7, ChainRead
  <2>9. Held' = Held /\ Stored' = Stored /\ Served' = Served /\ Shown' = Shown
    BY <2>1, StagesKept
  <2> QED BY <1>2, <2>1, <2>4, <2>8, <2>9 DEF Staged
<1>5. CASE TakeEvent
  <2>1. /\ UNCHANGED <<pc, buf, uplink, hubSlot, downlink, view, nodeSlot, pub>>
        /\ hand = NoPayload /\ batch # <<>> /\ hand' = Head(batch) /\ batch' = Tail(batch)
    BY <1>5 DEF TakeEvent
  <2>2. batch \in Seq(Payload) /\ Len(batch) > 0
    BY <2>1, LenProperties, EmptySeq DEF TypeOK
  <2>3. batch' = SubSeq(batch, 2, Len(batch))
    BY <2>1, <2>2, TailIsSubSeq
  <2>4. /\ Rising(batch') /\ Snaps(batch') \subseteq Snaps(batch)
        /\ hand'.snap \in Snaps(batch) /\ NoneAbove({hand'.snap}, Snaps(batch'))
    BY <1>2, <2>1, <2>2, <2>3, FirstOf
  <2>5. /\ Queued = Snaps(batch) /\ Queued' = Snaps(batch') /\ Held = {}
        /\ Held' \subseteq {hand'.snap}
    BY <2>1 DEF Queued, Held
  <2>6. /\ Queued' \subseteq Queued /\ Held' \subseteq Queued
        /\ NoneAbove(Held', Queued')
    BY <2>4, <2>5 DEF NoneAbove
  <2>7. Chain(Travelling, Queued', Held', Stored, Served, Shown, pub)
    BY <1>1, <2>5, <2>6, ChainTaken
  <2>8. /\ Travelling' = Travelling /\ Text' = Text
        /\ Stored' = Stored /\ Served' = Served /\ Shown' = Shown
    BY <2>1, StagesKept
  <2> QED BY <1>2, <2>1, <2>4, <2>7, <2>8 DEF Staged
<1>6. CASE Poll
  <2>1. /\ UNCHANGED <<buf, batch, uplink, hubSlot, downlink, view, nodeSlot, pub>>
        /\ pc = "poll" /\ pc' \in {"reply", "tick"} /\ pub \in Nat
    BY <1>6 DEF Poll, TypeOK
  <2>2. Held' \subseteq {pub}
    <3>1. CASE target = nodeHost /\ nodeSlot # 0
      <4>1. hand' = [snap |-> nodeSlot, ro |-> nodeRO]
        BY <1>6, <3>1 DEF Poll
      <4>2. hand'.snap = pub
        BY <1>2, <3>1, <4>1
      <4> QED BY <4>2 DEF Held
    <3>2. CASE ~(target = nodeHost /\ nodeSlot # 0)
      BY <1>6, <3>2 DEF Poll, Held
    <3> QED BY <3>1, <3>2
  <2>3. hand = NoPayload /\ batch = <<>>
    BY <2>1 DEF TypeOK
  <2>4. Travelling = {} /\ Queued = {} /\ Held = {}
    BY <2>1, <2>3, EmptyStage DEF Travelling, Queued, Held
  <2>5. Chain({}, {}, Held', Stored, Served, Shown, pub)
    BY <1>1, <2>1, <2>2, <2>4, ChainPolled
  <2>6. /\ Travelling' = Travelling /\ Text' = Text /\ Queued' = Queued
        /\ Stored' = Stored /\ Served' = Served /\ Shown' = Shown
    BY <2>1, StagesKept
  <2> QED BY <1>2, <2>1, <2>4, <2>5, <2>6 DEF Staged
<1>7. CASE HubPublish
  <2>1. /\ UNCHANGED <<buf, batch, uplink, downlink, view, nodeSlot, pub>>
        /\ (pc' = "stream" <=> pc = "stream")
        /\ hand # NoPayload /\ hubSlot' = hand.snap /\ hand' = NoPayload
    BY <1>7 DEF HubPublish
  <2>2. Stored' \subseteq Held /\ Held' = {}
    BY <2>1 DEF Stored, Held
  <2>3. Chain(Travelling, Queued, {}, Stored', Served, Shown, pub)
    BY <1>1, <2>2, ChainStored
  <2>4. /\ Travelling' = Travelling /\ Text' = Text /\ Queued' = Queued
        /\ Served' = Served /\ Shown' = Shown
    BY <2>1, StagesKept
  <2> QED BY <1>2, <2>1, <2>2, <2>3, <2>4 DEF Staged
<1>8. CASE ReplyLost
  <2>1. /\ UNCHANGED <<buf, batch, uplink, hubSlot, downlink, view, nodeSlot, pub>>
        /\ (pc' = "stream" <=> pc = "stream") /\ hand' = NoPayload
    BY <1>8 DEF ReplyLost
  <2>2. Held' = {}
    BY <2>1 DEF Held
  <2>3. /\ Travelling' = Travelling /\ Text' = Text /\ Queued' = Queued
        /\ Stored' = Stored /\ Served' = Served /\ Shown' = Shown
    BY <2>1, StagesKept
  <2> QED BY <1>2, <2>1, <2>2, <2>3, StagesDrop
<1>9. CASE StreamEnds
  <2>1. /\ UNCHANGED <<buf, batch, hand, hubSlot, downlink, view, nodeSlot, pub>>
        /\ pc' = "tick" /\ uplink' = Closed
    BY <1>9 DEF StreamEnds
  <2>2. Text' = buf
    BY <2>1, NewLinks, ConcatEmptySeq DEF Text, TypeOK
  <2>3. Rising(Payloads(Text'))
    <3>1. buf \in Seq(Piece) /\ Len(buf) <= 1
      BY DEF TypeOK
    <3>2. DOMAIN Payloads(buf) = 1..Len(buf) /\ Len(buf) \in Nat
      BY <3>1, PayloadsOf, LenProperties
    <3>3. \A i \in 1..Len(buf) : Payloads(buf)[i].snap \in Nat
      BY <3>1, PayloadsOf
    <3>4. \A i, j \in 1..Len(buf) : i = j
      BY <3>1, <3>2
    <3>5. \A i, j \in 1..Len(buf) : Payloads(buf)[i].snap <= Payloads(buf)[j].snap
      BY <3>3, <3>4
    <3> QED BY <2>2, <3>2, <3>5 DEF Rising
  <2>4. Travelling' = {}
    BY <2>1 DEF Travelling
  <2>5. /\ Queued' = Queued /\ Held' = Held /\ Stored' = Stored
        /\ Served' = Served /\ Shown' = Shown
    BY <2>1, StagesKept
  <2> QED BY <1>2, <2>1, <2>3, <2>4, <2>5, StagesDrop
<1>10. CASE HubStop
  <2>1. /\ UNCHANGED <<view, nodeSlot, pub>> /\ pc' = "tick" /\ hand' = NoPayload
        /\ buf' = <<>> /\ batch' = <<>> /\ hubSlot' = 0
        /\ uplink' = Closed /\ downlink' = Cut(downlink)
    BY <1>10 DEF HubStop
  <2>2. Text' = <<>> /\ downlink'.wire = downlink.wire
    BY <2>1, NewLinks, CutLink DEF Text, TypeOK
  <2>3. /\ Rising(Payloads(Text')) /\ Rising(batch') /\ Rising(downlink'.wire)
        /\ Queued' = {}
    BY <1>2, <2>1, <2>2, EmptyStage DEF Queued
  <2>4. Travelling' = {} /\ Held' = {} /\ Stored' = {}
    BY <2>1 DEF Travelling, Held, Stored
  <2>5. Served' = Served /\ Shown' = Shown
    BY <2>1, <2>2 DEF Served, Shown
  <2> QED BY <1>2, <2>1, <2>3, <2>4, <2>5, StagesDrop
<1> QED BY <1>3, <1>4, <1>5, <1>6, <1>7, <1>8, <1>9, <1>10

\* The steps of the page do, and what it shows only grows.
LEMMA StagesOfPage ==
  ASSUME TypeOK, Session, Staged,
         HubFeed \/ Break \/ PageConnects \/ PageShows \/ PageDisconnects \/ PageHides
  PROVE  /\ Staged'
         /\ view' # view => /\ view'.snap \in Nat
                           /\ view.snap <= view'.snap /\ view'.snap <= pub
<1> USE DEF node, parser, hub, ghosts
<1>1. Chain(Travelling, Queued, Held, Stored, Served, Shown, pub)
  BY DEF Staged
<1>2. nodeSlot \in {0, pub} /\ Rising(Payloads(Text)) /\ Rising(batch) /\ Rising(downlink.wire)
  BY DEF Staged
<1>3. downlink \in Link(Payload) /\ downlink.wire \in Seq(Payload)
  BY DEF TypeOK, Link
<1>4. ASSUME UNCHANGED <<buf, uplink, pc, batch, hand, hubSlot, view, nodeSlot, pub>>,
             downlink'.wire = <<>>
      PROVE  Staged'
  <2>1. Rising(downlink'.wire) /\ Served' = {}
    BY <1>4, EmptyStage DEF Served
  <2>2. /\ Travelling' = Travelling /\ Text' = Text /\ Queued' = Queued
        /\ Held' = Held /\ Stored' = Stored /\ Shown' = Shown
    BY <1>4, StagesKept
  <2> QED BY <1>2, <1>4, <2>1, <2>2, StagesDrop
<1>5. CASE HubFeed
  <2>1. /\ UNCHANGED <<buf, uplink, pc, batch, hand, hubSlot, view, nodeSlot, pub>>
        /\ hubSlot # 0 /\ hubSlot \in Nat /\ hubRO \in BOOLEAN
    BY <1>5 DEF HubFeed, Fresh, TypeOK
  <2> DEFINE x == [snap |-> hubSlot, ro |-> hubRO]
  <2>2. x \in Payload /\ x.snap = hubSlot
    BY <2>1 DEF Payload
  <2>3. downlink' = Pushed(downlink, hubSlot, <<x>>)
    BY <1>5 DEF HubFeed
  <2> HIDE DEF x
  <2>4. <<x>> \in Seq(Payload)
    BY <2>2
  <2>5. downlink'.wire = downlink.wire \o <<x>>
    BY <1>3, <2>1, <2>3, <2>4, PushedLink
  <2>6. Stored = {hubSlot} /\ Served = Snaps(downlink.wire)
    BY <2>1 DEF Stored, Served
  <2>7. NoneAbove(Snaps(downlink.wire), {x.snap})
    BY <1>1, <2>2, <2>6 DEF Chain, NoneAbove
  <2>8. Rising(downlink'.wire)
    BY <1>2, <1>3, <2>2, <2>5, <2>7, ServedRises
  <2>9. Snaps(downlink'.wire) \subseteq Snaps(downlink.wire) \union {hubSlot}
    BY <1>2, <1>3, <2>2, <2>5, <2>7, ServedRises
  <2>10. Served' \subseteq Served \union {hubSlot}
    BY <2>6, <2>9 DEF Served
  <2>11. Chain(Travelling, Queued, Held, Stored, Served', Shown, pub)
    BY <1>1, <2>1, <2>6, <2>10, ChainServed
  <2>12. /\ Travelling' = Travelling /\ Text' = Text /\ Queued' = Queued
         /\ Held' = Held /\ Stored' = Stored /\ Shown' = Shown
    BY <2>1, StagesKept
  <2> QED BY <1>2, <2>1, <2>8, <2>11, <2>12 DEF Staged
<1>6. CASE Break
  <2>1. UNCHANGED <<buf, pc, batch, hand, hubSlot, view, nodeSlot, pub>>
    BY <1>6 DEF Break
  <2>2. uplink \in Link(Piece)
    BY DEF TypeOK
  <2>3. uplink'.wire = uplink.wire /\ downlink'.wire = downlink.wire
    BY <1>3, <1>6, <2>2, CutLink DEF Break
  <2>4. /\ Travelling' = Travelling /\ Text' = Text /\ Served' = Served
        /\ Rising(downlink'.wire)
    BY <1>2, <2>1, <2>3 DEF Travelling, Text, Served
  <2>5. Queued' = Queued /\ Held' = Held /\ Stored' = Stored /\ Shown' = Shown
    BY <2>1, StagesKept
  <2> QED BY <1>2, <2>1, <2>4, <2>5, StagesDrop
<1>7. CASE PageConnects
  BY <1>4, <1>7, NewLinks DEF PageConnects
<1>8. CASE PageDisconnects
  BY <1>4, <1>8, NewLinks DEF PageDisconnects
<1>9. CASE PageHides
  BY <1>4, <1>9, NewLinks DEF PageHides
<1>10. CASE PageShows
  <2> DEFINE w == downlink.wire
  <2>1. /\ UNCHANGED <<buf, uplink, pc, batch, hand, hubSlot, nodeSlot, pub>>
        /\ w # <<>> /\ view' = Head(w) /\ downlink' = Taken(downlink, 1)
    BY <1>10 DEF PageShows
  <2>2. Len(w) > 0
    BY <1>3, <2>1, LenProperties, EmptySeq
  <2>3. downlink'.wire = SubSeq(w, 2, Len(w))
    <3>1. PICK n \in Nat : n = 1
      OBVIOUS
    <3>2. n <= Len(w) /\ downlink' = Taken(downlink, n)
      BY <1>3, <2>1, <2>2, <3>1, LenProperties
    <3>3. downlink'.wire = SubSeq(w, n + 1, Len(w))
      BY <1>3, <3>2, TakenLink
    <3>4. n + 1 = 2
      BY <3>1
    <3> QED BY <3>3, <3>4
  <2>4. /\ Rising(downlink'.wire) /\ Snaps(downlink'.wire) \subseteq Snaps(w)
        /\ view' \in Payload /\ view'.snap \in Snaps(w)
        /\ NoneAbove({view'.snap}, Snaps(downlink'.wire))
    BY <1>2, <1>3, <2>1, <2>2, <2>3, FirstOf
  <2>5. Served = Snaps(w) /\ Served' = Snaps(downlink'.wire) /\ Shown' = {view'.snap}
    BY DEF Served, Shown
  <2> HIDE DEF w
  <2>6. Chain(Travelling, Queued, Held, Stored, Served', Shown', pub)
    BY <1>1, <2>4, <2>5, ChainShown
  <2>7. /\ Travelling' = Travelling /\ Text' = Text /\ Queued' = Queued
        /\ Held' = Held /\ Stored' = Stored
    BY <2>1, StagesKept
  <2>8. Staged'
    BY <1>2, <2>1, <2>4, <2>6, <2>7 DEF Staged
  <2>9. view'.snap \in Nat /\ view.snap <= view'.snap /\ view'.snap <= pub
    BY <1>1, <2>4, <2>5 DEF Chain, NoneAbove, Shown, Payload
  <2> QED BY <2>8, <2>9
<1>11. HubFeed \/ Break \/ PageConnects \/ PageDisconnects \/ PageHides => view' = view
  BY DEF HubFeed, Break, PageConnects, PageDisconnects, PageHides
<1> QED BY <1>5, <1>6, <1>7, <1>8, <1>9, <1>10, <1>11

\* Every step does.
LEMMA StagedStep ==
  ASSUME TypeOK, Session, Staged, [Next]_vars
  PROVE  Staged'
<1> USE DEF node, parser, hub, ghosts
<1>1. ASSUME UNCHANGED <<buf, uplink, batch, hand, hubSlot, downlink, view, nodeSlot, pub>>,
             pc' = "stream" <=> pc = "stream"
      PROVE Staged'
  <2>1. /\ Travelling' = Travelling /\ Text' = Text /\ Queued' = Queued /\ Held' = Held
        /\ Stored' = Stored /\ Served' = Served /\ Shown' = Shown
    BY <1>1, StagesKept
  <2> QED BY <1>1, <2>1 DEF Staged
<1>2. CASE NodeDenied \/ NodeStart \/ HubDenied \/ HubStart \/ UNCHANGED vars
  BY <1>1, <1>2 DEF NodeDenied, NodeStart, HubDenied, HubStart, vars
<1>3. CASE Tick \/ Resolve \/ RequestFails \/ NotFound \/ TakeReply
  BY <1>1, <1>3 DEF Tick, Resolve, RequestFails, NotFound, TakeReply
<1> QED BY <1>2, <1>3, StagesOfNode, StagesOfHub, StagesOfPage DEF Next

-----------------------------------------------------------------------------
(* The theorems *)

\* The invariant holds in the beginning.
LEMMA MirrorInit == Init => MirrorInv
<1> SUFFICES ASSUME Init PROVE MirrorInv
  OBVIOUS
<1>1. TypeOK
  BY TypeInit
<1>2. pc = "tick" /\ uplink = Closed /\ uplink.wire = <<>> /\ downlink.wire = <<>>
  BY NewLinks DEF Init
<1>3. Session
  BY <1>2 DEF Session
<1>4. Text = <<>>
  BY <1>2 DEF Init, Text
<1>5. /\ Travelling = {} /\ Queued = {} /\ Held = {} /\ Stored = {} /\ Served = {}
      /\ Shown = {0} /\ pub = 0
  BY <1>2, EmptyStage DEF Init, Travelling, Queued, Held, Stored, Served, Shown
<1>6. Chain(Travelling, Queued, Held, Stored, Served, Shown, pub)
  BY <1>5 DEF Chain, NoneAbove
<1>7. Rising(Payloads(Text)) /\ Rising(batch) /\ Rising(downlink.wire) /\ nodeSlot \in {0, pub}
  BY <1>2, <1>4, EmptyStage DEF Init
<1> QED BY <1>1, <1>3, <1>6, <1>7 DEF Staged, MirrorInv

\* Every step keeps it.
LEMMA MirrorStep == MirrorInv /\ [Next]_vars => MirrorInv'
  BY TypeStep, SessionStep, StagedStep DEF MirrorInv

\* It always holds.
LEMMA MirrorAlways == Spec => []MirrorInv
  BY MirrorInit, MirrorStep, PTL DEF Spec

\* Every variable of the mirror has its type; in particular what the parser
\* keeps between two chunks never holds the end of an event (SseParser::push
\* in federation.rs).
THEOREM TypeCorrect == Spec => []TypeOK
<1>1. MirrorInv => TypeOK
  BY DEF MirrorInv
<1> QED BY <1>1, MirrorAlways, PTL

\* A step publishes one more snapshot, or has the page show a later one of
\* those published, or is of no account to the relay.
LEMMA RelayStep == MirrorInv /\ MirrorInv' /\ [Next]_vars => [Relay!Next]_<<pub, view.snap>>
<1> USE DEF node, parser, hub, ghosts
<1> SUFFICES ASSUME MirrorInv, MirrorInv', [Next]_vars
             PROVE  [Relay!Next]_<<pub, view.snap>>
  OBVIOUS
<1>1. TypeOK /\ Session /\ Staged /\ TypeOK'
  BY DEF MirrorInv
<1>2. pub \in Nat /\ view.snap \in Nat /\ view'.snap \in Nat
  BY <1>1 DEF TypeOK, Payload
<1>3. CASE NodePublish
  BY <1>3 DEF NodePublish, Relay!Next, Relay!Publish
<1>4. CASE PageShows
  <2>1. pub' = pub /\ (view' # view => view.snap <= view'.snap /\ view'.snap <= pub)
    BY <1>1, <1>4, StagesOfPage DEF PageShows
  <2>2. view'.snap = view.snap \/ view'.snap \in view.snap + 1..pub
    BY <1>2, <2>1
  <2> QED BY <2>1, <2>2 DEF Relay!Next, Relay!See
<1>5. CASE ~NodePublish /\ ~PageShows
  <2>1. pub' = pub /\ view' = view
    BY <1>5 DEF Next, vars, NodeDenied, NodeFeed, NodeStop, NodeStart, Tick, Resolve,
       RequestFails, Connect, NotFound, ReadChunk, TakeEvent, Poll, TakeReply, HubPublish,
       ReplyLost, StreamEnds, HubDenied, HubFeed, HubStop, HubStart, Break, PageConnects,
       PageDisconnects, PageHides
  <2> QED BY <2>1
<1> QED BY <1>3, <1>4, <1>5

\* Through both hops, however the connections break and whichever side is
\* restarted, the page sees snapshots the node published and never an older
\* one after a newer one (dashboard_stream, consume_stream, run_node).
THEOREM MirrorRelays == Spec => ImplementsRelay
<1>1. Init => Relay!Init
  BY DEF Init, Relay!Init
<1> QED BY <1>1, MirrorAlways, RelayStep, PTL DEF Spec, ImplementsRelay, Relay!Spec
=============================================================================
