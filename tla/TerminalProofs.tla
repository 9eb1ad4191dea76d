--------------------------- MODULE TerminalProofs ---------------------------
(***************************************************************************)
(* Theorems about the terminal: its types, that the page has one session   *)
(* at a time, and that both directions of a session are faithful, over one *)
(* bridge or two.                                                          *)
(***************************************************************************)
EXTENDS Terminal, FiniteSetTheorems, TLAPS

-----------------------------------------------------------------------------
(* A direction of a session, in general: queues one after the other, with  *)
(* a hand between each two, carry numbered frames of one kind from a       *)
(* source to a sink, and other frames in between.                          *)

\* How much a frame, or an empty hand, adds to the frames of a kind.
Weight(kind, f) == IF f # NoFrame /\ f.kind = kind THEN 1 ELSE 0

\* The frames of the kind in queue q are those numbered lo + 1 .. hi, in order.
Run(kind, q, lo, hi) ==
    /\ lo <= hi
    /\ \E upto \in [0 .. Len(q) -> Nat] :
         /\ upto[0] = lo /\ upto[Len(q)] = hi
         /\ \A i \in 1 .. Len(q) :
              /\ upto[i] = upto[i - 1] + Weight(kind, q[i])
              /\ q[i].kind = kind => q[i].n = upto[i]
         /\ \A i, j \in 0 .. Len(q) : i <= j => upto[i] <= upto[j]

\* An empty queue holds no frame.
LEMMA RunEmpty ==
    ASSUME NEW kind, NEW lo \in Nat
    PROVE  Run(kind, <<>>, lo, lo)
<1> DEFINE upto == [i \in 0 .. 0 |-> lo]
<1>1. Len(<<>>) = 0
  OBVIOUS
<1>2. /\ upto \in [0 .. Len(<<>>) -> Nat]
      /\ upto[0] = lo /\ upto[Len(<<>>)] = lo
      /\ \A i, j \in 0 .. Len(<<>>) : i <= j => upto[i] <= upto[j]
  BY <1>1
<1>3. \A i \in 1 .. Len(<<>>) : FALSE
  BY <1>1
<1> HIDE DEF upto
<1> QED BY <1>2, <1>3 DEF Run

\* The next frame of the kind, or one of another kind, at the end.
LEMMA RunAppend ==
    ASSUME NEW kind, NEW q \in Seq(Frame), NEW f \in Frame,
           NEW lo \in Nat, NEW hi \in Nat, Run(kind, q, lo, hi),
           f.kind = kind => f.n = hi + 1
    PROVE  Run(kind, Append(q, f), lo, hi + Weight(kind, f))
<1> DEFINE n == Len(q)
           q2 == Append(q, f)
           w == Weight(kind, f)
<1>1. PICK upto \in [0 .. n -> Nat] :
         /\ upto[0] = lo /\ upto[n] = hi
         /\ \A i \in 1 .. n : /\ upto[i] = upto[i - 1] + Weight(kind, q[i])
                              /\ q[i].kind = kind => q[i].n = upto[i]
         /\ \A i, j \in 0 .. n : i <= j => upto[i] <= upto[j]
  BY DEF Run
<1>2. n \in Nat /\ Len(q2) = n + 1 /\ q2[n + 1] = f /\ \A i \in 1 .. n : q2[i] = q[i]
  OBVIOUS
<1>3. f # NoFrame /\ w \in {0, 1} /\ (f.kind = kind => w = 1)
  BY FrameAssumption DEF Weight
<1>4. lo <= hi + w
  BY <1>3 DEF Run
<1> DEFINE upto2 == [i \in 0 .. n + 1 |-> IF i = n + 1 THEN hi + w ELSE upto[i]]
<1>5. /\ upto2 \in [0 .. n + 1 -> Nat] /\ upto2[n + 1] = hi + w
      /\ \A i \in 0 .. n : upto2[i] = upto[i]
  BY <1>1, <1>2, <1>3
<1> HIDE DEF n, q2, w, upto2
<1>6. ASSUME NEW i \in 1 .. n + 1
      PROVE  /\ upto2[i] = upto2[i - 1] + Weight(kind, q2[i])
             /\ q2[i].kind = kind => q2[i].n = upto2[i]
  <2>1. CASE i = n + 1
    <3>1. i - 1 = n /\ n \in 0 .. n
      BY <1>2, <2>1
    <3>2. upto2[i - 1] = hi
      BY <1>1, <1>5, <3>1
    <3> QED BY <1>2, <1>3, <1>5, <2>1, <3>2 DEF w
  <2>2. CASE i # n + 1
    <3>1. i \in 1 .. n /\ i \in 0 .. n /\ i - 1 \in 0 .. n
      BY <1>2, <2>2
    <3> QED BY <1>1, <1>2, <1>5, <3>1
  <2> QED BY <2>1, <2>2
<1>7. ASSUME NEW i \in 0 .. n + 1, NEW j \in 0 .. n + 1, i <= j
      PROVE  upto2[i] <= upto2[j]
  <2>1. CASE j = n + 1
    <3>1. CASE i = n + 1
      BY <1>5, <2>1, <3>1, <1>3
    <3>2. CASE i # n + 1
      <4>1. i \in 0 .. n /\ n \in 0 .. n /\ i <= n
        BY <1>2, <3>2
      <4>2. upto[i] <= hi /\ upto[i] \in Nat
        BY <1>1, <4>1
      <4> QED BY <1>3, <1>5, <2>1, <4>1, <4>2
    <3> QED BY <3>1, <3>2
  <2>2. CASE j # n + 1
    <3>1. i \in 0 .. n /\ j \in 0 .. n
      BY <1>2, <1>7, <2>2
    <3> QED BY <1>1, <1>5, <1>7, <3>1
  <2> QED BY <2>1, <2>2
<1>8. upto2[0] = lo
  BY <1>1, <1>2, <1>5
<1> QED BY <1>2, <1>4, <1>5, <1>6, <1>7, <1>8 DEF Run, q2, w

\* The first frame of the kind has the lowest number.
LEMMA RunTail ==
    ASSUME NEW kind, NEW q \in Seq(Frame), q # <<>>,
           NEW lo \in Nat, NEW hi \in Nat, Run(kind, q, lo, hi)
    PROVE  /\ Head(q).kind = kind => Head(q).n = lo + 1
           /\ lo + Weight(kind, Head(q)) <= hi
           /\ Run(kind, Tail(q), lo + Weight(kind, Head(q)), hi)
<1> DEFINE n == Len(q) - 1
           q2 == Tail(q)
           w == Weight(kind, Head(q))
<1>1. PICK upto \in [0 .. Len(q) -> Nat] :
         /\ upto[0] = lo /\ upto[Len(q)] = hi
         /\ \A i \in 1 .. Len(q) : /\ upto[i] = upto[i - 1] + Weight(kind, q[i])
                                   /\ q[i].kind = kind => q[i].n = upto[i]
         /\ \A i, j \in 0 .. Len(q) : i <= j => upto[i] <= upto[j]
  BY DEF Run
<1>2. /\ n \in Nat /\ Len(q) = n + 1 /\ Len(q2) = n /\ Head(q) = q[1] /\ q[1] \in Frame
      /\ \A i \in 1 .. n : q2[i] = q[i + 1]
  OBVIOUS
<1>3. w \in {0, 1} /\ (q[1].kind = kind => w = 1) /\ w = Weight(kind, q[1])
  BY <1>2, FrameAssumption DEF Weight
<1> DEFINE upto2 == [i \in 0 .. n |-> upto[i + 1]]
<1>5. upto2 \in [0 .. n -> Nat] /\ \A i \in 0 .. n : upto2[i] = upto[i + 1]
  BY <1>1, <1>2
<1> HIDE DEF n, q2, w, upto2
<1>4. upto[1] = lo + w /\ (q[1].kind = kind => q[1].n = lo + w)
  <2>1. 1 \in 1 .. Len(q) /\ 1 - 1 = 0
    BY <1>2
  <2>2. upto[1] = upto[0] + Weight(kind, q[1])
    BY <1>1, <2>1
  <2> QED BY <1>1, <1>3, <2>1, <2>2
<1>6. ASSUME NEW i \in 1 .. n
      PROVE  /\ upto2[i] = upto2[i - 1] + Weight(kind, q2[i])
             /\ q2[i].kind = kind => q2[i].n = upto2[i]
  <2>1. /\ i \in 0 .. n /\ i - 1 \in 0 .. n /\ i + 1 \in 1 .. Len(q)
        /\ i - 1 + 1 = i /\ i + 1 - 1 = i
    BY <1>2
  <2>2. /\ upto[i + 1] = upto[i] + Weight(kind, q[i + 1])
        /\ q[i + 1].kind = kind => q[i + 1].n = upto[i + 1]
    BY <1>1, <2>1
  <2> QED BY <1>2, <1>5, <2>1, <2>2
<1>7. ASSUME NEW i \in 0 .. n, NEW j \in 0 .. n, i <= j
      PROVE  upto2[i] <= upto2[j]
  <2>1. i + 1 \in 0 .. Len(q) /\ j + 1 \in 0 .. Len(q) /\ i + 1 <= j + 1
    BY <1>2, <1>7
  <2> QED BY <1>1, <1>5, <2>1
<1>8. upto2[0] = lo + w /\ upto2[n] = hi
  <2>1. 0 \in 0 .. n /\ n \in 0 .. n /\ 0 + 1 = 1
    BY <1>2
  <2> QED BY <1>1, <1>2, <1>4, <1>5, <2>1
<1>9. lo + w <= hi
  <2>1. 0 \in 0 .. n /\ n \in 0 .. n /\ 0 <= n
    BY <1>2
  <2> QED BY <1>7, <1>8, <2>1
<1>10. Run(kind, q2, lo + w, hi)
  BY <1>2, <1>5, <1>6, <1>7, <1>8, <1>9 DEF Run
<1> QED BY <1>2, <1>3, <1>4, <1>9, <1>10 DEF q2, w

-----------------------------------------------------------------------------
(* The whole direction.  It goes over the legs 1 .. n + 1 and the bridges   *)
(* 1 .. n, upwards in their numbers if dir = 0 and downwards if dir = 1.    *)

Before(dir, k) == k + dir        \* the leg the pump of bridge k reads
After(dir, k) == k + 1 - dir     \* the leg it writes
First(dir, n) == IF dir = 0 THEN 1 ELSE n + 1
Final(dir, n) == IF dir = 0 THEN n + 1 ELSE 1

\* What the direction consists of: the queues, the hands, the legs whose
\* reading end is there, and the bridges that pass nothing on yet.
Parts(n, q, hand, live, shut) ==
    /\ n \in Bridges
    /\ q \in [Legs -> Seq(Frame)] /\ hand \in [Bridges -> Hand]
    /\ live \in SUBSET Legs /\ shut \in SUBSET (1 .. n)

\* lo[j] frames of the kind are behind leg j, and hi[j] with those in it.  A
\* frame is lost only where everything behind it is cut off, so that these
\* numbers agree from one live leg to the next.
Marked(kind, dir, n, q, hand, live, shut, src, snk, lo, hi) ==
    /\ lo \in [Legs -> Nat] /\ hi \in [Legs -> Nat]
    /\ \A j \in Legs : Run(kind, q[j], lo[j], hi[j]) /\ hi[j] <= src
    /\ \A k \in 1 .. n : After(dir, k) \in live =>
         /\ hand[k] # NoFrame /\ hand[k].kind = kind =>
              hand[k].n = hi[After(dir, k)] + 1 /\ hand[k].n <= src
         /\ Before(dir, k) \in live =>
              lo[Before(dir, k)] = hi[After(dir, k)] + Weight(kind, hand[k])
    /\ \A k \in shut : /\ Before(dir, k) \in live => lo[Before(dir, k)] = 0
                       /\ After(dir, k) \in live => hi[After(dir, k)] = 0
    /\ First(dir, n) \in live => hi[First(dir, n)] = src
    /\ Final(dir, n) \in live => lo[Final(dir, n)] = snk
    /\ snk <= src

Flow(kind, dir, n, q, hand, live, shut, src, snk) ==
    \E lo, hi \in [Legs -> Nat] :
        Marked(kind, dir, n, q, hand, live, shut, src, snk, lo, hi)

\* A pump takes the next frame into its hand.
LEMMA FlowRead ==
    ASSUME NEW kind, NEW dir \in {0, 1}, NEW n, NEW q, NEW hand, NEW live, NEW shut,
           NEW src \in Nat, NEW snk \in Nat, Parts(n, q, hand, live, shut),
           Flow(kind, dir, n, q, hand, live, shut, src, snk),
           NEW k \in 1 .. n, k \notin shut, hand[k] = NoFrame,
           Before(dir, k) \in live, q[Before(dir, k)] # <<>>,
           NEW q2, NEW hand2,
           q2 = [q EXCEPT ![Before(dir, k)] = Tail(@)],
           hand2 = [hand EXCEPT ![k] = Head(q[Before(dir, k)])]
    PROVE  Flow(kind, dir, n, q2, hand2, live, shut, src, snk)
<1> DEFINE b == Before(dir, k)
           f == Head(q[b])
           w == Weight(kind, f)
<1>1. PICK lo \in [Legs -> Nat], hi \in [Legs -> Nat] :
        Marked(kind, dir, n, q, hand, live, shut, src, snk, lo, hi)
  BY DEF Flow
<1>2. n \in {1, 2} /\ k \in Bridges /\ b \in Legs
  BY DEF Parts, Bridges, Legs, Before
<1>3. q[b] \in Seq(Frame) /\ q[b] # <<>> /\ lo[b] \in Nat /\ hi[b] \in Nat
      /\ Run(kind, q[b], lo[b], hi[b])
  BY <1>1, <1>2 DEF Parts, Marked
<1>4. /\ f.kind = kind => f.n = lo[b] + 1
      /\ lo[b] + w <= hi[b] /\ Run(kind, Tail(q[b]), lo[b] + w, hi[b])
  BY <1>3, RunTail
<1>5. f \in Frame /\ f # NoFrame /\ w \in {0, 1} /\ (w = 1 <=> f.kind = kind)
  <2>1. f \in Frame
    BY <1>3
  <2> QED BY <2>1, FrameAssumption DEF Weight
<1> DEFINE lo2 == [lo EXCEPT ![b] = lo[b] + w]
<1>6. lo2 \in [Legs -> Nat] /\ lo2[b] = lo[b] + w /\ \A j \in Legs \ {b} : lo2[j] = lo[j]
  BY <1>1, <1>2, <1>3, <1>5
<1>7. /\ q2[b] = Tail(q[b]) /\ \A j \in Legs \ {b} : q2[j] = q[j]
      /\ hand2[k] = f /\ \A i \in Bridges \ {k} : hand2[i] = hand[i]
  BY <1>2 DEF Parts
<1> HIDE DEF f, w, lo2
<1>8. Weight(kind, hand2[k]) = w /\ Weight(kind, hand[k]) = 0
  BY <1>7 DEF w, Weight
<1>9. \A j \in Legs : Run(kind, q2[j], lo2[j], hi[j]) /\ hi[j] <= src
  BY <1>1, <1>2, <1>4, <1>6, <1>7 DEF Marked
<1>10. ASSUME NEW i \in 1 .. n, After(dir, i) \in live
       PROVE  /\ hand2[i] # NoFrame /\ hand2[i].kind = kind =>
                   hand2[i].n = hi[After(dir, i)] + 1 /\ hand2[i].n <= src
              /\ Before(dir, i) \in live =>
                   lo2[Before(dir, i)] = hi[After(dir, i)] + Weight(kind, hand2[i])
  <2>1. CASE i = k
    <3>1. lo[b] = hi[After(dir, k)] + Weight(kind, hand[k])
      BY <1>1, <1>10, <2>1 DEF Marked
    <3>2. After(dir, k) \in Legs
      BY <1>2 DEF After, Legs, Bridges
    <3>3. lo[b] = hi[After(dir, k)] /\ hi[After(dir, k)] \in Nat
      BY <1>1, <1>8, <3>1, <3>2
    <3>4. f.kind = kind => f.n <= src
      BY <1>1, <1>2, <1>3, <1>4, <1>5 DEF Marked
    <3> QED BY <1>4, <1>5, <1>6, <1>7, <1>8, <2>1, <3>3, <3>4
  <2>2. CASE i # k
    <3>1. i \in Bridges /\ Before(dir, i) \in Legs \ {b}
      BY <1>2, <2>2 DEF Before, Legs, Bridges
    <3> QED BY <1>1, <1>6, <1>7, <1>10, <2>2, <3>1 DEF Marked
  <2> QED BY <2>1, <2>2
<1>11. ASSUME NEW i \in shut
       PROVE  /\ Before(dir, i) \in live => lo2[Before(dir, i)] = 0
              /\ After(dir, i) \in live => hi[After(dir, i)] = 0
  <2>1. i \in Bridges /\ i # k
    BY <1>2 DEF Parts, Bridges
  <2>2. Before(dir, i) \in Legs \ {b}
    BY <1>2, <2>1 DEF Before, Legs, Bridges
  <2> QED BY <1>1, <1>6, <2>2 DEF Marked
<1>12. Final(dir, n) \in Legs \ {b}
  BY <1>2 DEF Final, Before, Legs
<1>13. Marked(kind, dir, n, q2, hand2, live, shut, src, snk, lo2, hi)
  BY <1>1, <1>6, <1>9, <1>10, <1>11, <1>12 DEF Marked
<1> QED BY <1>1, <1>6, <1>13 DEF Flow

\* It writes what it holds into the next leg, or into nowhere.
LEMMA FlowWrite ==
    ASSUME NEW kind, NEW dir \in {0, 1}, NEW n, NEW q, NEW hand, NEW live, NEW shut,
           NEW src \in Nat, NEW snk \in Nat, Parts(n, q, hand, live, shut),
           Flow(kind, dir, n, q, hand, live, shut, src, snk),
           NEW k \in 1 .. n, k \notin shut, hand[k] # NoFrame,
           NEW q2, NEW hand2,
           IF After(dir, k) \in live
             THEN q2 = [q EXCEPT ![After(dir, k)] = Append(@, hand[k])]
             ELSE q2 = q,
           hand2 = [hand EXCEPT ![k] = NoFrame]
    PROVE  Flow(kind, dir, n, q2, hand2, live, shut, src, snk)
<1> DEFINE a == After(dir, k)
           f == hand[k]
           w == Weight(kind, f)
<1>1. PICK lo \in [Legs -> Nat], hi \in [Legs -> Nat] :
        Marked(kind, dir, n, q, hand, live, shut, src, snk, lo, hi)
  BY DEF Flow
<1>2. n \in {1, 2} /\ k \in Bridges /\ a \in Legs
  <2>1. n \in {1, 2} /\ k \in {1, 2}
    BY DEF Parts, Bridges
  <2>2. a \in {1, 2, 3}
    BY <2>1 DEF After
  <2> QED BY <2>1, <2>2 DEF Bridges, Legs
<1>3. q[a] \in Seq(Frame) /\ lo[a] \in Nat /\ hi[a] \in Nat
      /\ Run(kind, q[a], lo[a], hi[a])
  BY <1>1, <1>2 DEF Parts, Marked
<1>5. f \in Frame /\ w \in {0, 1} /\ (w = 1 <=> f.kind = kind)
  <2>1. f \in Frame
    BY <1>2 DEF Parts, Hand
  <2> QED BY <2>1 DEF Weight
<1>7. hand2[k] = NoFrame /\ \A i \in Bridges \ {k} : hand2[i] = hand[i]
  BY <1>2 DEF Parts
<1>8. Weight(kind, hand2[k]) = 0
  BY <1>7 DEF Weight
<1>9. CASE a \in live
  <2> DEFINE hi2 == [hi EXCEPT ![a] = hi[a] + w]
  <2>1. hi2 \in [Legs -> Nat] /\ hi2[a] = hi[a] + w /\ \A j \in Legs \ {a} : hi2[j] = hi[j]
    BY <1>1, <1>2, <1>3, <1>5
  <2>2. q2[a] = Append(q[a], f) /\ \A j \in Legs \ {a} : q2[j] = q[j]
    BY <1>2, <1>9 DEF Parts
  <2>3. /\ f.kind = kind => f.n = hi[a] + 1 /\ f.n <= src
        /\ Before(dir, k) \in live => lo[Before(dir, k)] = hi[a] + w
    BY <1>1, <1>9 DEF Marked
  <2> HIDE DEF f, w, hi2
  <2>4. Run(kind, q2[a], lo[a], hi2[a])
    BY <1>3, <1>5, <2>1, <2>2, <2>3, RunAppend DEF w
  <2>5. hi2[a] <= src
    BY <1>1, <1>2, <1>3, <1>5, <2>1, <2>3 DEF Marked
  <2>6. \A j \in Legs : Run(kind, q2[j], lo[j], hi2[j]) /\ hi2[j] <= src
    BY <1>1, <1>2, <2>1, <2>2, <2>4, <2>5 DEF Marked
  <2>7. ASSUME NEW i \in 1 .. n, After(dir, i) \in live
        PROVE  /\ hand2[i] # NoFrame /\ hand2[i].kind = kind =>
                    hand2[i].n = hi2[After(dir, i)] + 1 /\ hand2[i].n <= src
               /\ Before(dir, i) \in live =>
                    lo[Before(dir, i)] = hi2[After(dir, i)] + Weight(kind, hand2[i])
    <3>1. CASE i = k
      BY <1>3, <1>5, <1>7, <1>8, <2>1, <2>3, <3>1
    <3>2. CASE i # k
      <4>1. i \in Bridges /\ After(dir, i) \in Legs \ {a}
        BY <1>2, <3>2 DEF After, Legs, Bridges
      <4> QED BY <1>1, <1>7, <2>1, <2>7, <3>2, <4>1 DEF Marked
    <3> QED BY <3>1, <3>2
  <2>8. ASSUME NEW i \in shut
        PROVE  /\ Before(dir, i) \in live => lo[Before(dir, i)] = 0
               /\ After(dir, i) \in live => hi2[After(dir, i)] = 0
    <3>1. i \in Bridges /\ i # k
      BY <1>2 DEF Parts, Bridges
    <3>2. After(dir, i) \in Legs \ {a}
      BY <1>2, <3>1 DEF After, Legs, Bridges
    <3> QED BY <1>1, <2>1, <3>2 DEF Marked
  <2>9. First(dir, n) \in Legs \ {a}
    BY <1>2 DEF First, After, Legs
  <2>10. Marked(kind, dir, n, q2, hand2, live, shut, src, snk, lo, hi2)
    BY <1>1, <2>1, <2>6, <2>7, <2>8, <2>9 DEF Marked
  <2> QED BY <1>1, <2>1, <2>10 DEF Flow
<1>10. CASE a \notin live
  <2>1. \A i \in 1 .. n : After(dir, i) \in live => i \in Bridges \ {k}
    BY <1>2, <1>10 DEF Bridges
  <2>2. Marked(kind, dir, n, q2, hand2, live, shut, src, snk, lo, hi)
    BY <1>1, <1>7, <1>10, <2>1 DEF Marked
  <2> QED BY <1>1, <2>2 DEF Flow
<1> QED BY <1>9, <1>10

\* It gets rid of a frame of another kind.
LEMMA FlowToss ==
    ASSUME NEW kind, NEW dir \in {0, 1}, NEW n, NEW q, NEW hand, NEW live, NEW shut,
           NEW src \in Nat, NEW snk \in Nat, Parts(n, q, hand, live, shut),
           Flow(kind, dir, n, q, hand, live, shut, src, snk),
           NEW k \in 1 .. n, hand[k].kind # kind,
           NEW hand2, hand2 = [hand EXCEPT ![k] = NoFrame]
    PROVE  Flow(kind, dir, n, q, hand2, live, shut, src, snk)
<1>1. PICK lo \in [Legs -> Nat], hi \in [Legs -> Nat] :
        Marked(kind, dir, n, q, hand, live, shut, src, snk, lo, hi)
  BY DEF Flow
<1>2. k \in Bridges /\ \A i \in 1 .. n : i \in Bridges
  BY DEF Parts, Bridges
<1>3. hand2[k] = NoFrame /\ \A i \in Bridges \ {k} : hand2[i] = hand[i]
  BY <1>2 DEF Parts
<1>4. \A i \in Bridges : Weight(kind, hand2[i]) = Weight(kind, hand[i])
  BY <1>2, <1>3 DEF Weight
<1>5. Marked(kind, dir, n, q, hand2, live, shut, src, snk, lo, hi)
  BY <1>1, <1>2, <1>3, <1>4 DEF Marked
<1> QED BY <1>1, <1>5 DEF Flow

\* The source sends another frame into the first leg, if that is there.
LEMMA FlowFeed ==
    ASSUME NEW kind, NEW dir \in {0, 1}, NEW n, NEW q, NEW hand, NEW live, NEW shut,
           NEW src \in Nat, NEW snk \in Nat, Parts(n, q, hand, live, shut),
           Flow(kind, dir, n, q, hand, live, shut, src, snk),
           NEW f \in Frame, f.kind = kind, f.n = src + 1, NEW q2,
           IF First(dir, n) \in live
             THEN q2 = [q EXCEPT ![First(dir, n)] = Append(@, f)]
             ELSE q2 = q
    PROVE  Flow(kind, dir, n, q2, hand, live, shut, src + 1, snk)
<1> DEFINE a == First(dir, n)
<1>1. PICK lo \in [Legs -> Nat], hi \in [Legs -> Nat] :
        Marked(kind, dir, n, q, hand, live, shut, src, snk, lo, hi)
  BY DEF Flow
<1>2. n \in {1, 2} /\ a \in Legs
  BY DEF Parts, Bridges, Legs, First
<1>3. /\ q[a] \in Seq(Frame) /\ lo[a] \in Nat /\ hi[a] \in Nat
      /\ Run(kind, q[a], lo[a], hi[a])
  BY <1>1, <1>2 DEF Parts, Marked
<1>4. Weight(kind, f) = 1
  BY FrameAssumption DEF Weight
<1>5. \A k \in Bridges : hand[k] # NoFrame => hand[k].n \in Nat
  BY DEF Parts, Hand, Frame
<1>6. CASE a \in live
  <2> DEFINE hi2 == [hi EXCEPT ![a] = src + 1]
  <2>1. hi2 \in [Legs -> Nat] /\ hi2[a] = src + 1 /\ \A j \in Legs \ {a} : hi2[j] = hi[j]
    BY <1>1, <1>2
  <2>2. q2[a] = Append(q[a], f) /\ \A j \in Legs \ {a} : q2[j] = q[j]
    BY <1>2, <1>6 DEF Parts
  <2>3. hi[a] = src
    BY <1>1, <1>6 DEF Marked
  <2> HIDE DEF hi2
  <2>4. Run(kind, q2[a], lo[a], hi2[a])
    BY <1>3, <1>4, <2>1, <2>2, <2>3, RunAppend
  <2>5. ASSUME NEW j \in Legs PROVE Run(kind, q2[j], lo[j], hi2[j]) /\ hi2[j] <= src + 1
    <3>1. CASE j = a
      BY <2>1, <2>4, <3>1
    <3>2. CASE j # a
      <4>1. hi[j] <= src /\ hi[j] \in Nat /\ Run(kind, q[j], lo[j], hi[j])
        BY <1>1 DEF Marked
      <4> QED BY <2>1, <2>2, <3>2, <4>1
    <3> QED BY <3>1, <3>2
  <2>6. ASSUME NEW k \in 1 .. n, After(dir, k) \in live
        PROVE  /\ hand[k] # NoFrame /\ hand[k].kind = kind =>
                    hand[k].n = hi2[After(dir, k)] + 1 /\ hand[k].n <= src + 1
               /\ Before(dir, k) \in live =>
                    lo[Before(dir, k)] = hi2[After(dir, k)] + Weight(kind, hand[k])
    <3>1. k \in Bridges /\ After(dir, k) \in Legs \ {a}
      BY <1>2 DEF First, After, Legs, Bridges
    <3> QED BY <1>1, <1>5, <2>1, <2>6, <3>1 DEF Marked
  <2>7. ASSUME NEW k \in shut
        PROVE  /\ Before(dir, k) \in live => lo[Before(dir, k)] = 0
               /\ After(dir, k) \in live => hi2[After(dir, k)] = 0
    <3>1. k \in 1 .. n
      BY DEF Parts
    <3>2. After(dir, k) \in Legs \ {a}
      BY <1>2, <3>1 DEF First, After, Legs
    <3> QED BY <1>1, <2>1, <3>2 DEF Marked
  <2>8. Marked(kind, dir, n, q2, hand, live, shut, src + 1, snk, lo, hi2)
    BY <1>1, <2>1, <2>5, <2>6, <2>7 DEF Marked
  <2> QED BY <1>1, <2>1, <2>8 DEF Flow
<1>7. CASE a \notin live
  <2>1. \A j \in Legs : hi[j] <= src => hi[j] <= src + 1
    BY <1>1
  <2>2. \A k \in Bridges : hand[k] # NoFrame /\ hand[k].n <= src => hand[k].n <= src + 1
    BY <1>5
  <2>3. \A k \in 1 .. n : k \in Bridges
    BY <1>2 DEF Bridges
  <2>4. Marked(kind, dir, n, q2, hand, live, shut, src + 1, snk, lo, hi)
    BY <1>1, <1>7, <2>1, <2>2, <2>3 DEF Marked
  <2> QED BY <1>1, <2>4 DEF Flow
<1> QED BY <1>6, <1>7

\* A frame of another kind is put into a leg.
LEMMA FlowOther ==
    ASSUME NEW kind, NEW dir \in {0, 1}, NEW n, NEW q, NEW hand, NEW live, NEW shut,
           NEW src \in Nat, NEW snk \in Nat, Parts(n, q, hand, live, shut),
           Flow(kind, dir, n, q, hand, live, shut, src, snk),
           NEW j \in Legs, NEW f \in Frame, f.kind # kind,
           NEW q2, q2 = [q EXCEPT ![j] = Append(@, f)]
    PROVE  Flow(kind, dir, n, q2, hand, live, shut, src, snk)
<1>1. PICK lo \in [Legs -> Nat], hi \in [Legs -> Nat] :
        Marked(kind, dir, n, q, hand, live, shut, src, snk, lo, hi)
  BY DEF Flow
<1>2. q2[j] = Append(q[j], f) /\ \A i \in Legs \ {j} : q2[i] = q[i]
  BY DEF Parts
<1>3. q[j] \in Seq(Frame) /\ lo[j] \in Nat /\ hi[j] \in Nat /\ Run(kind, q[j], lo[j], hi[j])
  BY <1>1 DEF Parts, Marked
<1>4. Weight(kind, f) = 0
  BY DEF Weight
<1>5. Run(kind, q2[j], lo[j], hi[j] + 0)
  BY <1>2, <1>3, <1>4, RunAppend
<1>6. hi[j] + 0 = hi[j]
  BY <1>3
<1>7. Run(kind, q2[j], lo[j], hi[j])
  BY <1>5, <1>6
<1>8. Marked(kind, dir, n, q2, hand, live, shut, src, snk, lo, hi)
  BY <1>1, <1>2, <1>7 DEF Marked
<1> QED BY <1>1, <1>8 DEF Flow

\* The next frame of the kind for the sink is the one it expects.
Expected(kind, p, snk) == Head(p).kind = kind => Head(p).n = snk + 1

\* The next frame the sink takes has the number after its last one.
LEMMA FlowNext ==
    ASSUME NEW kind, NEW dir \in {0, 1}, NEW n, NEW q, NEW hand, NEW live, NEW shut,
           NEW src \in Nat, NEW snk \in Nat, Parts(n, q, hand, live, shut),
           Flow(kind, dir, n, q, hand, live, shut, src, snk),
           Final(dir, n) \in live, NEW p, p = q[Final(dir, n)], p # <<>>
    PROVE  Expected(kind, p, snk)
<1> DEFINE b == Final(dir, n)
<1>1. PICK lo \in [Legs -> Nat], hi \in [Legs -> Nat] :
        Marked(kind, dir, n, q, hand, live, shut, src, snk, lo, hi)
  BY DEF Flow
<1>2. n \in {1, 2} /\ b \in Legs
  BY DEF Parts, Bridges, Legs, Final
<1>3. /\ p \in Seq(Frame) /\ lo[b] = snk /\ hi[b] \in Nat /\ Run(kind, p, lo[b], hi[b])
  BY <1>1, <1>2 DEF Parts, Marked
<1> QED BY <1>3, RunTail DEF Expected

\* The sink takes a frame from the final leg.
LEMMA FlowDrain ==
    ASSUME NEW kind, NEW dir \in {0, 1}, NEW n, NEW q, NEW hand, NEW live, NEW shut,
           NEW src \in Nat, NEW snk \in Nat, Parts(n, q, hand, live, shut),
           Flow(kind, dir, n, q, hand, live, shut, src, snk),
           Final(dir, n) \in live, q[Final(dir, n)] # <<>>,
           NEW q2, q2 = [q EXCEPT ![Final(dir, n)] = Tail(@)],
           NEW f, f = Head(q[Final(dir, n)]), NEW snk2, snk2 = snk + Weight(kind, f)
    PROVE  Flow(kind, dir, n, q2, hand, live, shut, src, snk2)
<1> DEFINE b == Final(dir, n)
           w == Weight(kind, f)
<1>1. PICK lo \in [Legs -> Nat], hi \in [Legs -> Nat] :
        Marked(kind, dir, n, q, hand, live, shut, src, snk, lo, hi)
  BY DEF Flow
<1>2. n \in {1, 2} /\ b \in Legs
  BY DEF Parts, Bridges, Legs, Final
<1>3. /\ q[b] \in Seq(Frame) /\ q[b] # <<>> /\ lo[b] = snk /\ hi[b] \in Nat
      /\ hi[b] <= src /\ Run(kind, q[b], lo[b], hi[b])
  BY <1>1, <1>2 DEF Parts, Marked
<1>4. /\ f.kind = kind => f.n = snk + 1
      /\ snk + w <= hi[b] /\ Run(kind, Tail(q[b]), snk + w, hi[b])
  BY <1>3, RunTail
<1>5. w \in {0, 1}
  BY DEF Weight
<1> DEFINE lo2 == [lo EXCEPT ![b] = snk + w]
<1>6. lo2 \in [Legs -> Nat] /\ lo2[b] = snk + w /\ \A j \in Legs \ {b} : lo2[j] = lo[j]
  BY <1>1, <1>2, <1>5
<1>7. q2[b] = Tail(q[b]) /\ \A j \in Legs \ {b} : q2[j] = q[j]
  BY <1>2 DEF Parts
<1>8. snk + w <= src
  BY <1>3, <1>4, <1>5
<1> HIDE DEF w, lo2
<1>9. \A j \in Legs : Run(kind, q2[j], lo2[j], hi[j]) /\ hi[j] <= src
  BY <1>1, <1>2, <1>4, <1>6, <1>7 DEF Marked
<1>10. \A k \in 1 .. n : Before(dir, k) \in Legs \ {b}
  BY <1>2 DEF Before, Final, Legs
<1>11. \A k \in shut : Before(dir, k) \in Legs \ {b}
  BY <1>10 DEF Parts
<1>12. Marked(kind, dir, n, q2, hand, live, shut, src, snk + w, lo2, hi)
  BY <1>1, <1>6, <1>8, <1>9, <1>10, <1>11 DEF Marked
<1>13. Flow(kind, dir, n, q2, hand, live, shut, src, snk + w)
  BY <1>1, <1>6, <1>12 DEF Flow
<1> QED BY <1>13 DEF w

\* The reading end of leg j is dropped, and perhaps the bridge with it that
\* read there; what was in it is lost.
LEMMA FlowCut ==
    ASSUME NEW kind, NEW dir \in {0, 1}, NEW n, NEW q, NEW hand, NEW live, NEW shut,
           NEW src \in Nat, NEW snk \in Nat, Parts(n, q, hand, live, shut),
           Flow(kind, dir, n, q, hand, live, shut, src, snk),
           NEW j \in Legs, NEW q2, NEW hand2, NEW shut2,
           q2 = [q EXCEPT ![j] = <<>>], shut2 \subseteq shut,
           \A k \in Bridges :
             hand2[k] = hand[k] \/ (hand2[k] = NoFrame /\ Before(dir, k) = j)
    PROVE  Flow(kind, dir, n, q2, hand2, live \ {j}, shut2, src, snk)
<1>1. PICK lo \in [Legs -> Nat], hi \in [Legs -> Nat] :
        Marked(kind, dir, n, q, hand, live, shut, src, snk, lo, hi)
  BY DEF Flow
<1>2. q2[j] = <<>> /\ \A i \in Legs \ {j} : q2[i] = q[i]
  BY DEF Parts
<1> DEFINE hi2 == [hi EXCEPT ![j] = lo[j]]
<1>3. /\ lo[j] \in Nat /\ hi[j] \in Nat /\ hi[j] <= src /\ lo[j] <= hi[j]
  BY <1>1 DEF Marked, Run
<1>4. hi2 \in [Legs -> Nat] /\ hi2[j] = lo[j] /\ \A i \in Legs \ {j} : hi2[i] = hi[i]
  BY <1>1, <1>3
<1>5. Run(kind, q2[j], lo[j], hi2[j]) /\ hi2[j] <= src
  BY <1>2, <1>3, <1>4, RunEmpty
<1> HIDE DEF hi2
<1>6. \A i \in Legs : Run(kind, q2[i], lo[i], hi2[i]) /\ hi2[i] <= src
  BY <1>1, <1>2, <1>4, <1>5 DEF Marked
<1>7. \A i \in live \ {j} : i \in Legs \ {j}
  BY DEF Parts
<1>8. ASSUME NEW k \in 1 .. n, After(dir, k) \in live \ {j}
      PROVE  /\ hand2[k] # NoFrame /\ hand2[k].kind = kind =>
                  hand2[k].n = hi2[After(dir, k)] + 1 /\ hand2[k].n <= src
             /\ Before(dir, k) \in live \ {j} =>
                  lo[Before(dir, k)] = hi2[After(dir, k)] + Weight(kind, hand2[k])
  <2>1. k \in Bridges
    BY DEF Parts, Bridges
  <2> QED BY <1>1, <1>4, <1>7, <1>8, <2>1 DEF Marked
<1>9. \A k \in shut2 : /\ Before(dir, k) \in live \ {j} => lo[Before(dir, k)] = 0
                       /\ After(dir, k) \in live \ {j} => hi2[After(dir, k)] = 0
  BY <1>1, <1>4, <1>7 DEF Marked
<1>10. Marked(kind, dir, n, q2, hand2, live \ {j}, shut2, src, snk, lo, hi2)
  BY <1>1, <1>4, <1>6, <1>7, <1>8, <1>9 DEF Marked
<1> QED BY <1>1, <1>4, <1>10 DEF Flow

\* A fresh leg j, which nothing has passed yet, comes with bridge k, if any.
LEMMA FlowFresh ==
    ASSUME NEW kind, NEW dir \in {0, 1}, NEW n, NEW q, NEW hand, NEW live, NEW shut,
           NEW src \in Nat, NEW snk \in Nat, Parts(n, q, hand, live, shut),
           Flow(kind, dir, n, q, hand, live, shut, src, snk),
           NEW j \in Legs, q[j] = <<>>, NEW shut2, shut2 \subseteq shut,
           \A k \in shut : hand[k] = NoFrame,
           \A k \in 1 .. n : j \in {Before(dir, k), After(dir, k)} => k \in shut,
           j = First(dir, n) => src = 0,
           j = Final(dir, n) => snk = 0
    PROVE  Flow(kind, dir, n, q, hand, live \union {j}, shut2, src, snk)
<1>1. PICK lo \in [Legs -> Nat], hi \in [Legs -> Nat] :
        Marked(kind, dir, n, q, hand, live, shut, src, snk, lo, hi)
  BY DEF Flow
<1> DEFINE lo2 == [lo EXCEPT ![j] = 0]
           hi2 == [hi EXCEPT ![j] = 0]
<1>2. /\ lo2 \in [Legs -> Nat] /\ lo2[j] = 0 /\ \A i \in Legs \ {j} : lo2[i] = lo[i]
      /\ hi2 \in [Legs -> Nat] /\ hi2[j] = 0 /\ \A i \in Legs \ {j} : hi2[i] = hi[i]
  BY <1>1
<1> HIDE DEF lo2, hi2
<1>3. Run(kind, q[j], lo2[j], hi2[j]) /\ hi2[j] <= src
  BY <1>2, RunEmpty
<1>4. \A i \in Legs : Run(kind, q[i], lo2[i], hi2[i]) /\ hi2[i] <= src
  BY <1>1, <1>2, <1>3 DEF Marked
<1>5. \A i \in live : i \in Legs
  BY DEF Parts
<1>6. ASSUME NEW k \in 1 .. n, After(dir, k) \in live \union {j}
      PROVE  /\ hand[k] # NoFrame /\ hand[k].kind = kind =>
                  hand[k].n = hi2[After(dir, k)] + 1 /\ hand[k].n <= src
             /\ Before(dir, k) \in live \union {j} =>
                  lo2[Before(dir, k)] = hi2[After(dir, k)] + Weight(kind, hand[k])
  <2>1. CASE k \in shut
    <3>1. hand[k] = NoFrame /\ Weight(kind, hand[k]) = 0
      BY <2>1 DEF Weight
    <3>2. hi2[After(dir, k)] = 0
      BY <1>1, <1>2, <1>5, <1>6, <2>1 DEF Marked
    <3>3. Before(dir, k) \in live \union {j} => lo2[Before(dir, k)] = 0
      BY <1>1, <1>2, <1>5, <2>1 DEF Marked
    <3> QED BY <3>1, <3>2, <3>3
  <2>2. CASE k \notin shut
    <3>1. After(dir, k) # j /\ Before(dir, k) # j
      BY <2>2
    <3> QED BY <1>1, <1>2, <1>5, <1>6, <3>1 DEF Marked
  <2> QED BY <2>1, <2>2
<1>7. \A k \in shut2 : /\ Before(dir, k) \in live \union {j} => lo2[Before(dir, k)] = 0
                       /\ After(dir, k) \in live \union {j} => hi2[After(dir, k)] = 0
  BY <1>1, <1>2, <1>5 DEF Marked
<1>8. Marked(kind, dir, n, q, hand, live \union {j}, shut2, src, snk, lo2, hi2)
  BY <1>1, <1>2, <1>4, <1>5, <1>6, <1>7 DEF Marked
<1> QED BY <1>1, <1>2, <1>8 DEF Flow

\* Nothing is under way.
LEMMA FlowInit ==
    ASSUME NEW kind, NEW dir \in {0, 1}, NEW n, NEW q, NEW hand, NEW shut,
           Parts(n, q, hand, {}, shut), \A j \in Legs : q[j] = <<>>
    PROVE  Flow(kind, dir, n, q, hand, {}, shut, 0, 0)
<1> DEFINE z == [j \in Legs |-> 0]
<1>1. z \in [Legs -> Nat] /\ \A j \in Legs : z[j] = 0
  OBVIOUS
<1> HIDE DEF z
<1>2. Run(kind, <<>>, 0, 0)
  BY RunEmpty
<1>3. \A j \in Legs : Run(kind, q[j], z[j], z[j]) /\ z[j] <= 0
  BY <1>1, <1>2
<1>4. Marked(kind, dir, n, q, hand, {}, shut, 0, 0, z, z)
  BY <1>1, <1>3 DEF Marked
<1> QED BY <1>1, <1>4 DEF Flow

\* The sink starts over where the final leg is not there.
LEMMA FlowReset ==
    ASSUME NEW kind, NEW dir \in {0, 1}, NEW n, NEW q, NEW hand, NEW live, NEW shut,
           NEW src \in Nat, NEW snk \in Nat, Final(dir, n) \notin live,
           Flow(kind, dir, n, q, hand, live, shut, src, snk)
    PROVE  Flow(kind, dir, n, q, hand, live, shut, src, 0)
BY DEF Flow, Marked

\* The sink never has more than the source gave.
LEMMA FlowBounds ==
    ASSUME NEW kind, NEW dir, NEW n, NEW q, NEW hand, NEW live, NEW shut, NEW src, NEW snk,
           Flow(kind, dir, n, q, hand, live, shut, src, snk)
    PROVE  snk <= src
BY DEF Flow, Marked

-----------------------------------------------------------------------------
(* A session of the terminal: what its two directions consist of *)

InFrame == [kind : {"stdin", "size"}, n : Nat]
InQueue == {q \in Seq(InFrame) : Len(q) <= Buf}

Leg == [down : InQueue, up : Queue, pageSide : BOOLEAN, execSide : BOOLEAN]
Bridge == [st : {"none", "dialing", "up", "gone"},
           inHand : InFrame \union {NoFrame}, outHand : Hand]
Exec == [st : {"none", "running", "gone"}, read : Seq(Nat), wrote : Nat, size : Nat]

\* The views of the legs l and of the bridges b of a session.
Downs(l) == [j \in Legs |-> l[j].down]
Ups(l) == [j \in Legs |-> l[j].up]
ExecEnds(l) == {j \in Legs : l[j].execSide}
PageEnds(l) == {j \in Legs : l[j].pageSide}
InHands(b) == [k \in Bridges |-> b[k].inHand]
OutHands(b) == [k \in Bridges |-> b[k].outHand]
States(b) == [k \in Bridges |-> b[k].st]
Shut(n, st) == {k \in 1 .. n : st[k] \in {"none", "dialing"}}

\* The variables of the page and of the sessions have their types.
PageShape ==
    /\ hops \in Bridges
    /\ sock \in [Sockets -> {"unused", "connecting", "open", "closing", "closed"}]
    /\ hooked \in [Sockets -> BOOLEAN] /\ ws \in Sockets \union {NoWs}
    /\ connected \in BOOLEAN /\ size \in Nat
    /\ shown \in Seq(Sockets \X Frame)
    /\ readOnly \in [Bridges -> BOOLEAN]
    /\ typed \in [Sockets -> Nat] /\ hasty \in Nat /\ upsets \in Nat
PathShape ==
    /\ leg \in [Sockets -> [Legs -> Leg]]
    /\ bridge \in [Sockets -> [Bridges -> Bridge]]
    /\ exec \in [Sockets -> Exec]

\* The bridges of a session open one after the other, the process last.
Opened(n, st, ex) ==
    /\ \A k \in Bridges : k > n => st[k] = "none"
    /\ st[1] \in {"none", "dialing"} => st[2] = "none"
    /\ ex.st = "none" => ex.read = <<>> /\ ex.wrote = 0
    /\ ex.st # "none" => \A k \in 1 .. n : st[k] \in {"up", "gone"}

\* Only a bridge that is up holds frames.
Hands(st, ih, oh) == \A k \in Bridges : st[k] # "up" => ih[k] = NoFrame /\ oh[k] = NoFrame

\* A leg comes with the bridge before it, and the first one with its own.
Legged(st, u, ee, pe, keys) ==
    /\ \A k \in Bridges :
         /\ st[k] \in {"none", "dialing"} => k + 1 \notin ee /\ k + 1 \notin pe
         /\ st[k] = "dialing" => u[k] = <<>>
    /\ st[1] = "none" => 1 \notin ee /\ 1 \notin pe /\ keys = 0

\* An end that was dropped leaves nothing unread.
Emptied(d, u, ee, pe) ==
    \A j \in Legs : (j \notin ee => d[j] = <<>>) /\ (j \notin pe => u[j] = <<>>)

\* Only keystrokes come to the process.
Keystroke == [kind : {"stdin"}, n : Nat]

Wired(n, d, u, ih, oh, ee, pe, st, ex, keys) ==
    /\ Opened(n, st, ex) /\ Hands(st, ih, oh) /\ Legged(st, u, ee, pe, keys)
    /\ Emptied(d, u, ee, pe) /\ d[n + 1] \in Seq(Keystroke)

DownOf(s) == Downs(leg[s])
UpOf(s) == Ups(leg[s])
ExecOf(s) == ExecEnds(leg[s])
PageOf(s) == PageEnds(leg[s])
InOf(s) == InHands(bridge[s])
OutOf(s) == OutHands(bridge[s])
StOf(s) == States(bridge[s])

WiredSession(s) ==
    Wired(hops, DownOf(s), UpOf(s), InOf(s), OutOf(s), ExecOf(s), PageOf(s), StOf(s),
          exec[s], typed[s])

\* A socket that is not open yet has no leg, one that is has a bridge, and the
\* leg goes when the page closes it.
Socked(s) ==
    /\ sock[s] = "unused" => StOf(s)[1] = "none"
    /\ sock[s] = "open" => StOf(s)[1] # "none"
    /\ 1 \in PageOf(s) => sock[s] \in {"connecting", "open"}

\* What the page has as its current socket is neither closed nor forgotten.
Current == ws # NoWs => hooked[ws] /\ sock[ws] \in {"connecting", "open", "closing"}

\* The process read keystrokes 1 .. of its session, in order, and the rest of
\* them are on their way; likewise what it wrote.
InFlow(s) ==
    /\ Counts(exec[s].read)
    /\ Flow("stdin", 0, hops, DownOf(s), InOf(s), ExecOf(s), Shut(hops, StOf(s)),
            typed[s], Len(exec[s].read))
OutFlow(s) ==
    hasty = 0 =>
      /\ \A i \in DOMAIN shown : Shows(s, i) => shown[i][2].n = ShownUpTo(s, i)
      /\ Flow("output", 1, hops, UpOf(s), OutOf(s), PageOf(s), Shut(hops, StOf(s)),
              exec[s].wrote, ShownUpTo(s, Len(shown)))

-----------------------------------------------------------------------------
(* The views of a session, and how a change of one leg or bridge shows *)

\* What goes to the process are frames; NoFrame is none.
LEMMA InFrames ==
    /\ InFrame \subseteq Frame /\ NoFrame \notin InFrame
    /\ \A q \in InQueue : q \in Seq(InFrame) /\ q \in Queue /\ q \in Seq(Frame)
    /\ \A q \in Queue : q \in Seq(Frame)
<1>1. InFrame \subseteq Frame
  BY DEF InFrame, Frame
<1> QED BY <1>1, FrameAssumption DEF InQueue, Queue

\* The fields of a leg of which one was changed.
LEMMA LegFields ==
    ASSUME NEW l \in Leg, NEW d \in InQueue, NEW u \in Queue
    PROVE  /\ [l EXCEPT !.down = d] = [down |-> d, up |-> l.up,
                                       pageSide |-> l.pageSide, execSide |-> l.execSide]
           /\ [l EXCEPT !.up = u] = [down |-> l.down, up |-> u,
                                     pageSide |-> l.pageSide, execSide |-> l.execSide]
           /\ DropPageSide(l) = [down |-> l.down, up |-> <<>>,
                                 pageSide |-> FALSE, execSide |-> l.execSide]
           /\ DropExecSide(l) = [down |-> <<>>, up |-> l.up,
                                 pageSide |-> l.pageSide, execSide |-> FALSE]
<1>1. l = [down |-> l.down, up |-> l.up, pageSide |-> l.pageSide, execSide |-> l.execSide]
  BY DEF Leg
<1> DEFINE p == l.pageSide
           e == l.execSide
           dd == l.down
           uu == l.up
<1>2. l = [down |-> dd, up |-> uu, pageSide |-> p, execSide |-> e]
  BY <1>1
<1> HIDE DEF p, e, dd, uu
<1>3. [l EXCEPT !.down = d] = [down |-> d, up |-> uu, pageSide |-> p, execSide |-> e]
  BY <1>2
<1>4. [l EXCEPT !.up = u] = [down |-> dd, up |-> u, pageSide |-> p, execSide |-> e]
  BY <1>2
<1> DEFINE no == FALSE
<1>5. /\ DropPageSide(l) = [l EXCEPT !.pageSide = no, !.up = <<>>]
      /\ DropExecSide(l) = [l EXCEPT !.execSide = no, !.down = <<>>]
  BY DEF DropPageSide, DropExecSide
<1> HIDE DEF no
<1>6. DropPageSide(l) = [down |-> dd, up |-> <<>>, pageSide |-> no, execSide |-> e]
  BY <1>2, <1>5
<1>7. DropExecSide(l) = [down |-> <<>>, up |-> uu, pageSide |-> p, execSide |-> no]
  BY <1>2, <1>5
<1> QED BY <1>3, <1>4, <1>6, <1>7 DEF p, e, dd, uu, no

\* A leg that is not there, and one that is new.
LEMMA NewLegs ==
    /\ <<>> \in InQueue /\ <<>> \in Queue
    /\ NoLeg = [down |-> <<>>, up |-> <<>>, pageSide |-> FALSE, execSide |-> FALSE]
    /\ FreshLeg = [down |-> <<>>, up |-> <<>>, pageSide |-> TRUE, execSide |-> TRUE]
<1>1. <<>> \in InQueue /\ <<>> \in Queue
  BY TerminalAssumption DEF InQueue, Queue
<1>2. NoLeg = [down |-> <<>>, up |-> <<>>, pageSide |-> FALSE, execSide |-> FALSE]
  BY DEF NoLeg
<1> DEFINE no == FALSE
           yes == TRUE
<1>3. /\ NoLeg = [down |-> <<>>, up |-> <<>>, pageSide |-> no, execSide |-> no]
      /\ FreshLeg = [NoLeg EXCEPT !.pageSide = yes, !.execSide = yes]
  BY DEF NoLeg, FreshLeg
<1> HIDE DEF no, yes
<1>4. FreshLeg = [down |-> <<>>, up |-> <<>>, pageSide |-> yes, execSide |-> yes]
  BY <1>3
<1> QED BY <1>1, <1>2, <1>4 DEF yes

\* A leg that is replaced shows in the four views of the legs.
LEMMA LegViews ==
    ASSUME NEW l \in [Legs -> Leg], NEW j \in Legs, NEW x \in Leg,
           NEW l2 \in [Legs -> Leg], l2[j] = x, \A i \in Legs \ {j} : l2[i] = l[i]
    PROVE  /\ Downs(l2) = [Downs(l) EXCEPT ![j] = x.down]
           /\ Ups(l2) = [Ups(l) EXCEPT ![j] = x.up]
           /\ ExecEnds(l2) = IF x.execSide THEN ExecEnds(l) \union {j} ELSE ExecEnds(l) \ {j}
           /\ PageEnds(l2) = IF x.pageSide THEN PageEnds(l) \union {j} ELSE PageEnds(l) \ {j}
<1>1. Downs(l2) = [Downs(l) EXCEPT ![j] = x.down]
  BY DEF Downs
<1>2. Ups(l2) = [Ups(l) EXCEPT ![j] = x.up]
  BY DEF Ups
<1>3. \A i \in Legs : i \in ExecEnds(l2) <=> IF i = j THEN x.execSide ELSE i \in ExecEnds(l)
  BY DEF ExecEnds
<1>4. \A i \in Legs : i \in PageEnds(l2) <=> IF i = j THEN x.pageSide ELSE i \in PageEnds(l)
  BY DEF PageEnds
<1>5. ExecEnds(l2) \subseteq Legs /\ PageEnds(l2) \subseteq Legs
      /\ ExecEnds(l) \subseteq Legs /\ PageEnds(l) \subseteq Legs
  BY DEF ExecEnds, PageEnds
<1> QED BY <1>1, <1>2, <1>3, <1>4, <1>5

\* The same for a bridge.
LEMMA BridgeViews ==
    ASSUME NEW b \in [Bridges -> Bridge], NEW k \in Bridges, NEW x \in Bridge,
           NEW b2 \in [Bridges -> Bridge], b2[k] = x, \A i \in Bridges \ {k} : b2[i] = b[i]
    PROVE  /\ InHands(b2) = [InHands(b) EXCEPT ![k] = x.inHand]
           /\ OutHands(b2) = [OutHands(b) EXCEPT ![k] = x.outHand]
           /\ States(b2) = [States(b) EXCEPT ![k] = x.st]
BY DEF InHands, OutHands, States

\* What the views of a session are made of.
LEMMA ViewTypes ==
    ASSUME NEW l \in [Legs -> Leg], NEW b \in [Bridges -> Bridge], NEW n \in Bridges
    PROVE  /\ Downs(l) \in [Legs -> InQueue] /\ Ups(l) \in [Legs -> Queue]
           /\ ExecEnds(l) \in SUBSET Legs /\ PageEnds(l) \in SUBSET Legs
           /\ InHands(b) \in [Bridges -> InFrame \union {NoFrame}]
           /\ OutHands(b) \in [Bridges -> Hand]
           /\ States(b) \in [Bridges -> {"none", "dialing", "up", "gone"}]
           /\ Parts(n, Downs(l), InHands(b), ExecEnds(l), Shut(n, States(b)))
           /\ Parts(n, Ups(l), OutHands(b), PageEnds(l), Shut(n, States(b)))
<1>1. Downs(l) \in [Legs -> InQueue] /\ Ups(l) \in [Legs -> Queue]
  BY DEF Downs, Ups, Leg
<1>2. Downs(l) \in [Legs -> Seq(Frame)] /\ Ups(l) \in [Legs -> Seq(Frame)]
  BY <1>1, InFrames
<1>3. ExecEnds(l) \in SUBSET Legs /\ PageEnds(l) \in SUBSET Legs
  BY DEF ExecEnds, PageEnds
<1>4. /\ InHands(b) \in [Bridges -> InFrame \union {NoFrame}]
      /\ OutHands(b) \in [Bridges -> Hand]
      /\ States(b) \in [Bridges -> {"none", "dialing", "up", "gone"}]
  BY DEF InHands, OutHands, States, Bridge
<1>5. InHands(b) \in [Bridges -> Hand]
  BY <1>4, InFrames DEF Hand
<1>6. Shut(n, States(b)) \in SUBSET (1 .. n)
  BY DEF Shut
<1> QED BY <1>1, <1>2, <1>3, <1>4, <1>5, <1>6 DEF Parts

\* Queues to the process: what is taken from one, and put into it.
LEMMA InQueueOps ==
    ASSUME NEW q \in InQueue
    PROVE  /\ q # <<>> => Tail(q) \in InQueue /\ Head(q) \in InFrame
           /\ \A f \in InFrame : Len(q) < Buf => Append(q, f) \in InQueue
BY TerminalAssumption DEF InQueue

\* The same for queues to the page.
LEMMA QueueOps ==
    ASSUME NEW q \in Queue
    PROVE  /\ q # <<>> => Tail(q) \in Queue /\ Head(q) \in Frame
           /\ \A f \in Frame : Len(q) < Buf => Append(q, f) \in Queue
BY TerminalAssumption DEF Queue

-----------------------------------------------------------------------------
(* What each step does to its session *)

\* The other sessions stay as they are.
Elsewhere(s) ==
    \A r \in Sockets \ {s} : /\ leg'[r] = leg[r] /\ bridge'[r] = bridge[r]
                             /\ exec'[r] = exec[r]

SameLegs(s) ==
    /\ DownOf(s)' = DownOf(s) /\ UpOf(s)' = UpOf(s)
    /\ ExecOf(s)' = ExecOf(s) /\ PageOf(s)' = PageOf(s)
SameBridges(s) ==
    InOf(s)' = InOf(s) /\ OutOf(s)' = OutOf(s) /\ StOf(s)' = StOf(s)

\* Legs that stay.
LEMMA LegsSame ==
    ASSUME NEW s \in Sockets, leg'[s] = leg[s] PROVE SameLegs(s)
BY DEF SameLegs, DownOf, UpOf, ExecOf, PageOf

\* Bridges and a process that stay.
LEMMA BridgesSame ==
    ASSUME NEW s \in Sockets, bridge'[s] = bridge[s] PROVE SameBridges(s)
BY DEF SameBridges, InOf, OutOf, StOf

\* The views of session s after a step that leaves the other sessions alone.
LegsBecome(s, d, u, ee, pe) ==
    /\ leg' \in [Sockets -> [Legs -> Leg]] /\ \A r \in Sockets \ {s} : leg'[r] = leg[r]
    /\ DownOf(s)' = d /\ UpOf(s)' = u /\ ExecOf(s)' = ee /\ PageOf(s)' = pe
BridgesBecome(s, ih, oh, st) ==
    /\ bridge' \in [Sockets -> [Bridges -> Bridge]]
    /\ \A r \in Sockets \ {s} : bridge'[r] = bridge[r]
    /\ InOf(s)' = ih /\ OutOf(s)' = oh /\ StOf(s)' = st

\* One leg of session s is replaced.
LEMMA OneLeg ==
    ASSUME PathShape, NEW s \in Sockets, NEW j \in Legs, NEW d \in InQueue, NEW u \in Queue,
           NEW p \in BOOLEAN, NEW e \in BOOLEAN,
           leg' = [leg EXCEPT ![s][j] =
                     [down |-> d, up |-> u, pageSide |-> p, execSide |-> e]]
    PROVE  LegsBecome(s, [DownOf(s) EXCEPT ![j] = d], [UpOf(s) EXCEPT ![j] = u],
                      IF e THEN ExecOf(s) \union {j} ELSE ExecOf(s) \ {j},
                      IF p THEN PageOf(s) \union {j} ELSE PageOf(s) \ {j})
<1> DEFINE x == [down |-> d, up |-> u, pageSide |-> p, execSide |-> e]
<1>1. x \in Leg /\ x.down = d /\ x.up = u
  BY DEF Leg
<1>2. (x.pageSide <=> p) /\ (x.execSide <=> e)
  BY Zenon
<1>3. leg' = [leg EXCEPT ![s][j] = x]
  OBVIOUS
<1> HIDE DEF x
<1>4. PICK l : l = leg[s]
  OBVIOUS
<1>5. PICK l2 : l2 = leg'[s]
  OBVIOUS
<1>6. l \in [Legs -> Leg]
  BY <1>4 DEF PathShape
<1>7. /\ leg' \in [Sockets -> [Legs -> Leg]] /\ l2 \in [Legs -> Leg]
      /\ l2[j] = x /\ \A i \in Legs \ {j} : l2[i] = l[i]
      /\ \A r \in Sockets \ {s} : leg'[r] = leg[r]
  BY <1>1, <1>3, <1>4, <1>5 DEF PathShape
<1>8. /\ Downs(l2) = [Downs(l) EXCEPT ![j] = x.down]
      /\ Ups(l2) = [Ups(l) EXCEPT ![j] = x.up]
      /\ ExecEnds(l2) = IF x.execSide THEN ExecEnds(l) \union {j} ELSE ExecEnds(l) \ {j}
      /\ PageEnds(l2) = IF x.pageSide THEN PageEnds(l) \union {j} ELSE PageEnds(l) \ {j}
  BY <1>1, <1>6, <1>7, LegViews
<1> QED BY <1>1, <1>2, <1>4, <1>5, <1>7, <1>8
       DEF LegsBecome, DownOf, UpOf, ExecOf, PageOf

\* One bridge of it is.
LEMMA OneBridge ==
    ASSUME PathShape, NEW s \in Sockets, NEW k \in Bridges, NEW x \in Bridge,
           bridge' = [bridge EXCEPT ![s][k] = x]
    PROVE  BridgesBecome(s, [InOf(s) EXCEPT ![k] = x.inHand],
                         [OutOf(s) EXCEPT ![k] = x.outHand], [StOf(s) EXCEPT ![k] = x.st])
<1>1. PICK b : b = bridge[s]
  OBVIOUS
<1>2. PICK b2 : b2 = bridge'[s]
  OBVIOUS
<1>3. b \in [Bridges -> Bridge]
  BY <1>1 DEF PathShape
<1>4. /\ bridge' \in [Sockets -> [Bridges -> Bridge]] /\ b2 \in [Bridges -> Bridge]
      /\ b2[k] = x /\ \A i \in Bridges \ {k} : b2[i] = b[i]
      /\ \A r \in Sockets \ {s} : bridge'[r] = bridge[r]
  BY <1>1, <1>2 DEF PathShape
<1>5. /\ InHands(b2) = [InHands(b) EXCEPT ![k] = x.inHand]
      /\ OutHands(b2) = [OutHands(b) EXCEPT ![k] = x.outHand]
      /\ States(b2) = [States(b) EXCEPT ![k] = x.st]
  BY <1>3, <1>4, BridgeViews
<1> QED BY <1>1, <1>2, <1>4, <1>5 DEF BridgesBecome, InOf, OutOf, StOf

\* A view at one place.
LEMMA Viewed ==
    ASSUME PathShape, NEW s \in Sockets
    PROVE  /\ \A j \in Legs : /\ leg[s][j] \in Leg
                              /\ DownOf(s)[j] = leg[s][j].down /\ UpOf(s)[j] = leg[s][j].up
                              /\ leg[s][j].down \in InQueue /\ leg[s][j].up \in Queue
                              /\ leg[s][j].execSide \in BOOLEAN
                              /\ leg[s][j].pageSide \in BOOLEAN
                              /\ j \in ExecOf(s) <=> leg[s][j].execSide
                              /\ j \in PageOf(s) <=> leg[s][j].pageSide
           /\ \A k \in Bridges : /\ bridge[s][k] \in Bridge
                                 /\ InOf(s)[k] = bridge[s][k].inHand
                                 /\ OutOf(s)[k] = bridge[s][k].outHand
                                 /\ StOf(s)[k] = bridge[s][k].st
                                 /\ InOf(s)[k] \in InFrame \union {NoFrame}
                                 /\ OutOf(s)[k] \in Hand
           /\ DownOf(s) \in [Legs -> InQueue] /\ UpOf(s) \in [Legs -> Queue]
           /\ ExecOf(s) \subseteq Legs /\ PageOf(s) \subseteq Legs
           /\ InOf(s) \in [Bridges -> InFrame \union {NoFrame}]
           /\ OutOf(s) \in [Bridges -> Hand]
           /\ StOf(s) \in [Bridges -> {"none", "dialing", "up", "gone"}]
           /\ exec[s] \in Exec
<1>1. leg[s] \in [Legs -> Leg] /\ bridge[s] \in [Bridges -> Bridge] /\ exec[s] \in Exec
  BY DEF PathShape
<1>2. \A j \in Legs : /\ leg[s][j] \in Leg
                      /\ DownOf(s)[j] = leg[s][j].down /\ UpOf(s)[j] = leg[s][j].up
                      /\ leg[s][j].down \in InQueue /\ leg[s][j].up \in Queue
                      /\ leg[s][j].execSide \in BOOLEAN
                      /\ leg[s][j].pageSide \in BOOLEAN
  BY <1>1 DEF Leg, DownOf, UpOf, Downs, Ups
<1>3. \A j \in Legs : /\ j \in ExecOf(s) <=> leg[s][j].execSide
                      /\ j \in PageOf(s) <=> leg[s][j].pageSide
  BY DEF ExecOf, PageOf, ExecEnds, PageEnds
<1>4. \A k \in Bridges : /\ bridge[s][k] \in Bridge
                         /\ InOf(s)[k] = bridge[s][k].inHand
                         /\ OutOf(s)[k] = bridge[s][k].outHand
                         /\ StOf(s)[k] = bridge[s][k].st
                         /\ InOf(s)[k] \in InFrame \union {NoFrame}
                         /\ OutOf(s)[k] \in Hand
  BY <1>1 DEF Bridge, InOf, OutOf, StOf, InHands, OutHands, States
<1>5. /\ DownOf(s) \in [Legs -> InQueue] /\ UpOf(s) \in [Legs -> Queue]
      /\ ExecOf(s) \subseteq Legs /\ PageOf(s) \subseteq Legs
      /\ InOf(s) \in [Bridges -> InFrame \union {NoFrame}]
      /\ OutOf(s) \in [Bridges -> Hand]
      /\ StOf(s) \in [Bridges -> {"none", "dialing", "up", "gone"}]
  <2>1. 1 \in Bridges
    BY DEF Bridges
  <2> QED BY <1>1, <2>1, ViewTypes DEF DownOf, UpOf, ExecOf, PageOf, InOf, OutOf, StOf
<1> QED BY <1>1, <1>2, <1>3, <1>4, <1>5

\* Its queue towards the process.
LEMMA DownSet ==
    ASSUME PathShape, NEW s \in Sockets, NEW j \in Legs,
           NEW d \in InQueue,
           leg' = [leg EXCEPT ![s][j].down = d]
    PROVE  LegsBecome(s, [DownOf(s) EXCEPT ![j] = d], UpOf(s),
                      ExecOf(s), PageOf(s))
<1> DEFINE l == leg[s][j]
           x == [down |-> d, up |-> l.up, pageSide |-> l.pageSide, execSide |-> l.execSide]
<1>1. /\ l \in Leg /\ l.down \in InQueue /\ l.up \in Queue
      /\ l.pageSide \in BOOLEAN /\ l.execSide \in BOOLEAN
      /\ DownOf(s)[j] = l.down /\ UpOf(s)[j] = l.up
      /\ j \in ExecOf(s) <=> l.execSide
      /\ j \in PageOf(s) <=> l.pageSide
      /\ DownOf(s) \in [Legs -> InQueue] /\ UpOf(s) \in [Legs -> Queue]
  BY Viewed
<1>2. <<>> \in InQueue /\ <<>> \in Queue
  BY NewLegs
<1>3. [l EXCEPT !.down = d] = x
  BY <1>1, <1>2, LegFields, NewLegs
<1>4. leg' = [leg EXCEPT ![s][j] = x]
  <2> HIDE DEF x
  <2> QED BY <1>3 DEF PathShape
<1>6. PICK u0, p0, e0 : u0 = l.up /\ p0 = l.pageSide /\ e0 = l.execSide
  OBVIOUS
<1>5. LegsBecome(s, [DownOf(s) EXCEPT ![j] = d], [UpOf(s) EXCEPT ![j] = u0],
                 IF e0 THEN ExecOf(s) \union {j} ELSE ExecOf(s) \ {j},
                 IF p0 THEN PageOf(s) \union {j} ELSE PageOf(s) \ {j})
  BY <1>1, <1>2, <1>4, <1>6, OneLeg
<1> QED BY <1>1, <1>6, <1>5 DEF LegsBecome

\* Its queue towards the page.
LEMMA UpSet ==
    ASSUME PathShape, NEW s \in Sockets, NEW j \in Legs,
           NEW u \in Queue,
           leg' = [leg EXCEPT ![s][j].up = u]
    PROVE  LegsBecome(s, DownOf(s), [UpOf(s) EXCEPT ![j] = u],
                      ExecOf(s), PageOf(s))
<1> DEFINE l == leg[s][j]
           x == [down |-> l.down, up |-> u, pageSide |-> l.pageSide, execSide |-> l.execSide]
<1>1. /\ l \in Leg /\ l.down \in InQueue /\ l.up \in Queue
      /\ l.pageSide \in BOOLEAN /\ l.execSide \in BOOLEAN
      /\ DownOf(s)[j] = l.down /\ UpOf(s)[j] = l.up
      /\ j \in ExecOf(s) <=> l.execSide
      /\ j \in PageOf(s) <=> l.pageSide
      /\ DownOf(s) \in [Legs -> InQueue] /\ UpOf(s) \in [Legs -> Queue]
  BY Viewed
<1>2. <<>> \in InQueue /\ <<>> \in Queue
  BY NewLegs
<1>3. [l EXCEPT !.up = u] = x
  BY <1>1, <1>2, LegFields, NewLegs
<1>4. leg' = [leg EXCEPT ![s][j] = x]
  <2> HIDE DEF x
  <2> QED BY <1>3 DEF PathShape
<1>6. PICK d0, p0, e0 : d0 = l.down /\ p0 = l.pageSide /\ e0 = l.execSide
  OBVIOUS
<1>5. LegsBecome(s, [DownOf(s) EXCEPT ![j] = d0], [UpOf(s) EXCEPT ![j] = u],
                 IF e0 THEN ExecOf(s) \union {j} ELSE ExecOf(s) \ {j},
                 IF p0 THEN PageOf(s) \union {j} ELSE PageOf(s) \ {j})
  BY <1>1, <1>2, <1>4, <1>6, OneLeg
<1> QED BY <1>1, <1>6, <1>5 DEF LegsBecome

\* Its end at the process is dropped.
LEMMA ExecDropped ==
    ASSUME PathShape, NEW s \in Sockets, NEW j \in Legs,
           leg' = [leg EXCEPT ![s][j] = DropExecSide(@)]
    PROVE  LegsBecome(s, [DownOf(s) EXCEPT ![j] = <<>>], UpOf(s),
                      ExecOf(s) \ {j}, PageOf(s))
<1> DEFINE l == leg[s][j]
           x == [down |-> <<>>, up |-> l.up, pageSide |-> l.pageSide, execSide |-> FALSE]
<1>1. /\ l \in Leg /\ l.down \in InQueue /\ l.up \in Queue
      /\ l.pageSide \in BOOLEAN /\ l.execSide \in BOOLEAN
      /\ DownOf(s)[j] = l.down /\ UpOf(s)[j] = l.up
      /\ j \in ExecOf(s) <=> l.execSide
      /\ j \in PageOf(s) <=> l.pageSide
      /\ DownOf(s) \in [Legs -> InQueue] /\ UpOf(s) \in [Legs -> Queue]
  BY Viewed
<1>2. <<>> \in InQueue /\ <<>> \in Queue
  BY NewLegs
<1>3. DropExecSide(l) = x
  BY <1>1, <1>2, LegFields, NewLegs
<1>4. leg' = [leg EXCEPT ![s][j] = x]
  <2> HIDE DEF x
  <2> QED BY <1>3 DEF PathShape
<1>6. PICK u0, p0 : u0 = l.up /\ p0 = l.pageSide
  OBVIOUS
<1>5. LegsBecome(s, [DownOf(s) EXCEPT ![j] = <<>>], [UpOf(s) EXCEPT ![j] = u0],
                 IF FALSE THEN ExecOf(s) \union {j} ELSE ExecOf(s) \ {j},
                 IF p0 THEN PageOf(s) \union {j} ELSE PageOf(s) \ {j})
  BY <1>1, <1>2, <1>4, <1>6, OneLeg
<1> QED BY <1>1, <1>6, <1>5 DEF LegsBecome

\* It is made.
LEMMA LegMade ==
    ASSUME PathShape, NEW s \in Sockets, NEW j \in Legs,
           leg' = [leg EXCEPT ![s][j] = FreshLeg]
    PROVE  LegsBecome(s, [DownOf(s) EXCEPT ![j] = <<>>], [UpOf(s) EXCEPT ![j] = <<>>],
                      ExecOf(s) \union {j}, PageOf(s) \union {j})
<1> DEFINE l == leg[s][j]
           x == [down |-> <<>>, up |-> <<>>, pageSide |-> TRUE, execSide |-> TRUE]
<1>1. /\ l \in Leg /\ l.down \in InQueue /\ l.up \in Queue
      /\ l.pageSide \in BOOLEAN /\ l.execSide \in BOOLEAN
      /\ DownOf(s)[j] = l.down /\ UpOf(s)[j] = l.up
      /\ j \in ExecOf(s) <=> l.execSide
      /\ j \in PageOf(s) <=> l.pageSide
      /\ DownOf(s) \in [Legs -> InQueue] /\ UpOf(s) \in [Legs -> Queue]
  BY Viewed
<1>2. <<>> \in InQueue /\ <<>> \in Queue
  BY NewLegs
<1>3. FreshLeg = x
  BY <1>1, <1>2, LegFields, NewLegs
<1>4. leg' = [leg EXCEPT ![s][j] = x]
  <2> HIDE DEF x
  <2> QED BY <1>3 DEF PathShape

<1>5. LegsBecome(s, [DownOf(s) EXCEPT ![j] = <<>>], [UpOf(s) EXCEPT ![j] = <<>>],
                 IF TRUE THEN ExecOf(s) \union {j} ELSE ExecOf(s) \ {j},
                 IF TRUE THEN PageOf(s) \union {j} ELSE PageOf(s) \ {j})
  BY <1>1, <1>2, <1>4, OneLeg
<1> QED BY <1>1, <1>5 DEF LegsBecome

\* It breaks.
LEMMA LegBroken ==
    ASSUME PathShape, NEW s \in Sockets, NEW j \in Legs,
           leg' = [leg EXCEPT ![s][j] = NoLeg]
    PROVE  LegsBecome(s, [DownOf(s) EXCEPT ![j] = <<>>], [UpOf(s) EXCEPT ![j] = <<>>],
                      ExecOf(s) \ {j}, PageOf(s) \ {j})
<1> DEFINE l == leg[s][j]
           x == [down |-> <<>>, up |-> <<>>, pageSide |-> FALSE, execSide |-> FALSE]
<1>1. /\ l \in Leg /\ l.down \in InQueue /\ l.up \in Queue
      /\ l.pageSide \in BOOLEAN /\ l.execSide \in BOOLEAN
      /\ DownOf(s)[j] = l.down /\ UpOf(s)[j] = l.up
      /\ j \in ExecOf(s) <=> l.execSide
      /\ j \in PageOf(s) <=> l.pageSide
      /\ DownOf(s) \in [Legs -> InQueue] /\ UpOf(s) \in [Legs -> Queue]
  BY Viewed
<1>2. <<>> \in InQueue /\ <<>> \in Queue
  BY NewLegs
<1>3. NoLeg = x
  BY <1>1, <1>2, LegFields, NewLegs
<1>4. leg' = [leg EXCEPT ![s][j] = x]
  <2> HIDE DEF x
  <2> QED BY <1>3 DEF PathShape

<1>5. LegsBecome(s, [DownOf(s) EXCEPT ![j] = <<>>], [UpOf(s) EXCEPT ![j] = <<>>],
                 IF FALSE THEN ExecOf(s) \union {j} ELSE ExecOf(s) \ {j},
                 IF FALSE THEN PageOf(s) \union {j} ELSE PageOf(s) \ {j})
  BY <1>1, <1>2, <1>4, OneLeg
<1> QED BY <1>1, <1>5 DEF LegsBecome

\* The hand of one of its bridges, towards the process.
LEMMA InSet ==
    ASSUME PathShape, NEW s \in Sockets, NEW k \in Bridges, NEW f \in InFrame \union {NoFrame},
           bridge' = [bridge EXCEPT ![s][k].inHand = f]
    PROVE  BridgesBecome(s, [InOf(s) EXCEPT ![k] = f], OutOf(s), StOf(s))
<1> DEFINE b == bridge[s][k]
           x == [st |-> b.st, inHand |-> f, outHand |-> b.outHand]
<1>1. /\ b \in Bridge /\ InOf(s)[k] = b.inHand /\ OutOf(s)[k] = b.outHand
      /\ StOf(s)[k] = b.st
      /\ InOf(s) \in [Bridges -> InFrame \union {NoFrame}] /\ OutOf(s) \in [Bridges -> Hand]
      /\ StOf(s) \in [Bridges -> {"none", "dialing", "up", "gone"}]
  BY Viewed
<1>2. x \in Bridge /\ x.inHand = f /\ x.outHand = b.outHand /\ x.st = b.st
      /\ [b EXCEPT !.inHand = f] = x
  BY <1>1 DEF Bridge
<1> HIDE DEF x
<1>3. PICK y : y = x
  OBVIOUS
<1>5. bridge' = [bridge EXCEPT ![s][k] = y]
  BY <1>2, <1>3 DEF PathShape
<1>4. BridgesBecome(s, [InOf(s) EXCEPT ![k] = y.inHand], [OutOf(s) EXCEPT ![k] = y.outHand],
                    [StOf(s) EXCEPT ![k] = y.st])
  BY <1>2, <1>3, <1>5, OneBridge
<1> QED BY <1>1, <1>2, <1>3, <1>4 DEF BridgesBecome

\* The hand towards the page.
LEMMA OutSet ==
    ASSUME PathShape, NEW s \in Sockets, NEW k \in Bridges, NEW f \in Hand,
           bridge' = [bridge EXCEPT ![s][k].outHand = f]
    PROVE  BridgesBecome(s, InOf(s), [OutOf(s) EXCEPT ![k] = f], StOf(s))
<1> DEFINE b == bridge[s][k]
           x == [st |-> b.st, inHand |-> b.inHand, outHand |-> f]
<1>1. /\ b \in Bridge /\ InOf(s)[k] = b.inHand /\ OutOf(s)[k] = b.outHand
      /\ StOf(s)[k] = b.st
      /\ InOf(s) \in [Bridges -> InFrame \union {NoFrame}] /\ OutOf(s) \in [Bridges -> Hand]
      /\ StOf(s) \in [Bridges -> {"none", "dialing", "up", "gone"}]
  BY Viewed
<1>2. x \in Bridge /\ x.inHand = b.inHand /\ x.outHand = f /\ x.st = b.st
      /\ [b EXCEPT !.outHand = f] = x
  BY <1>1 DEF Bridge
<1> HIDE DEF x
<1>3. PICK y : y = x
  OBVIOUS
<1>5. bridge' = [bridge EXCEPT ![s][k] = y]
  BY <1>2, <1>3 DEF PathShape
<1>4. BridgesBecome(s, [InOf(s) EXCEPT ![k] = y.inHand], [OutOf(s) EXCEPT ![k] = y.outHand],
                    [StOf(s) EXCEPT ![k] = y.st])
  BY <1>2, <1>3, <1>5, OneBridge
<1> QED BY <1>1, <1>2, <1>3, <1>4 DEF BridgesBecome

\* The state of the bridge.
LEMMA StateSet ==
    ASSUME PathShape, NEW s \in Sockets, NEW k \in Bridges,
           NEW st \in {"none", "dialing", "up", "gone"},
           bridge' = [bridge EXCEPT ![s][k].st = st]
    PROVE  BridgesBecome(s, InOf(s), OutOf(s), [StOf(s) EXCEPT ![k] = st])
<1> DEFINE b == bridge[s][k]
           x == [st |-> st, inHand |-> b.inHand, outHand |-> b.outHand]
<1>1. /\ b \in Bridge /\ InOf(s)[k] = b.inHand /\ OutOf(s)[k] = b.outHand
      /\ StOf(s)[k] = b.st
      /\ InOf(s) \in [Bridges -> InFrame \union {NoFrame}] /\ OutOf(s) \in [Bridges -> Hand]
      /\ StOf(s) \in [Bridges -> {"none", "dialing", "up", "gone"}]
  BY Viewed
<1>2. x \in Bridge /\ x.inHand = b.inHand /\ x.outHand = b.outHand /\ x.st = st
      /\ [b EXCEPT !.st = st] = x
  BY <1>1 DEF Bridge
<1> HIDE DEF x
<1>3. PICK y : y = x
  OBVIOUS
<1>5. bridge' = [bridge EXCEPT ![s][k] = y]
  BY <1>2, <1>3 DEF PathShape
<1>4. BridgesBecome(s, [InOf(s) EXCEPT ![k] = y.inHand], [OutOf(s) EXCEPT ![k] = y.outHand],
                    [StOf(s) EXCEPT ![k] = y.st])
  BY <1>2, <1>3, <1>5, OneBridge
<1> QED BY <1>1, <1>2, <1>3, <1>4 DEF BridgesBecome

-----------------------------------------------------------------------------
(* What each step of a bridge or of the process does to its session *)

\* A session is as it should be.
Good(s) == WiredSession(s) /\ Socked(s) /\ InFlow(s) /\ OutFlow(s)

\* A step that changes the path of session s only, and leaves it good.
PathStep(s) ==
    /\ leg' \in [Sockets -> [Legs -> Leg]]
    /\ bridge' \in [Sockets -> [Bridges -> Bridge]]
    /\ exec' \in [Sockets -> Exec]
    /\ Elsewhere(s)
    /\ Good(s)'

\* Which legs a bridge joins, and where the two directions begin and end.
LEMMA Ways ==
    ASSUME NEW k \in Bridges
    PROVE  /\ k \in Legs /\ k + 1 \in Legs
           /\ Before(0, k) = k /\ After(0, k) = k + 1
           /\ Before(1, k) = k + 1 /\ After(1, k) = k
           /\ First(0, k) = 1 /\ Final(0, k) = k + 1
           /\ First(1, k) = k + 1 /\ Final(1, k) = 1
BY DEF Before, After, First, Final, Bridges, Legs

\* What the shapes say of a session.
LEMMA SessionTypes ==
    ASSUME PageShape, PathShape, NEW s \in Sockets
    PROVE  /\ hops \in Bridges
           /\ Parts(hops, DownOf(s), InOf(s), ExecOf(s), Shut(hops, StOf(s)))
           /\ Parts(hops, UpOf(s), OutOf(s), PageOf(s), Shut(hops, StOf(s)))
           /\ typed[s] \in Nat /\ exec[s].wrote \in Nat
           /\ exec[s].read \in Seq(Nat) /\ Len(exec[s].read) \in Nat
<1>1. leg[s] \in [Legs -> Leg] /\ bridge[s] \in [Bridges -> Bridge] /\ hops \in Bridges
  BY DEF PageShape, PathShape
<1>2. exec[s] \in Exec
  BY DEF PathShape
<1>3. exec[s].read \in Seq(Nat) /\ exec[s].wrote \in Nat
  BY <1>2 DEF Exec
<1>4. typed[s] \in Nat
  BY DEF PageShape
<1> QED BY <1>1, <1>3, <1>4, ViewTypes
        DEF DownOf, UpOf, InOf, OutOf, ExecOf, PageOf, StOf

\* What is shown can be counted.
LEMMA ShownCounts ==
    ASSUME PageShape, NEW s, NEW n \in 0 .. Len(shown)
    PROVE  ShownUpTo(s, n) \in Nat
<1> DEFINE at == {i \in 1 .. n : Shows(s, i)}
<1>1. IsFiniteSet(1 .. n)
  BY FS_Interval DEF PageShape
<1>2. IsFiniteSet(at)
  BY <1>1, FS_Subset
<1> QED BY <1>2, FS_CardinalityType DEF ShownUpTo

\* The bridge takes a frame of the page.
LEMMA ReadInStep ==
    ASSUME PageShape, PathShape, NEW s \in Sockets, Good(s), NEW k \in Bridges, ReadIn(s, k)
    PROVE  PathStep(s)
<1> DEFINE f == Head(DownOf(s)[k])
<1>1. /\ k \in Legs /\ StOf(s)[k] = "up" /\ InOf(s)[k] = NoFrame
      /\ DownOf(s)[k] # <<>> /\ DownOf(s)[k] \in InQueue
      /\ DownOf(s)[k] = leg[s][k].down
  BY Viewed DEF ReadIn, Up, MayRead, Bridges, Legs
<1>2. /\ k \in 1 .. hops /\ k \in ExecOf(s)
  BY <1>1, SessionTypes DEF Good, WiredSession, Wired, Legged, Emptied, Opened, Bridges
<1>3. Tail(DownOf(s)[k]) \in InQueue /\ f \in InFrame
  BY <1>1, InQueueOps
<1>4. PICK d0, f0 : d0 = Tail(DownOf(s)[k]) /\ f0 = f
  OBVIOUS
<1>5. /\ leg' = [leg EXCEPT ![s][k].down = d0]
      /\ bridge' = [bridge EXCEPT ![s][k].inHand = f0]
  BY <1>1, <1>4 DEF ReadIn
<1>6. LegsBecome(s, [DownOf(s) EXCEPT ![k] = d0], UpOf(s), ExecOf(s), PageOf(s))
  BY <1>1, <1>3, <1>4, <1>5, DownSet
<1>7. BridgesBecome(s, [InOf(s) EXCEPT ![k] = f0], OutOf(s), StOf(s))
  BY <1>3, <1>4, <1>5, InSet
<1>8. UNCHANGED <<page, hops, exec, typed, hasty>>
  BY DEF ReadIn, ghosts
<1>9. WiredSession(s)'
  <2>1. WiredSession(s) /\ hops \in Bridges
    BY DEF Good, PageShape
  <2>2. /\ \A j \in Legs \ {k} : DownOf(s)'[j] = DownOf(s)[j]
        /\ DownOf(s)'[k] = Tail(DownOf(s)[k])
        /\ \A i \in Bridges \ {k} : InOf(s)'[i] = InOf(s)[i]
    BY <1>1, <1>4, <1>6, <1>7, Viewed DEF LegsBecome, BridgesBecome
  <2>3. Hands(StOf(s)', InOf(s)', OutOf(s)')
    BY <1>1, <1>7, <2>1, <2>2 DEF WiredSession, Wired, Hands, BridgesBecome
  <2>4. Emptied(DownOf(s)', UpOf(s)', ExecOf(s)', PageOf(s)')
    BY <1>2, <1>6, <2>1, <2>2 DEF WiredSession, Wired, Emptied, LegsBecome
  <2>5. hops + 1 # k /\ hops + 1 \in Legs
    BY <1>2, <2>1 DEF Bridges, Legs
  <2> QED BY <1>6, <1>7, <1>8, <2>1, <2>2, <2>3, <2>4, <2>5
          DEF WiredSession, Wired, LegsBecome, BridgesBecome, page
<1>10. InFlow(s)'
  <2>1. PICK q2 : q2 = DownOf(s)'
    OBVIOUS
  <2>2. PICK h2 : h2 = InOf(s)'
    OBVIOUS
  <2>3. Flow("stdin", 0, hops, DownOf(s), InOf(s), ExecOf(s), Shut(hops, StOf(s)),
             typed[s], Len(exec[s].read))
    BY DEF Good, InFlow
  <2>4. k \notin Shut(hops, StOf(s))
    BY <1>1 DEF Shut
  <2>5. /\ q2 = [DownOf(s) EXCEPT ![Before(0, k)] = Tail(@)]
        /\ h2 = [InOf(s) EXCEPT ![k] = Head(DownOf(s)[Before(0, k)])]
    BY <1>4, <1>6, <1>7, <2>1, <2>2, Ways DEF LegsBecome, BridgesBecome
  <2>6. Flow("stdin", 0, hops, q2, h2, ExecOf(s), Shut(hops, StOf(s)),
             typed[s], Len(exec[s].read))
    BY <1>1, <1>2, <2>3, <2>4, <2>5, Ways, SessionTypes, FlowRead
  <2> QED BY <1>6, <1>7, <1>8, <2>1, <2>2, <2>6
          DEF Good, InFlow, LegsBecome, BridgesBecome
<1>11. OutFlow(s)'
  BY <1>6, <1>7, <1>8 DEF Good, OutFlow, LegsBecome, BridgesBecome, ShownUpTo, Shows, page
<1>12. Socked(s)'
  BY <1>6, <1>7, <1>8 DEF Good, Socked, LegsBecome, BridgesBecome, page
<1>13. Elsewhere(s)
  BY <1>6, <1>7, <1>8 DEF Elsewhere, LegsBecome, BridgesBecome
<1> QED BY <1>6, <1>7, <1>8, <1>9, <1>10, <1>11, <1>12, <1>13
        DEF PathStep, Good, LegsBecome, BridgesBecome, PathShape

\* A bridge that is up belongs to the session.
LEMMA UpBridge ==
    ASSUME PageShape, PathShape, NEW s \in Sockets, Good(s), NEW k \in Bridges,
           bridge[s][k].st = "up"
    PROVE  /\ k \in 1 .. hops /\ k \notin Shut(hops, StOf(s)) /\ StOf(s)[k] = "up"
           /\ k \in Legs /\ k + 1 \in Legs
<1>1. StOf(s)[k] = "up"
  BY Viewed
<1>2. k \in 1 .. hops
  BY <1>1, SessionTypes DEF Good, WiredSession, Wired, Opened, Bridges
<1> QED BY <1>1, <1>2, Ways DEF Shut

\* The bridge takes a frame of the process.
LEMMA ReadOutStep ==
    ASSUME PageShape, PathShape, NEW s \in Sockets, Good(s), NEW k \in Bridges, ReadOut(s, k)
    PROVE  PathStep(s)
<1> DEFINE j == k + 1
           f == Head(UpOf(s)[j])
<1>1. /\ k \in 1 .. hops /\ k \notin Shut(hops, StOf(s)) /\ StOf(s)[k] = "up"
      /\ k \in Legs /\ j \in Legs
  BY UpBridge DEF ReadOut, Up
<1>2. /\ OutOf(s)[k] = NoFrame /\ UpOf(s)[j] # <<>> /\ UpOf(s)[j] \in Queue
      /\ UpOf(s)[j] = leg[s][j].up
  BY <1>1, Viewed DEF ReadOut, MayRead
<1>3. j \in PageOf(s)
  BY <1>1, <1>2 DEF Good, WiredSession, Wired, Emptied
<1>4. Tail(UpOf(s)[j]) \in Queue /\ f \in Hand
  BY <1>2, QueueOps DEF Hand
<1>5. PICK u0, f0 : u0 = Tail(UpOf(s)[j]) /\ f0 = f
  OBVIOUS
<1>6. /\ leg' = [leg EXCEPT ![s][j].up = u0]
      /\ bridge' = [bridge EXCEPT ![s][k].outHand = f0]
  BY <1>1, <1>2, <1>5 DEF ReadOut
<1>7. LegsBecome(s, DownOf(s), [UpOf(s) EXCEPT ![j] = u0], ExecOf(s), PageOf(s))
  BY <1>1, <1>4, <1>5, <1>6, UpSet
<1>8. BridgesBecome(s, InOf(s), [OutOf(s) EXCEPT ![k] = f0], StOf(s))
  BY <1>4, <1>5, <1>6, OutSet
<1>9. UNCHANGED <<page, hops, exec, typed, hasty>>
  BY DEF ReadOut, ghosts
<1>10. WiredSession(s)'
  <2>1. WiredSession(s) /\ hops \in Bridges
    BY DEF Good, PageShape
  <2>2. /\ \A i \in Legs \ {j} : UpOf(s)'[i] = UpOf(s)[i]
        /\ \A i \in Bridges \ {k} : OutOf(s)'[i] = OutOf(s)[i]
    BY <1>1, <1>7, <1>8, Viewed DEF LegsBecome, BridgesBecome
  <2>3. Hands(StOf(s)', InOf(s)', OutOf(s)')
    BY <1>1, <1>8, <2>1, <2>2 DEF WiredSession, Wired, Hands, BridgesBecome
  <2>4. Emptied(DownOf(s)', UpOf(s)', ExecOf(s)', PageOf(s)')
    BY <1>3, <1>7, <2>1, <2>2 DEF WiredSession, Wired, Emptied, LegsBecome
  <2>5. Legged(StOf(s), UpOf(s)', ExecOf(s), PageOf(s), typed[s])
    BY <1>2, <2>1, <2>2, Ways DEF WiredSession, Wired, Legged
  <2> QED BY <1>7, <1>8, <1>9, <2>1, <2>3, <2>4, <2>5
          DEF WiredSession, Wired, LegsBecome, BridgesBecome, page
<1>11. OutFlow(s)'
  <2> SUFFICES ASSUME hasty = 0 PROVE OutFlow(s)'
    BY <1>9 DEF OutFlow
  <2>1. PICK q2 : q2 = UpOf(s)'
    OBVIOUS
  <2>2. PICK h2 : h2 = OutOf(s)'
    OBVIOUS
  <2>3. Flow("output", 1, hops, UpOf(s), OutOf(s), PageOf(s), Shut(hops, StOf(s)),
             exec[s].wrote, ShownUpTo(s, Len(shown)))
    BY DEF Good, OutFlow
  <2>4. ShownUpTo(s, Len(shown)) \in Nat
    BY ShownCounts DEF PageShape
  <2>5. /\ q2 = [UpOf(s) EXCEPT ![Before(1, k)] = Tail(@)]
        /\ h2 = [OutOf(s) EXCEPT ![k] = Head(UpOf(s)[Before(1, k)])]
    BY <1>5, <1>7, <1>8, <2>1, <2>2, Ways DEF LegsBecome, BridgesBecome
  <2>6. Flow("output", 1, hops, q2, h2, PageOf(s), Shut(hops, StOf(s)),
             exec[s].wrote, ShownUpTo(s, Len(shown)))
    BY <1>1, <1>2, <1>3, <2>3, <2>4, <2>5, Ways, SessionTypes, FlowRead
  <2> QED BY <1>7, <1>8, <1>9, <2>1, <2>2, <2>6
          DEF Good, OutFlow, LegsBecome, BridgesBecome, ShownUpTo, Shows, page
<1>12. InFlow(s)'
  BY <1>7, <1>8, <1>9 DEF Good, InFlow, LegsBecome, BridgesBecome, page
<1>13. Socked(s)'
  BY <1>7, <1>8, <1>9 DEF Good, Socked, LegsBecome, BridgesBecome, page
<1>14. Elsewhere(s)
  BY <1>7, <1>8, <1>9 DEF Elsewhere, LegsBecome, BridgesBecome
<1> QED BY <1>7, <1>8, <1>9, <1>10, <1>11, <1>12, <1>13, <1>14
        DEF PathStep, Good, LegsBecome, BridgesBecome, PathShape

\* The bridge at the exec turns a size into a call.
LEMMA ResizeExecStep ==
    ASSUME PageShape, PathShape, NEW s \in Sockets, Good(s), NEW k \in Bridges,
           ResizeExec(s, k)
    PROVE  PathStep(s)
<1>1. /\ k \in 1 .. hops /\ k \notin Shut(hops, StOf(s)) /\ StOf(s)[k] = "up"
      /\ k \in Legs /\ k + 1 \in Legs
  BY UpBridge DEF ResizeExec, Up
<1>2. /\ InOf(s)[k] # NoFrame /\ InOf(s)[k].kind = "size" /\ InOf(s)[k] \in InFrame
      /\ InOf(s)[k] = bridge[s][k].inHand
  BY Viewed DEF ResizeExec
<1>3. /\ bridge' = [bridge EXCEPT ![s][k].inHand = NoFrame]
      /\ UNCHANGED <<page, hops, leg, typed, hasty>>
  BY DEF ResizeExec
<1>4. BridgesBecome(s, [InOf(s) EXCEPT ![k] = NoFrame], OutOf(s), StOf(s))
  BY <1>3, InSet
<1>5. LegsBecome(s, DownOf(s), UpOf(s), ExecOf(s), PageOf(s))
  BY <1>3 DEF LegsBecome, PathShape, DownOf, UpOf, ExecOf, PageOf
<1>6. /\ exec' \in [Sockets -> Exec] /\ \A r \in Sockets \ {s} : exec'[r] = exec[r]
      /\ exec'[s].st = exec[s].st /\ exec'[s].read = exec[s].read
      /\ exec'[s].wrote = exec[s].wrote
  <2>1. exec \in [Sockets -> Exec]
    BY DEF PathShape
  <2>2. CASE exec' = [exec EXCEPT ![s].size = bridge[s][k].inHand.n]
    <3>1. bridge[s][k].inHand.n \in Nat
      BY <1>2 DEF InFrame
    <3> QED BY <2>1, <2>2, <3>1 DEF Exec
  <2>3. CASE UNCHANGED exec
    BY <2>1, <2>3
  <2> QED BY <2>2, <2>3 DEF ResizeExec
<1>7. WiredSession(s)'
  <2>1. WiredSession(s)
    BY DEF Good
  <2>2. Hands(StOf(s)', InOf(s)', OutOf(s)')
    <3>1. \A i \in Bridges : InOf(s)'[i] \in {InOf(s)[i], NoFrame}
      BY <1>4, Viewed DEF BridgesBecome
    <3> QED BY <1>4, <2>1, <3>1 DEF WiredSession, Wired, Hands, BridgesBecome
  <2>3. Opened(hops, StOf(s), exec[s])'
    BY <1>3, <1>4, <1>6, <2>1 DEF WiredSession, Wired, Opened, BridgesBecome
  <2> QED BY <1>3, <1>4, <1>5, <2>1, <2>2, <2>3
          DEF WiredSession, Wired, LegsBecome, BridgesBecome
<1>8. InFlow(s)'
  <2>1. PICK h2 : h2 = InOf(s)'
    OBVIOUS
  <2>2. h2 = [InOf(s) EXCEPT ![k] = NoFrame] /\ InOf(s)[k].kind # "stdin"
    BY <1>2, <1>4, <2>1 DEF BridgesBecome
  <2>3. Flow("stdin", 0, hops, DownOf(s), InOf(s), ExecOf(s), Shut(hops, StOf(s)),
             typed[s], Len(exec[s].read))
    BY DEF Good, InFlow
  <2>4. Flow("stdin", 0, hops, DownOf(s), h2, ExecOf(s), Shut(hops, StOf(s)),
             typed[s], Len(exec[s].read))
    BY <1>1, <2>2, <2>3, SessionTypes, FlowToss
  <2> QED BY <1>3, <1>4, <1>5, <1>6, <2>1, <2>4
          DEF Good, InFlow, LegsBecome, BridgesBecome
<1>9. OutFlow(s)'
  BY <1>3, <1>4, <1>5, <1>6
     DEF Good, OutFlow, LegsBecome, BridgesBecome, ShownUpTo, Shows, page
<1>10. Socked(s)'
  BY <1>3, <1>4, <1>5 DEF Good, Socked, LegsBecome, BridgesBecome, page
<1>11. Elsewhere(s)
  BY <1>3, <1>4, <1>6 DEF Elsewhere, BridgesBecome
<1> QED BY <1>4, <1>5, <1>6, <1>7, <1>8, <1>9, <1>10, <1>11
        DEF PathStep, Good, LegsBecome, BridgesBecome

\* The bridge passes on what it holds for the process.
LEMMA WriteInStep ==
    ASSUME PageShape, PathShape, NEW s \in Sockets, Good(s), NEW k \in Bridges, WriteIn(s, k)
    PROVE  PathStep(s)
<1> DEFINE j == k + 1
           f == InOf(s)[k]
<1>1. /\ k \in 1 .. hops /\ k \notin Shut(hops, StOf(s)) /\ StOf(s)[k] = "up"
      /\ k \in Legs /\ j \in Legs
  BY UpBridge DEF WriteIn, Up
<1>2. /\ f # NoFrame /\ f \in InFrame /\ f = bridge[s][k].inHand
      /\ k < hops \/ f.kind # "size"
  BY Viewed DEF WriteIn, ToPassOn
<1>3. /\ bridge' = [bridge EXCEPT ![s][k].inHand = NoFrame]
      /\ UNCHANGED <<page, hops, exec, typed, hasty>>
  BY DEF WriteIn, ghosts
<1>4. BridgesBecome(s, [InOf(s) EXCEPT ![k] = NoFrame], OutOf(s), StOf(s))
  BY <1>3, InSet
<1>5. PICK d0 : d0 = IF j \in ExecOf(s) THEN Append(DownOf(s)[j], f) ELSE DownOf(s)[j]
  OBVIOUS
<1>6. d0 \in InQueue /\ LegsBecome(s, [DownOf(s) EXCEPT ![j] = d0], UpOf(s), ExecOf(s), PageOf(s))
  <2>1. /\ DownOf(s)[j] = leg[s][j].down /\ DownOf(s)[j] \in InQueue
        /\ j \in ExecOf(s) <=> leg[s][j].execSide
        /\ DownOf(s) \in [Legs -> InQueue]
    BY <1>1, Viewed
  <2>2. CASE j \in ExecOf(s)
    <3>1. Len(DownOf(s)[j]) < Buf /\ leg' = [leg EXCEPT ![s][j].down = d0]
      BY <1>1, <1>2, <1>5, <2>1, <2>2 DEF WriteIn
    <3>2. d0 \in InQueue
      BY <1>2, <1>5, <2>1, <2>2, <3>1, InQueueOps
    <3> QED BY <1>1, <3>1, <3>2, DownSet
  <2>3. CASE j \notin ExecOf(s)
    <3>1. leg' = leg /\ d0 = DownOf(s)[j]
      BY <1>5, <2>1, <2>3 DEF WriteIn
    <3> QED BY <2>1, <3>1 DEF LegsBecome, PathShape, DownOf, UpOf, ExecOf, PageOf
  <2> QED BY <2>2, <2>3
<1>7. WiredSession(s)'
  <2>1. WiredSession(s) /\ hops \in Bridges
    BY DEF Good, PageShape
  <2>2. Hands(StOf(s)', InOf(s)', OutOf(s)')
    <3>1. \A i \in Bridges : InOf(s)'[i] \in {InOf(s)[i], NoFrame}
      BY <1>4, Viewed DEF BridgesBecome
    <3> QED BY <1>4, <2>1, <3>1 DEF WiredSession, Wired, Hands, BridgesBecome
  <2>3. /\ \A i \in Legs \ {j} : DownOf(s)'[i] = DownOf(s)[i]
        /\ DownOf(s)'[j] = d0
    BY <1>1, <1>6, Viewed DEF LegsBecome
  <2>4. Emptied(DownOf(s)', UpOf(s)', ExecOf(s)', PageOf(s)')
    BY <1>5, <1>6, <2>1, <2>3 DEF WiredSession, Wired, Emptied, LegsBecome
  <2>5. DownOf(s)'[hops + 1] \in Seq(Keystroke)
    <3>1. DownOf(s)[hops + 1] \in Seq(Keystroke)
      BY <2>1 DEF WiredSession, Wired
    <3>2. CASE k = hops
      <4>1. f \in Keystroke
        BY <1>1, <1>2, <2>1, <3>2 DEF InFrame, Keystroke, Bridges
      <4>2. d0 \in Seq(Keystroke)
        BY <1>5, <3>1, <3>2, <4>1
      <4> QED BY <2>3, <3>2, <4>2
    <3>3. CASE k # hops
      <4>1. hops + 1 \in Legs \ {j}
        BY <1>1, <2>1, <3>3 DEF Bridges, Legs
      <4> QED BY <2>3, <3>1, <4>1
    <3> QED BY <3>2, <3>3
  <2> QED BY <1>3, <1>4, <1>6, <2>1, <2>2, <2>4, <2>5
          DEF WiredSession, Wired, LegsBecome, BridgesBecome, page
<1>8. InFlow(s)'
  <2>1. PICK q2 : q2 = DownOf(s)'
    OBVIOUS
  <2>2. PICK h2 : h2 = InOf(s)'
    OBVIOUS
  <2>3. Flow("stdin", 0, hops, DownOf(s), InOf(s), ExecOf(s), Shut(hops, StOf(s)),
             typed[s], Len(exec[s].read))
    BY DEF Good, InFlow
  <2>4. h2 = [InOf(s) EXCEPT ![k] = NoFrame]
    BY <1>4, <2>2 DEF BridgesBecome
  <2>5. IF After(0, k) \in ExecOf(s)
          THEN q2 = [DownOf(s) EXCEPT ![After(0, k)] = Append(@, InOf(s)[k])]
          ELSE q2 = DownOf(s)
    <3>1. After(0, k) = j /\ q2 = [DownOf(s) EXCEPT ![j] = d0]
      BY <1>6, <2>1, Ways DEF LegsBecome
    <3>2. j \notin ExecOf(s) => q2 = DownOf(s)
      BY <1>1, <1>5, <3>1, Viewed
    <3> QED BY <1>5, <3>1, <3>2
  <2>6. Flow("stdin", 0, hops, q2, h2, ExecOf(s), Shut(hops, StOf(s)),
             typed[s], Len(exec[s].read))
    BY <1>1, <1>2, <2>3, <2>4, <2>5, SessionTypes, FlowWrite
  <2> QED BY <1>3, <1>4, <1>6, <2>1, <2>2, <2>6
          DEF Good, InFlow, LegsBecome, BridgesBecome
<1>9. OutFlow(s)'
  BY <1>3, <1>4, <1>6 DEF Good, OutFlow, LegsBecome, BridgesBecome, ShownUpTo, Shows, page
<1>10. Socked(s)'
  BY <1>3, <1>4, <1>6 DEF Good, Socked, LegsBecome, BridgesBecome, page
<1>11. Elsewhere(s)
  BY <1>3, <1>4, <1>6 DEF Elsewhere, LegsBecome, BridgesBecome
<1> QED BY <1>3, <1>4, <1>6, <1>7, <1>8, <1>9, <1>10, <1>11
        DEF PathStep, Good, LegsBecome, BridgesBecome, PathShape

\* The bridge passes on what it holds for the page.
LEMMA WriteOutStep ==
    ASSUME PageShape, PathShape, NEW s \in Sockets, Good(s), NEW k \in Bridges, WriteOut(s, k)
    PROVE  PathStep(s)
<1> DEFINE f == OutOf(s)[k]
<1>1. /\ k \in 1 .. hops /\ k \notin Shut(hops, StOf(s)) /\ StOf(s)[k] = "up"
      /\ k \in Legs /\ k + 1 \in Legs
  BY UpBridge DEF WriteOut, Up
<1>2. /\ f # NoFrame /\ f \in Frame /\ f = bridge[s][k].outHand
  BY Viewed DEF WriteOut, Hand
<1>3. /\ bridge' = [bridge EXCEPT ![s][k].outHand = NoFrame]
      /\ UNCHANGED <<page, hops, exec, typed, hasty>>
  BY DEF WriteOut, ghosts
<1>4. BridgesBecome(s, InOf(s), [OutOf(s) EXCEPT ![k] = NoFrame], StOf(s))
  <2>1. NoFrame \in Hand
    BY DEF Hand
  <2> QED BY <1>3, <2>1, OutSet
<1>5. PICK u0 : u0 = IF k \in PageOf(s) THEN Append(UpOf(s)[k], f) ELSE UpOf(s)[k]
  OBVIOUS
<1>6. u0 \in Queue /\ LegsBecome(s, DownOf(s), [UpOf(s) EXCEPT ![k] = u0], ExecOf(s), PageOf(s))
  <2>1. /\ UpOf(s)[k] = leg[s][k].up /\ UpOf(s)[k] \in Queue
        /\ k \in PageOf(s) <=> leg[s][k].pageSide
        /\ UpOf(s) \in [Legs -> Queue]
    BY <1>1, Viewed
  <2>2. CASE k \in PageOf(s)
    <3>1. Len(UpOf(s)[k]) < Buf /\ leg' = [leg EXCEPT ![s][k].up = u0]
      BY <1>1, <1>2, <1>5, <2>1, <2>2 DEF WriteOut
    <3>2. u0 \in Queue
      BY <1>2, <1>5, <2>1, <2>2, <3>1, QueueOps
    <3> QED BY <1>1, <3>1, <3>2, UpSet
  <2>3. CASE k \notin PageOf(s)
    <3>1. leg' = leg /\ u0 = UpOf(s)[k]
      BY <1>5, <2>1, <2>3 DEF WriteOut
    <3> QED BY <2>1, <3>1 DEF LegsBecome, PathShape, DownOf, UpOf, ExecOf, PageOf
  <2> QED BY <2>2, <2>3
<1>7. WiredSession(s)'
  <2>1. WiredSession(s) /\ hops \in Bridges
    BY DEF Good, PageShape
  <2>2. Hands(StOf(s)', InOf(s)', OutOf(s)')
    <3>1. \A i \in Bridges : OutOf(s)'[i] \in {OutOf(s)[i], NoFrame}
      BY <1>4, Viewed DEF BridgesBecome
    <3> QED BY <1>4, <2>1, <3>1 DEF WiredSession, Wired, Hands, BridgesBecome
  <2>3. /\ \A i \in Legs \ {k} : UpOf(s)'[i] = UpOf(s)[i]
        /\ UpOf(s)'[k] = u0
    BY <1>1, <1>6, Viewed DEF LegsBecome
  <2>4. Emptied(DownOf(s)', UpOf(s)', ExecOf(s)', PageOf(s)')
    BY <1>5, <1>6, <2>1, <2>3 DEF WiredSession, Wired, Emptied, LegsBecome
  <2>5. Legged(StOf(s), UpOf(s)', ExecOf(s), PageOf(s), typed[s])
    BY <1>1, <2>1, <2>3, Ways DEF WiredSession, Wired, Legged
  <2> QED BY <1>3, <1>4, <1>6, <2>1, <2>2, <2>4, <2>5
          DEF WiredSession, Wired, LegsBecome, BridgesBecome, page
<1>8. OutFlow(s)'
  <2> SUFFICES ASSUME hasty = 0 PROVE OutFlow(s)'
    BY <1>3 DEF OutFlow
  <2>1. PICK q2 : q2 = UpOf(s)'
    OBVIOUS
  <2>2. PICK h2 : h2 = OutOf(s)'
    OBVIOUS
  <2>3. Flow("output", 1, hops, UpOf(s), OutOf(s), PageOf(s), Shut(hops, StOf(s)),
             exec[s].wrote, ShownUpTo(s, Len(shown)))
    BY DEF Good, OutFlow
  <2>4. ShownUpTo(s, Len(shown)) \in Nat
    BY ShownCounts DEF PageShape
  <2>5. h2 = [OutOf(s) EXCEPT ![k] = NoFrame]
    BY <1>4, <2>2 DEF BridgesBecome
  <2>6. IF After(1, k) \in PageOf(s)
          THEN q2 = [UpOf(s) EXCEPT ![After(1, k)] = Append(@, OutOf(s)[k])]
          ELSE q2 = UpOf(s)
    <3>1. After(1, k) = k /\ q2 = [UpOf(s) EXCEPT ![k] = u0]
      BY <1>6, <2>1, Ways DEF LegsBecome
    <3>2. k \notin PageOf(s) => q2 = UpOf(s)
      BY <1>1, <1>5, <3>1, Viewed
    <3> QED BY <1>5, <3>1, <3>2
  <2>7. Flow("output", 1, hops, q2, h2, PageOf(s), Shut(hops, StOf(s)),
             exec[s].wrote, ShownUpTo(s, Len(shown)))
    BY <1>1, <1>2, <2>3, <2>4, <2>5, <2>6, SessionTypes, FlowWrite
  <2> QED BY <1>3, <1>4, <1>6, <2>1, <2>2, <2>7
          DEF Good, OutFlow, LegsBecome, BridgesBecome, ShownUpTo, Shows, page
<1>9. InFlow(s)'
  BY <1>3, <1>4, <1>6 DEF Good, InFlow, LegsBecome, BridgesBecome, page
<1>10. Socked(s)'
  BY <1>3, <1>4, <1>6 DEF Good, Socked, LegsBecome, BridgesBecome, page
<1>11. Elsewhere(s)
  BY <1>3, <1>4, <1>6 DEF Elsewhere, LegsBecome, BridgesBecome
<1> QED BY <1>3, <1>4, <1>6, <1>7, <1>8, <1>9, <1>10, <1>11
        DEF PathStep, Good, LegsBecome, BridgesBecome, PathShape

\* A bridge that opens is shut no more.
LEMMA FlowShut ==
    ASSUME NEW kind, NEW dir, NEW n, NEW q, NEW hand, NEW live, NEW shut, NEW src, NEW snk,
           NEW shut2, shut2 \subseteq shut,
           Flow(kind, dir, n, q, hand, live, shut, src, snk)
    PROVE  Flow(kind, dir, n, q, hand, live, shut2, src, snk)
<1>1. PICK lo \in [Legs -> Nat], hi \in [Legs -> Nat] :
        Marked(kind, dir, n, q, hand, live, shut, src, snk, lo, hi)
  BY DEF Flow
<1>2. Marked(kind, dir, n, q, hand, live, shut2, src, snk, lo, hi)
  BY <1>1 DEF Marked
<1> QED BY <1>1, <1>2 DEF Flow

\* A bridge that ends drops an end of the leg on either side of it.
LEMMA TwoLegs ==
    ASSUME PathShape, NEW s \in Sockets, NEW k \in Bridges,
           leg' = [leg EXCEPT ![s][k] = DropExecSide(@), ![s][k + 1] = DropPageSide(@)]
    PROVE  LegsBecome(s, [DownOf(s) EXCEPT ![k] = <<>>], [UpOf(s) EXCEPT ![k + 1] = <<>>],
                      ExecOf(s) \ {k}, PageOf(s) \ {k + 1})
<1> DEFINE j == k + 1
<1>1. k \in Legs /\ j \in Legs /\ j # k
  BY DEF Bridges, Legs
<1>2. PICK l : l = leg[s]
  OBVIOUS
<1>3. l \in [Legs -> Leg] /\ leg \in [Sockets -> [Legs -> Leg]]
  BY <1>2 DEF PathShape
<1>4. PICK x : x = DropExecSide(l[k])
  OBVIOUS
<1>5. PICK y : y = DropPageSide(l[j])
  OBVIOUS
<1>6. /\ x \in Leg /\ x.down = <<>> /\ x.up = l[k].up
      /\ ~x.execSide /\ (x.pageSide <=> l[k].pageSide)
  <2>1. l[k] \in Leg /\ l[k].pageSide \in BOOLEAN /\ l[k].up \in Queue
    BY <1>1, <1>3 DEF Leg
  <2>2. x = [down |-> <<>>, up |-> l[k].up, pageSide |-> l[k].pageSide, execSide |-> FALSE]
    BY <1>4, <2>1, LegFields, NewLegs
  <2>3. x \in Leg /\ x.down = <<>> /\ x.up = l[k].up
    BY <2>1, <2>2, NewLegs DEF Leg
  <2>4. ~x.execSide /\ (x.pageSide <=> l[k].pageSide)
    BY <2>2, Zenon
  <2> QED BY <2>3, <2>4
<1>7. /\ y \in Leg /\ y.up = <<>> /\ y.down = l[j].down
      /\ ~y.pageSide /\ (y.execSide <=> l[j].execSide)
  <2>1. l[j] \in Leg /\ l[j].execSide \in BOOLEAN /\ l[j].down \in InQueue
    BY <1>1, <1>3 DEF Leg
  <2>2. y = [down |-> l[j].down, up |-> <<>>, pageSide |-> FALSE, execSide |-> l[j].execSide]
    BY <1>5, <2>1, LegFields, NewLegs
  <2>3. y \in Leg /\ y.up = <<>> /\ y.down = l[j].down
    BY <2>1, <2>2, NewLegs DEF Leg
  <2>4. ~y.pageSide /\ (y.execSide <=> l[j].execSide)
    BY <2>2, Zenon
  <2> QED BY <2>3, <2>4
<1>8. PICK l1 : l1 = [l EXCEPT ![k] = x]
  OBVIOUS
<1>9. PICK l2 : l2 = leg'[s]
  OBVIOUS
<1>10. /\ l1 \in [Legs -> Leg] /\ l1[k] = x /\ \A i \in Legs \ {k} : l1[i] = l[i]
  BY <1>1, <1>3, <1>6, <1>8
<1>11. leg' = [leg EXCEPT ![s] = [l EXCEPT ![k] = x, ![j] = y]]
  BY <1>1, <1>2, <1>3, <1>4, <1>5
<1>12. /\ leg' \in [Sockets -> [Legs -> Leg]] /\ l2 \in [Legs -> Leg]
       /\ l2[j] = y /\ \A i \in Legs \ {j} : l2[i] = l1[i]
       /\ \A r \in Sockets \ {s} : leg'[r] = leg[r]
  BY <1>1, <1>3, <1>6, <1>7, <1>9, <1>10, <1>11
<1>13. /\ Downs(l1) = [Downs(l) EXCEPT ![k] = x.down]
       /\ Ups(l1) = [Ups(l) EXCEPT ![k] = x.up]
       /\ ExecEnds(l1) = IF x.execSide THEN ExecEnds(l) \union {k} ELSE ExecEnds(l) \ {k}
       /\ PageEnds(l1) = IF x.pageSide THEN PageEnds(l) \union {k} ELSE PageEnds(l) \ {k}
  <2>1. x \in Leg /\ l \in [Legs -> Leg]
    BY <1>3, <1>6
  <2> QED BY <1>1, <1>10, <2>1, LegViews
<1>14. /\ Downs(l2) = [Downs(l1) EXCEPT ![j] = y.down]
       /\ Ups(l2) = [Ups(l1) EXCEPT ![j] = y.up]
       /\ ExecEnds(l2) = IF y.execSide THEN ExecEnds(l1) \union {j} ELSE ExecEnds(l1) \ {j}
       /\ PageEnds(l2) = IF y.pageSide THEN PageEnds(l1) \union {j} ELSE PageEnds(l1) \ {j}
  <2>1. y \in Leg
    BY <1>7
  <2> QED BY <1>1, <1>10, <1>12, <2>1, LegViews
<1>15. Downs(l2) = [Downs(l) EXCEPT ![k] = <<>>] /\ Ups(l2) = [Ups(l) EXCEPT ![j] = <<>>]
  <2>1. /\ Downs(l2) = [i \in Legs |-> l2[i].down] /\ Ups(l2) = [i \in Legs |-> l2[i].up]
        /\ Downs(l) = [i \in Legs |-> l[i].down] /\ Ups(l) = [i \in Legs |-> l[i].up]
    BY DEF Downs, Ups
  <2>2. \A i \in Legs : /\ l2[i].down = IF i = k THEN <<>> ELSE l[i].down
                        /\ l2[i].up = IF i = j THEN <<>> ELSE l[i].up
    <3>1. x.down = <<>> /\ x.up = l[k].up /\ y.up = <<>> /\ y.down = l[j].down
      BY <1>6, <1>7
    <3> QED BY <1>1, <1>10, <1>12, <3>1
  <2>3. [Downs(l) EXCEPT ![k] = <<>>] = [i \in Legs |-> IF i = k THEN <<>> ELSE l[i].down]
    BY <1>1 DEF Downs
  <2>4. [Ups(l) EXCEPT ![j] = <<>>] = [i \in Legs |-> IF i = j THEN <<>> ELSE l[i].up]
    BY <1>1 DEF Ups
  <2>5. Downs(l2) = [Downs(l) EXCEPT ![k] = <<>>]
    BY <2>1, <2>2, <2>3
  <2>6. Ups(l2) = [Ups(l) EXCEPT ![j] = <<>>]
    BY <2>1, <2>2, <2>4
  <2> QED BY <2>5, <2>6
<1>16. ExecEnds(l2) = ExecEnds(l) \ {k} /\ PageEnds(l2) = PageEnds(l) \ {j}
  <2>1. (j \in ExecEnds(l) <=> l[j].execSide) /\ (k \in PageEnds(l) <=> l[k].pageSide)
    BY <1>1 DEF ExecEnds, PageEnds
  <2>2. ExecEnds(l1) = ExecEnds(l) \ {k} /\ PageEnds(l1) = PageEnds(l)
    BY <1>6, <1>13, <2>1
  <2> QED BY <1>1, <1>7, <1>14, <2>1, <2>2
<1> QED BY <1>2, <1>9, <1>12, <1>15, <1>16
        DEF LegsBecome, DownOf, UpOf, ExecOf, PageOf

\* A bridge ends.
LEMMA EndStep ==
    ASSUME PageShape, PathShape, NEW s \in Sockets, Good(s), NEW k \in Bridges, End(s, k)
    PROVE  PathStep(s)
<1> DEFINE j == k + 1
<1>1. /\ k \in 1 .. hops /\ k \notin Shut(hops, StOf(s)) /\ StOf(s)[k] = "up"
      /\ k \in Legs /\ j \in Legs
  BY UpBridge DEF End, Up
<1>2. /\ bridge' = [bridge EXCEPT ![s][k] = [NoBridge EXCEPT !.st = "gone"]]
      /\ leg' = [leg EXCEPT ![s][k] = DropExecSide(@), ![s][j] = DropPageSide(@)]
      /\ UNCHANGED <<page, hops, exec, typed, hasty>>
  BY DEF End, Ended, ghosts
<1>3. LegsBecome(s, [DownOf(s) EXCEPT ![k] = <<>>], [UpOf(s) EXCEPT ![j] = <<>>],
                 ExecOf(s) \ {k}, PageOf(s) \ {j})
  BY <1>2, TwoLegs
<1>4. BridgesBecome(s, [InOf(s) EXCEPT ![k] = NoFrame], [OutOf(s) EXCEPT ![k] = NoFrame],
                    [StOf(s) EXCEPT ![k] = "gone"])
  <2>1. PICK x : x = [st |-> "gone", inHand |-> NoFrame, outHand |-> NoFrame]
    OBVIOUS
  <2>2. x \in Bridge /\ x.st = "gone" /\ x.inHand = NoFrame /\ x.outHand = NoFrame
    BY <2>1 DEF Bridge, Hand
  <2>3. bridge' = [bridge EXCEPT ![s][k] = x]
    <3>1. [NoBridge EXCEPT !.st = "gone"] = x
      BY <2>1 DEF NoBridge
    <3> QED BY <1>2, <3>1
  <2>4. BridgesBecome(s, [InOf(s) EXCEPT ![k] = x.inHand],
                      [OutOf(s) EXCEPT ![k] = x.outHand], [StOf(s) EXCEPT ![k] = x.st])
    BY <2>2, <2>3, OneBridge
  <2> QED BY <2>2, <2>4
<1>5. /\ \A i \in Legs \ {k} : DownOf(s)'[i] = DownOf(s)[i]
      /\ \A i \in Legs \ {j} : UpOf(s)'[i] = UpOf(s)[i]
      /\ DownOf(s)'[k] = <<>> /\ UpOf(s)'[j] = <<>>
      /\ \A i \in Bridges \ {k} : /\ StOf(s)'[i] = StOf(s)[i] /\ InOf(s)'[i] = InOf(s)[i]
                                  /\ OutOf(s)'[i] = OutOf(s)[i]
      /\ StOf(s)'[k] = "gone" /\ InOf(s)'[k] = NoFrame /\ OutOf(s)'[k] = NoFrame
  BY <1>1, <1>3, <1>4, Viewed DEF LegsBecome, BridgesBecome
<1>6. WiredSession(s)'
  <2>1. WiredSession(s) /\ hops \in Bridges
    BY DEF Good, PageShape
  <2>2. Opened(hops, StOf(s)', exec[s])
    BY <1>1, <1>5, <2>1 DEF WiredSession, Wired, Opened, Bridges
  <2>3. Hands(StOf(s)', InOf(s)', OutOf(s)')
    BY <1>5, <2>1 DEF WiredSession, Wired, Hands
  <2>4. Legged(StOf(s)', UpOf(s)', ExecOf(s)', PageOf(s)', typed[s])
    <3>1. \A i \in Bridges : StOf(s)'[i] = "dialing" => UpOf(s)'[i] = <<>>
      <4>1. \A i \in Bridges : i \in Legs
        BY Ways
      <4> QED BY <1>5, <2>1, <4>1 DEF WiredSession, Wired, Legged
    <3>2. 1 \in Bridges /\ ExecOf(s)' \subseteq ExecOf(s) /\ PageOf(s)' \subseteq PageOf(s)
      BY <1>3 DEF LegsBecome, Bridges
    <3> QED BY <1>5, <2>1, <3>1, <3>2 DEF WiredSession, Wired, Legged
  <2>5. Emptied(DownOf(s)', UpOf(s)', ExecOf(s)', PageOf(s)')
    BY <1>3, <1>5, <2>1 DEF WiredSession, Wired, Emptied, LegsBecome
  <2>6. hops + 1 \in Legs \ {k}
    BY <1>1, <2>1 DEF Bridges, Legs
  <2> QED BY <1>2, <1>5, <2>1, <2>2, <2>3, <2>4, <2>5, <2>6
          DEF WiredSession, Wired, page
<1>7. Shut(hops, StOf(s)') \subseteq Shut(hops, StOf(s))
  <2>1. \A i \in 1 .. hops : i \in Bridges
    BY DEF PageShape, Bridges
  <2> QED BY <1>5, <2>1 DEF Shut
<1>8. InFlow(s)'
  <2>1. PICK q2 : q2 = DownOf(s)'
    OBVIOUS
  <2>2. PICK h2 : h2 = InOf(s)'
    OBVIOUS
  <2>3. PICK sh2 : sh2 = Shut(hops, StOf(s)')
    OBVIOUS
  <2>4. Flow("stdin", 0, hops, DownOf(s), InOf(s), ExecOf(s), Shut(hops, StOf(s)),
             typed[s], Len(exec[s].read))
    BY DEF Good, InFlow
  <2>5. q2 = [DownOf(s) EXCEPT ![k] = <<>>]
    BY <1>3, <2>1 DEF LegsBecome
  <2>6. \A i \in Bridges : h2[i] = InOf(s)[i] \/ (h2[i] = NoFrame /\ Before(0, i) = k)
    BY <1>5, <2>2, Ways
  <2>7. Flow("stdin", 0, hops, q2, h2, ExecOf(s) \ {k}, sh2, typed[s], Len(exec[s].read))
    BY <1>1, <1>7, <2>3, <2>4, <2>5, <2>6, SessionTypes, FlowCut
  <2> QED BY <1>2, <1>3, <1>4, <2>1, <2>2, <2>3, <2>7 DEF Good, InFlow, LegsBecome
<1>9. OutFlow(s)'
  <2> SUFFICES ASSUME hasty = 0 PROVE OutFlow(s)'
    BY <1>2 DEF OutFlow
  <2>1. PICK q2 : q2 = UpOf(s)'
    OBVIOUS
  <2>2. PICK h2 : h2 = OutOf(s)'
    OBVIOUS
  <2>3. PICK sh2 : sh2 = Shut(hops, StOf(s)')
    OBVIOUS
  <2>4. Flow("output", 1, hops, UpOf(s), OutOf(s), PageOf(s), Shut(hops, StOf(s)),
             exec[s].wrote, ShownUpTo(s, Len(shown)))
    BY DEF Good, OutFlow
  <2>5. ShownUpTo(s, Len(shown)) \in Nat
    BY ShownCounts DEF PageShape
  <2>6. q2 = [UpOf(s) EXCEPT ![j] = <<>>]
    BY <1>3, <2>1 DEF LegsBecome
  <2>7. \A i \in Bridges : h2[i] = OutOf(s)[i] \/ (h2[i] = NoFrame /\ Before(1, i) = j)
    BY <1>5, <2>2, Ways
  <2>8. Flow("output", 1, hops, q2, h2, PageOf(s) \ {j}, sh2, exec[s].wrote,
             ShownUpTo(s, Len(shown)))
    BY <1>1, <1>7, <2>3, <2>4, <2>5, <2>6, <2>7, SessionTypes, FlowCut
  <2> QED BY <1>2, <1>3, <1>4, <2>1, <2>2, <2>3, <2>8
          DEF Good, OutFlow, LegsBecome, ShownUpTo, Shows, page
<1>10. Socked(s)'
  <2>1. StOf(s)'[1] = "none" <=> StOf(s)[1] = "none"
    <3>1. 1 \in Bridges
      BY DEF Bridges
    <3> QED BY <1>1, <1>5, <3>1
  <2> QED BY <1>2, <1>3, <2>1 DEF Good, Socked, LegsBecome, page
<1>11. Elsewhere(s)
  BY <1>2, <1>3, <1>4 DEF Elsewhere, LegsBecome, BridgesBecome
<1> QED BY <1>2, <1>3, <1>4, <1>6, <1>8, <1>9, <1>10, <1>11
        DEF PathStep, Good, LegsBecome, BridgesBecome, PathShape

\* The request is upgraded: the first leg, and a bridge that dials on.
LEMMA UpgradeStep ==
    ASSUME PageShape, PathShape, NEW s \in Sockets, Good(s), Upgrade(s)
    PROVE  PathStep(s)
<1>1. 1 \in Bridges /\ 1 \in Legs
  BY DEF Bridges, Legs
<1>2. /\ sock[s] = "connecting" /\ StOf(s)[1] = "none"
      /\ bridge' = [bridge EXCEPT ![s][1].st = "dialing"]
      /\ leg' = [leg EXCEPT ![s][1] = FreshLeg]
      /\ UNCHANGED <<page, hops, exec, typed, hasty>>
  BY <1>1, Viewed DEF Upgrade, ghosts
<1>3. LegsBecome(s, [DownOf(s) EXCEPT ![1] = <<>>], [UpOf(s) EXCEPT ![1] = <<>>],
                 ExecOf(s) \union {1}, PageOf(s) \union {1})
  BY <1>1, <1>2, LegMade
<1>4. BridgesBecome(s, InOf(s), OutOf(s), [StOf(s) EXCEPT ![1] = "dialing"])
  BY <1>1, <1>2, StateSet
<1>5. WiredSession(s) /\ hops \in Bridges /\ 1 \in 1 .. hops
  BY DEF Good, PageShape, Bridges
<1>6. /\ 1 \notin ExecOf(s) /\ 1 \notin PageOf(s) /\ typed[s] = 0
      /\ DownOf(s)[1] = <<>> /\ UpOf(s)[1] = <<>>
  BY <1>1, <1>2, <1>5 DEF WiredSession, Wired, Legged, Emptied
<1>7. DownOf(s)' = DownOf(s) /\ UpOf(s)' = UpOf(s)
  BY <1>1, <1>3, <1>6, Viewed DEF LegsBecome
<1>8. StOf(s)'[1] = "dialing" /\ \A i \in Bridges \ {1} : StOf(s)'[i] = StOf(s)[i]
  BY <1>1, <1>4, Viewed DEF BridgesBecome
<1>9. exec[s].st = "none" /\ exec[s].read = <<>> /\ exec[s].wrote = 0
  BY <1>2, <1>5 DEF WiredSession, Wired, Opened
<1>10. WiredSession(s)'
  <2>1. Opened(hops, StOf(s)', exec[s])
    BY <1>2, <1>5, <1>8, <1>9 DEF WiredSession, Wired, Opened, Bridges
  <2>2. Hands(StOf(s)', InOf(s), OutOf(s))
    BY <1>1, <1>2, <1>5, <1>8 DEF WiredSession, Wired, Hands
  <2>3. Legged(StOf(s)', UpOf(s), ExecOf(s)', PageOf(s)', typed[s])
    <3>1. \A i \in Bridges : i + 1 # 1
      BY DEF Bridges
    <3>2. \A i \in Bridges : /\ StOf(s)'[i] \in {"none", "dialing"} =>
                                  i + 1 \notin ExecOf(s)' /\ i + 1 \notin PageOf(s)'
                             /\ StOf(s)'[i] = "dialing" => UpOf(s)[i] = <<>>
      BY <1>2, <1>3, <1>5, <1>6, <1>8, <3>1 DEF WiredSession, Wired, Legged, LegsBecome
    <3> QED BY <1>8, <3>2 DEF Legged
  <2>4. Emptied(DownOf(s), UpOf(s), ExecOf(s)', PageOf(s)')
    BY <1>3, <1>5 DEF WiredSession, Wired, Emptied, LegsBecome
  <2> QED BY <1>2, <1>4, <1>5, <1>7, <2>1, <2>2, <2>3, <2>4
          DEF WiredSession, Wired, BridgesBecome, page
<1>11. /\ Shut(hops, StOf(s)') = Shut(hops, StOf(s))
       /\ 1 \in Shut(hops, StOf(s))
       /\ \A i \in Shut(hops, StOf(s)) : InOf(s)[i] = NoFrame /\ OutOf(s)[i] = NoFrame
  <2>1. \A i \in 1 .. hops : i \in Bridges
    BY <1>5 DEF Bridges
  <2>2. 1 \in Shut(hops, StOf(s))
    BY <1>2, <1>5 DEF Shut
  <2>3. Shut(hops, StOf(s)') = Shut(hops, StOf(s))
    BY <1>2, <1>8, <2>1 DEF Shut
  <2>4. \A i \in Shut(hops, StOf(s)) : InOf(s)[i] = NoFrame /\ OutOf(s)[i] = NoFrame
    BY <1>5, <2>1 DEF Shut, WiredSession, Wired, Hands
  <2> QED BY <2>2, <2>3, <2>4
<1>12. /\ \A i \in 1 .. hops : i \in Bridges /\ i # 0
       /\ hops + 1 # 1
  BY <1>5 DEF Bridges
<1>13. InFlow(s)'
  <2>1. Flow("stdin", 0, hops, DownOf(s), InOf(s), ExecOf(s), Shut(hops, StOf(s)),
             typed[s], Len(exec[s].read))
    BY DEF Good, InFlow
  <2>2. \A i \in 1 .. hops : 1 \in {Before(0, i), After(0, i)} => i \in Shut(hops, StOf(s))
    <3>1. \A i \in 1 .. hops : i + 1 # 1
      OBVIOUS
    <3> QED BY <1>11, <1>12, <3>1, Ways
  <2>3. 1 # Final(0, hops) /\ (1 = First(0, hops) => typed[s] = 0)
    BY <1>5, <1>6, <1>12, Ways
  <2>4. Flow("stdin", 0, hops, DownOf(s), InOf(s), ExecOf(s) \union {1},
             Shut(hops, StOf(s)), typed[s], Len(exec[s].read))
    BY <1>1, <1>6, <1>11, <2>1, <2>2, <2>3, SessionTypes, FlowFresh
  <2> QED BY <1>2, <1>3, <1>4, <1>7, <1>11, <2>4
          DEF Good, InFlow, LegsBecome, BridgesBecome
<1>14. OutFlow(s)'
  <2> SUFFICES ASSUME hasty = 0 PROVE OutFlow(s)'
    BY <1>2 DEF OutFlow
  <2>1. Flow("output", 1, hops, UpOf(s), OutOf(s), PageOf(s), Shut(hops, StOf(s)),
             exec[s].wrote, ShownUpTo(s, Len(shown)))
    BY DEF Good, OutFlow
  <2>2. ShownUpTo(s, Len(shown)) \in Nat
    BY ShownCounts DEF PageShape
  <2>3. ShownUpTo(s, Len(shown)) = 0
    <3>1. ShownUpTo(s, Len(shown)) <= 0
      BY <1>9, <2>1, FlowBounds
    <3> QED BY <2>2, <3>1
  <2>4. \A i \in 1 .. hops : 1 \in {Before(1, i), After(1, i)} => i \in Shut(hops, StOf(s))
    <3>1. \A i \in 1 .. hops : i + 1 # 1
      OBVIOUS
    <3> QED BY <1>11, <1>12, <3>1, Ways
  <2>5. 1 # First(1, hops)
    BY <1>5, <1>12, Ways
  <2>6. Flow("output", 1, hops, UpOf(s), OutOf(s), PageOf(s) \union {1},
             Shut(hops, StOf(s)), exec[s].wrote, ShownUpTo(s, Len(shown)))
    <3>1. Parts(hops, UpOf(s), OutOf(s), PageOf(s), Shut(hops, StOf(s)))
      BY SessionTypes
    <3>2. exec[s].wrote \in Nat
      BY SessionTypes
    <3>3. 1 \in Legs /\ UpOf(s)[1] = <<>> /\ 1 \in {0, 1}
      BY <1>1, <1>6
    <3>4. \A i \in Shut(hops, StOf(s)) : OutOf(s)[i] = NoFrame
      BY <1>11
    <3>5. 1 = First(1, hops) => exec[s].wrote = 0
      BY <2>5
    <3>6. 1 = Final(1, hops) => ShownUpTo(s, Len(shown)) = 0
      BY <2>3
    <3>7. Shut(hops, StOf(s)) \subseteq Shut(hops, StOf(s))
      OBVIOUS
    <3>8. PICK snk : snk = ShownUpTo(s, Len(shown))
      OBVIOUS
    <3>9. /\ Flow("output", 1, hops, UpOf(s), OutOf(s), PageOf(s), Shut(hops, StOf(s)),
                  exec[s].wrote, snk)
          /\ snk \in Nat /\ (1 = Final(1, hops) => snk = 0)
      BY <2>1, <2>2, <3>6, <3>8
    <3>10. Flow("output", 1, hops, UpOf(s), OutOf(s), PageOf(s) \union {1},
                Shut(hops, StOf(s)), exec[s].wrote, snk)
      BY <2>4, <3>1, <3>2, <3>3, <3>4, <3>5, <3>7, <3>9, FlowFresh
    <3> QED BY <3>8, <3>10
  <2> QED BY <1>2, <1>3, <1>4, <1>7, <1>11, <2>6
          DEF Good, OutFlow, LegsBecome, BridgesBecome, ShownUpTo, Shows, page
<1>15. Socked(s)'
  BY <1>2, <1>8 DEF Socked, page
<1>16. Elsewhere(s)
  BY <1>2, <1>3, <1>4 DEF Elsewhere, LegsBecome, BridgesBecome
<1> QED BY <1>2, <1>3, <1>4, <1>10, <1>13, <1>14, <1>15, <1>16
        DEF PathStep, Good, LegsBecome, BridgesBecome, PathShape

\* The next leg is there, and behind it the process or the bridge of the node.
LEMMA DialStates ==
    ASSUME PageShape, PathShape, NEW s \in Sockets, Good(s), NEW k \in Bridges, Dial(s, k)
    PROVE  /\ bridge' \in [Sockets -> [Bridges -> Bridge]]
           /\ \A r \in Sockets \ {s} : bridge'[r] = bridge[r]
           /\ InOf(s)' = InOf(s) /\ OutOf(s)' = OutOf(s)
           /\ StOf(s)'[k] = "up"
           /\ \A i \in Bridges \ {k} : IF k # hops /\ i = k + 1
                                         THEN StOf(s)'[i] = "dialing"
                                         ELSE StOf(s)'[i] = StOf(s)[i]
<1>1. CASE k = hops
  <2>1. bridge' = [bridge EXCEPT ![s][k].st = "up"]
    BY <1>1 DEF Dial
  <2>2. BridgesBecome(s, InOf(s), OutOf(s), [StOf(s) EXCEPT ![k] = "up"])
    BY <2>1, StateSet
  <2> QED BY <1>1, <2>2, Viewed DEF BridgesBecome
<1>2. CASE k # hops
  <2>1. bridge' = [bridge EXCEPT ![s][k].st = "up", ![s][k + 1].st = "dialing"]
    BY <1>2 DEF Dial
  <2>2. bridge \in [Sockets -> [Bridges -> Bridge]] /\ hops \in Bridges
    BY DEF PathShape, PageShape
  <2>3. StOf(s)[k] = "dialing"
    BY Viewed DEF Dial
  <2>4. k \in 1 .. hops
    BY <2>2, <2>3 DEF Good, WiredSession, Wired, Opened, Bridges
  <2>5. k = 1 /\ k + 1 = 2 /\ Bridges = {1, 2}
    BY <1>2, <2>2, <2>4 DEF Bridges
  <2>6. PICK x : x = [bridge[s][1] EXCEPT !.st = "up"]
    OBVIOUS
  <2>7. PICK y : y = [bridge[s][2] EXCEPT !.st = "dialing"]
    OBVIOUS
  <2>13. bridge[s][1] \in Bridge /\ bridge[s][2] \in Bridge
    BY <2>2, <2>5
  <2>14. /\ x \in Bridge /\ x.st = "up" /\ x.inHand = bridge[s][1].inHand
         /\ x.outHand = bridge[s][1].outHand
    BY <2>6, <2>13 DEF Bridge
  <2>15. /\ y \in Bridge /\ y.st = "dialing" /\ y.inHand = bridge[s][2].inHand
         /\ y.outHand = bridge[s][2].outHand
    BY <2>7, <2>13 DEF Bridge
  <2>8. /\ x \in Bridge /\ x.st = "up" /\ x.inHand = bridge[s][1].inHand
        /\ x.outHand = bridge[s][1].outHand
        /\ y \in Bridge /\ y.st = "dialing" /\ y.inHand = bridge[s][2].inHand
        /\ y.outHand = bridge[s][2].outHand
    BY <2>14, <2>15
  <2>9. /\ bridge' \in [Sockets -> [Bridges -> Bridge]]
        /\ \A r \in Sockets \ {s} : bridge'[r] = bridge[r]
        /\ bridge'[s][1] = x /\ bridge'[s][2] = y
    BY <2>1, <2>2, <2>5, <2>6, <2>7, <2>8
  <2>10. StOf(s)'[1] = "up" /\ StOf(s)'[2] = "dialing"
    BY <2>5, <2>8, <2>9 DEF StOf, States
  <2>11. \A i \in Bridges : /\ bridge'[s][i].inHand = bridge[s][i].inHand
                            /\ bridge'[s][i].outHand = bridge[s][i].outHand
    BY <2>5, <2>8, <2>9
  <2>12. InOf(s)' = InOf(s) /\ OutOf(s)' = OutOf(s)
    BY <2>11 DEF InOf, OutOf, InHands, OutHands
  <2> QED BY <1>2, <2>5, <2>9, <2>10, <2>12
<1> QED BY <1>1, <1>2

\* The next bridge, or the process, is reached.
LEMMA DialStep ==
    ASSUME PageShape, PathShape, NEW s \in Sockets, Good(s), NEW k \in Bridges, Dial(s, k)
    PROVE  PathStep(s)
<1> DEFINE j == k + 1
           st2 == StOf(s)'
<1>1. /\ StOf(s)[k] = "dialing" /\ j \in Legs /\ k \in Legs /\ WiredSession(s)
      /\ hops \in Bridges
      /\ leg' = [leg EXCEPT ![s][j] = FreshLeg]
      /\ UNCHANGED <<page, hops, typed, hasty>>
  BY Viewed, Ways DEF Dial, ghosts, Good, PageShape
<1>2. /\ bridge' \in [Sockets -> [Bridges -> Bridge]]
      /\ \A r \in Sockets \ {s} : bridge'[r] = bridge[r]
      /\ InOf(s)' = InOf(s) /\ OutOf(s)' = OutOf(s)
      /\ st2[k] = "up"
      /\ \A i \in Bridges \ {k} : IF k # hops /\ i = j THEN st2[i] = "dialing"
                                                      ELSE st2[i] = StOf(s)[i]
  BY DialStates
<1>3. LegsBecome(s, [DownOf(s) EXCEPT ![j] = <<>>], [UpOf(s) EXCEPT ![j] = <<>>],
                 ExecOf(s) \union {j}, PageOf(s) \union {j})
  BY <1>1, LegMade
<1>4. /\ j \notin ExecOf(s) /\ j \notin PageOf(s)
      /\ DownOf(s)[j] = <<>> /\ UpOf(s)[j] = <<>>
  BY <1>1 DEF WiredSession, Wired, Legged, Emptied
<1>5. DownOf(s)' = DownOf(s) /\ UpOf(s)' = UpOf(s)
  BY <1>1, <1>3, <1>4, Viewed DEF LegsBecome
<1>6. /\ k \in 1 .. hops /\ \A i \in 1 .. hops : i \in Bridges
      /\ exec[s].st = "none" /\ exec[s].read = <<>> /\ exec[s].wrote = 0
      /\ \A i \in Bridges : i > k => StOf(s)[i] = "none"
      /\ \A i \in Bridges : i < k => StOf(s)[i] \in {"up", "gone"}
  <2>1. Opened(hops, StOf(s), exec[s])
    BY <1>1 DEF WiredSession, Wired
  <2>2. k \in 1 .. hops /\ \A i \in 1 .. hops : i \in Bridges
    BY <1>1, <2>1 DEF Opened, Bridges
  <2>3. exec[s].st = "none" /\ exec[s].read = <<>> /\ exec[s].wrote = 0
    BY <1>1, <2>1, <2>2 DEF Opened
  <2>4. \A i \in Bridges : i > k => StOf(s)[i] = "none"
    BY <1>1, <2>1 DEF Opened, Bridges
  <2>5. \A i \in Bridges : i < k => StOf(s)[i] \in {"up", "gone"}
    <3>1. \A i \in Bridges : StOf(s)[i] \in {"none", "dialing", "up", "gone"}
      BY Viewed
    <3> QED BY <1>1, <2>1, <3>1 DEF Opened, Bridges
  <2> QED BY <2>2, <2>3, <2>4, <2>5
<1>7. /\ exec' \in [Sockets -> Exec] /\ \A r \in Sockets \ {s} : exec'[r] = exec[r]
      /\ exec'[s].read = <<>> /\ exec'[s].wrote = 0
      /\ exec'[s].st # "none" => k = hops
  <2>1. exec \in [Sockets -> Exec]
    BY DEF PathShape
  <2>2. CASE k = hops
    <3>1. exec' = [exec EXCEPT ![s].st = "running"]
      BY <2>2 DEF Dial
    <3> QED BY <1>6, <2>1, <2>2, <3>1 DEF Exec
  <2>3. CASE k # hops
    <3>1. exec' = exec
      BY <2>3 DEF Dial
    <3> QED BY <1>6, <2>1, <3>1
  <2> QED BY <2>2, <2>3
<1> HIDE DEF st2
<1>8. WiredSession(s)'
  <2>1. Opened(hops, st2, exec'[s])
    BY <1>1, <1>2, <1>6, <1>7, Viewed DEF WiredSession, Wired, Opened, Bridges
  <2>2. Hands(st2, InOf(s), OutOf(s))
    <3>1. \A i \in Bridges : st2[i] # "up" => StOf(s)[i] # "up"
      BY <1>1, <1>2, <1>6
    <3> QED BY <1>1, <3>1 DEF WiredSession, Wired, Hands
  <2>3. Legged(st2, UpOf(s), ExecOf(s)', PageOf(s)', typed[s])
    <3>1. ASSUME NEW i \in Bridges
          PROVE  /\ st2[i] \in {"none", "dialing"} =>
                      i + 1 \notin ExecOf(s)' /\ i + 1 \notin PageOf(s)'
                 /\ st2[i] = "dialing" => UpOf(s)[i] = <<>>
      <4>1. CASE i = k
        BY <1>2, <4>1
      <4>2. CASE i # k
        <5>1. i + 1 # j
          BY <4>2 DEF Bridges
        <5>2. st2[i] \in {"none", "dialing"} => StOf(s)[i] \in {"none", "dialing"}
          BY <1>2, <1>6, <4>2 DEF Bridges
        <5>3. st2[i] = "dialing" => i = j \/ StOf(s)[i] = "dialing"
          BY <1>2, <4>2
        <5> QED BY <1>1, <1>3, <1>4, <5>1, <5>2, <5>3
                DEF WiredSession, Wired, Legged, LegsBecome
      <4> QED BY <4>1, <4>2
    <3>2. st2[1] = "none" => StOf(s)[1] = "none"
      BY <1>2 DEF Bridges
    <3>3. j # 1
      BY DEF Bridges
    <3> QED BY <1>1, <1>3, <3>1, <3>2, <3>3 DEF WiredSession, Wired, Legged, LegsBecome
  <2>4. Emptied(DownOf(s), UpOf(s), ExecOf(s)', PageOf(s)')
    BY <1>1, <1>3 DEF WiredSession, Wired, Emptied, LegsBecome
  <2> QED BY <1>1, <1>2, <1>5, <2>1, <2>2, <2>3, <2>4 DEF WiredSession, Wired, st2, page
<1> DEFINE sh == Shut(hops, StOf(s))
<1>9. /\ Shut(hops, st2) \subseteq sh /\ k \in sh
      /\ \A i \in sh : InOf(s)[i] = NoFrame /\ OutOf(s)[i] = NoFrame
      /\ \A i \in 1 .. hops : j \in {i, i + 1} => i \in sh
  <2>1. k \in sh
    BY <1>1, <1>6 DEF Shut
  <2>2. Shut(hops, st2) \subseteq sh
    BY <1>2, <1>6 DEF Shut, Bridges
  <2>3. \A i \in sh : InOf(s)[i] = NoFrame /\ OutOf(s)[i] = NoFrame
    BY <1>1, <1>6 DEF Shut, WiredSession, Wired, Hands
  <2>4. \A i \in 1 .. hops : j \in {i, i + 1} => i \in sh
    BY <1>6, <2>1 DEF Shut, Bridges
  <2> QED BY <2>1, <2>2, <2>3, <2>4
<1>10. /\ \A i \in 1 .. hops : j \in {Before(0, i), After(0, i)} => i \in sh
       /\ \A i \in 1 .. hops : j \in {Before(1, i), After(1, i)} => i \in sh
       /\ First(0, hops) # j
  <2>1. j # 1
    BY DEF Bridges
  <2>2. First(0, hops) = 1
    BY <1>1, Ways
  <2>3. \A i \in 1 .. hops : /\ Before(0, i) = i /\ After(0, i) = i + 1
                             /\ Before(1, i) = i + 1 /\ After(1, i) = i
    BY <1>6, Ways
  <2> QED BY <1>9, <2>1, <2>2, <2>3
<1> HIDE DEF sh
<1>11. InFlow(s)'
  <2>1. Flow("stdin", 0, hops, DownOf(s), InOf(s), ExecOf(s), sh, typed[s], Len(exec[s].read))
    BY DEF Good, InFlow, sh
  <2>2. Len(exec[s].read) = 0
    BY <1>6
  <2>3. PICK sh2 : sh2 = Shut(hops, st2)
    OBVIOUS
  <2>4. Parts(hops, DownOf(s), InOf(s), ExecOf(s), sh) /\ typed[s] \in Nat
    BY SessionTypes DEF sh
  <2>5. Flow("stdin", 0, hops, DownOf(s), InOf(s), ExecOf(s) \union {j}, sh2,
             typed[s], Len(exec[s].read))
    <3>1. 0 \in {0, 1} /\ j \in Legs /\ DownOf(s)[j] = <<>>
      BY <1>1, <1>4
    <3>2. sh2 \subseteq sh /\ \A i \in sh : InOf(s)[i] = NoFrame
      BY <1>9, <2>3
    <3>3. \A i \in 1 .. hops : j \in {Before(0, i), After(0, i)} => i \in sh
      BY <1>10
    <3>4. j = First(0, hops) => typed[s] = 0
      BY <1>10, <2>2
    <3>5. Len(exec[s].read) \in Nat /\ Len(exec[s].read) = 0
      BY <2>2, <2>2
    <3> HIDE DEF j
    <3> QED BY <2>1, <2>4, <3>1, <3>2, <3>3, <3>4, <3>5, FlowFresh
  <2>6. Counts(<<>>) /\ Len(<<>>) = 0
    BY DEF Counts
  <2>7. Len(exec'[s].read) = Len(exec[s].read) /\ Counts(exec'[s].read)
    BY <1>7, <2>2, <2>6
  <2> QED BY <1>1, <1>2, <1>3, <1>5, <2>3, <2>5, <2>7 DEF InFlow, LegsBecome, st2
<1>12. OutFlow(s)'
  <2> SUFFICES ASSUME hasty = 0 PROVE OutFlow(s)'
    BY <1>1 DEF OutFlow
  <2>1. Flow("output", 1, hops, UpOf(s), OutOf(s), PageOf(s), sh,
             exec[s].wrote, ShownUpTo(s, Len(shown)))
    BY DEF Good, OutFlow, sh
  <2>2. ShownUpTo(s, Len(shown)) \in Nat
    BY ShownCounts DEF PageShape
  <2>3. ShownUpTo(s, Len(shown)) = 0
    <3>1. ShownUpTo(s, Len(shown)) <= 0
      BY <1>6, <2>1, FlowBounds
    <3> QED BY <2>2, <3>1
  <2>4. PICK sh2 : sh2 = Shut(hops, st2)
    OBVIOUS
  <2>5. Parts(hops, UpOf(s), OutOf(s), PageOf(s), sh)
    BY SessionTypes DEF sh
  <2>6. exec[s].wrote = 0 /\ 0 \in Nat /\ exec'[s].wrote = exec[s].wrote
    BY <1>6, <1>7
  <2>7. Flow("output", 1, hops, UpOf(s), OutOf(s), PageOf(s) \union {j}, sh2,
             exec[s].wrote, ShownUpTo(s, Len(shown)))
    <3>1. 1 \in {0, 1} /\ j \in Legs /\ UpOf(s)[j] = <<>>
      BY <1>1, <1>4
    <3>2. sh2 \subseteq sh /\ \A i \in sh : OutOf(s)[i] = NoFrame
      BY <1>9, <2>4
    <3>3. \A i \in 1 .. hops : j \in {Before(1, i), After(1, i)} => i \in sh
      BY <1>10
    <3>4. j = First(1, hops) => exec[s].wrote = 0
      BY <1>10, <2>6
    <3>5. exec[s].wrote \in Nat /\ ShownUpTo(s, Len(shown)) = 0
      BY <2>2, <2>3, <2>6
    <3> HIDE DEF j
    <3> QED BY <2>1, <2>2, <2>4, <2>5, <3>1, <3>2, <3>3, <3>4, <3>5, FlowFresh
  <2> QED BY <1>1, <1>2, <1>3, <1>5, <2>4, <2>6, <2>7
          DEF Good, OutFlow, LegsBecome, ShownUpTo, Shows, page, st2
<1>13. Socked(s)'
  <2>1. /\ st2[1] = "none" <=> StOf(s)[1] = "none"
    BY <1>1, <1>2 DEF Bridges
  <2>2. j # 1
    BY DEF Bridges
  <2> QED BY <1>1, <1>3, <2>1, <2>2 DEF Good, Socked, LegsBecome, page, st2
<1>14. Elsewhere(s)
  BY <1>2, <1>3, <1>7 DEF Elsewhere, LegsBecome
<1> QED BY <1>2, <1>3, <1>7, <1>8, <1>11, <1>12, <1>13, <1>14
        DEF PathStep, Good, LegsBecome

\* A notice for the client is the last frame of a leg.
LEMMA NoticeLeft ==
    ASSUME PathShape, NEW s \in Sockets, NEW k \in Legs, UpOf(s)[k] = <<>>,
           NEW u, u = IF k \in PageOf(s) THEN <<[kind |-> "notice", n |-> 0]>> ELSE <<>>,
           leg' = [leg EXCEPT ![s][k] = DropExecSide(Told(@))]
    PROVE  /\ u \in Queue
           /\ LegsBecome(s, [DownOf(s) EXCEPT ![k] = <<>>], [UpOf(s) EXCEPT ![k] = u],
                         ExecOf(s) \ {k}, PageOf(s))
<1>1. PICK l : l = leg[s][k]
  OBVIOUS
<1> DEFINE f == [kind |-> "notice", n |-> 0]
<1>0. f \in Frame
  BY DEF Frame
<1>2. /\ l \in Leg /\ l.up = <<>> /\ l.pageSide \in BOOLEAN /\ l.down \in InQueue
      /\ l.execSide \in BOOLEAN
      /\ k \in PageOf(s) <=> l.pageSide
  BY <1>1, Viewed
<1>3. u \in Queue
  <2> HIDE DEF f
  <2>1. <<f>> \in Seq(Frame) /\ Len(<<f>>) = 1
    BY <1>0
  <2>2. u = <<f>> \/ u = <<>>
    BY DEF f
  <2> QED BY <2>1, <2>2, NewLegs, TerminalAssumption DEF Queue
<1>4. PICK l1 : l1 = [l EXCEPT !.up = u]
  OBVIOUS
<1>5. l1 \in Leg /\ l1.up = u /\ (l1.pageSide <=> l.pageSide)
  <2>1. l1 = [down |-> l.down, up |-> u, pageSide |-> l.pageSide, execSide |-> l.execSide]
    BY <1>2, <1>3, <1>4, NewLegs, LegFields
  <2>2. l1 \in Leg /\ l1.up = u
    BY <1>2, <1>3, <2>1 DEF Leg
  <2>3. l1.pageSide <=> l.pageSide
    BY <2>1, Zenon
  <2> QED BY <2>2, <2>3
<1>6. leg' = [leg EXCEPT ![s][k] = DropExecSide(l1)]
  <2>1. Append(l.up, f) = <<f>>
    BY <1>2
  <2>2. (IF l.pageSide THEN Append(l.up, f) ELSE l.up) = u
    BY <1>2, <2>1
  <2>3. Told(l) = l1
    BY <1>4, <2>2 DEF Told
  <2> QED BY <1>1, <2>3
<1>7. PICK p : p = l1.pageSide
  OBVIOUS
<1>8. p \in BOOLEAN /\ (p <=> k \in PageOf(s))
  <2>1. l1.pageSide \in BOOLEAN
    BY <1>5 DEF Leg
  <2> QED BY <1>2, <1>5, <1>7, <2>1
<1>9. DropExecSide(l1) = [down |-> <<>>, up |-> u, pageSide |-> p, execSide |-> FALSE]
  BY <1>3, <1>5, <1>7, NewLegs, LegFields
<1>10. leg' = [leg EXCEPT ![s][k] = [down |-> <<>>, up |-> u, pageSide |-> p, execSide |-> FALSE]]
  BY <1>6, <1>9, Zenon
<1>11. LegsBecome(s, [DownOf(s) EXCEPT ![k] = <<>>], [UpOf(s) EXCEPT ![k] = u],
                  IF FALSE THEN ExecOf(s) \union {k} ELSE ExecOf(s) \ {k},
                  IF p THEN PageOf(s) \union {k} ELSE PageOf(s) \ {k})
  BY <1>3, <1>8, <1>10, NewLegs, OneLeg
<1>12. (IF p THEN PageOf(s) \union {k} ELSE PageOf(s) \ {k}) = PageOf(s)
  BY <1>8
<1> QED BY <1>3, <1>11, <1>12

\* The call behind it fails.
LEMMA DialFailsStep ==
    ASSUME PageShape, PathShape, NEW s \in Sockets, Good(s), NEW k \in Bridges,
           DialFails(s, k)
    PROVE  PathStep(s)
<1> DEFINE notice == [kind |-> "notice", n |-> 0]
<1>1. /\ StOf(s)[k] = "dialing" /\ k \in Legs /\ WiredSession(s) /\ hops \in Bridges
      /\ bridge' = [bridge EXCEPT ![s][k].st = "gone"]
      /\ UNCHANGED <<page, hops, exec, typed, hasty>>
  BY Viewed, Ways DEF DialFails, Good, PageShape
<1>2. UpOf(s)[k] = <<>> /\ notice \in Frame
  BY <1>1 DEF WiredSession, Wired, Legged, Frame
<1>3. PICK u : u = IF k \in PageOf(s) THEN <<notice>> ELSE <<>>
  OBVIOUS
<1>4. /\ u \in Queue
      /\ LegsBecome(s, [DownOf(s) EXCEPT ![k] = <<>>], [UpOf(s) EXCEPT ![k] = u],
                    ExecOf(s) \ {k}, PageOf(s))
  <2>1. leg' = [leg EXCEPT ![s][k] = DropExecSide(Told(@))]
    BY DEF DialFails
  <2> QED BY <1>1, <1>2, <1>3, <2>1, NoticeLeft
<1>5. BridgesBecome(s, InOf(s), OutOf(s), [StOf(s) EXCEPT ![k] = "gone"])
  BY <1>1, StateSet
<1>6. /\ \A i \in Legs \ {k} : DownOf(s)'[i] = DownOf(s)[i] /\ UpOf(s)'[i] = UpOf(s)[i]
      /\ DownOf(s)'[k] = <<>> /\ UpOf(s)'[k] = u
      /\ \A i \in Bridges \ {k} : StOf(s)'[i] = StOf(s)[i]
      /\ StOf(s)'[k] = "gone"
  BY <1>1, <1>4, <1>5, Viewed DEF LegsBecome, BridgesBecome
<1>7. /\ k \in 1 .. hops /\ \A i \in 1 .. hops : i \in Bridges
      /\ exec[s].st = "none" /\ exec[s].read = <<>> /\ exec[s].wrote = 0
  <2>1. Opened(hops, StOf(s), exec[s])
    BY <1>1 DEF WiredSession, Wired
  <2>2. k \in 1 .. hops /\ \A i \in 1 .. hops : i \in Bridges
    BY <1>1, <2>1 DEF Opened, Bridges
  <2> QED BY <1>1, <2>1, <2>2 DEF Opened
<1>8. WiredSession(s)'
  <2>1. Opened(hops, StOf(s)', exec[s])
    BY <1>1, <1>6, <1>7 DEF WiredSession, Wired, Opened, Bridges
  <2>2. Hands(StOf(s)', InOf(s), OutOf(s))
    BY <1>1, <1>6 DEF WiredSession, Wired, Hands
  <2>3. Legged(StOf(s)', UpOf(s)', ExecOf(s)', PageOf(s), typed[s])
    <3>1. \A i \in Bridges : StOf(s)'[i] = "dialing" => UpOf(s)'[i] = <<>>
      <4>1. \A i \in Bridges : i \in Legs
        BY Ways
      <4> QED BY <1>1, <1>6, <4>1 DEF WiredSession, Wired, Legged
    <3>2. 1 \in Bridges /\ ExecOf(s)' \subseteq ExecOf(s)
      BY <1>4 DEF LegsBecome, Bridges
    <3> QED BY <1>1, <1>6, <3>1, <3>2 DEF WiredSession, Wired, Legged
  <2>4. Emptied(DownOf(s)', UpOf(s)', ExecOf(s)', PageOf(s))
    BY <1>1, <1>3, <1>4, <1>6 DEF WiredSession, Wired, Emptied, LegsBecome
  <2>5. hops + 1 \in Legs \ {k}
    BY <1>1, <1>7 DEF Bridges, Legs
  <2> QED BY <1>1, <1>4, <1>5, <1>6, <2>1, <2>2, <2>3, <2>4, <2>5
          DEF WiredSession, Wired, LegsBecome, BridgesBecome, page
<1>9. Shut(hops, StOf(s)') \subseteq Shut(hops, StOf(s))
  BY <1>6, <1>7 DEF Shut
<1>10. InFlow(s)'
  <2>1. PICK q2 : q2 = DownOf(s)'
    OBVIOUS
  <2>2. PICK sh2 : sh2 = Shut(hops, StOf(s)')
    OBVIOUS
  <2>3. Flow("stdin", 0, hops, DownOf(s), InOf(s), ExecOf(s), Shut(hops, StOf(s)),
             typed[s], Len(exec[s].read))
    BY DEF Good, InFlow
  <2>4. q2 = [DownOf(s) EXCEPT ![k] = <<>>] /\ sh2 \subseteq Shut(hops, StOf(s))
    BY <1>4, <1>9, <2>1, <2>2 DEF LegsBecome
  <2>5. Flow("stdin", 0, hops, q2, InOf(s), ExecOf(s) \ {k}, sh2,
             typed[s], Len(exec[s].read))
    BY <1>1, <2>3, <2>4, SessionTypes, FlowCut
  <2> QED BY <1>1, <1>4, <1>5, <2>1, <2>2, <2>5
          DEF Good, InFlow, LegsBecome, BridgesBecome
<1>11. OutFlow(s)'
  <2> SUFFICES ASSUME hasty = 0 PROVE OutFlow(s)'
    BY <1>1 DEF OutFlow
  <2>1. PICK q2 : q2 = UpOf(s)'
    OBVIOUS
  <2>2. PICK sh2 : sh2 = Shut(hops, StOf(s)')
    OBVIOUS
  <2>3. Flow("output", 1, hops, UpOf(s), OutOf(s), PageOf(s), Shut(hops, StOf(s)),
             exec[s].wrote, ShownUpTo(s, Len(shown)))
    BY DEF Good, OutFlow
  <2>4. ShownUpTo(s, Len(shown)) \in Nat
    BY ShownCounts DEF PageShape
  <2>5. Flow("output", 1, hops, q2, OutOf(s), PageOf(s), Shut(hops, StOf(s)),
             exec[s].wrote, ShownUpTo(s, Len(shown)))
    <3>1. q2 = [UpOf(s) EXCEPT ![k] = u]
      BY <1>4, <2>1 DEF LegsBecome
    <3>2. CASE k \in PageOf(s)
      <4>1. u = Append(UpOf(s)[k], notice)
        BY <1>2, <1>3, <3>2
      <4>2. q2 = [UpOf(s) EXCEPT ![k] = Append(@, notice)]
        BY <3>1, <4>1
      <4>3. notice.kind # "output"
        OBVIOUS
      <4> HIDE DEF notice
      <4> QED BY <1>1, <1>2, <2>3, <2>4, <4>2, <4>3, SessionTypes, FlowOther
    <3>3. CASE k \notin PageOf(s)
      <4>1. q2 = UpOf(s)
        BY <1>1, <1>2, <1>3, <3>1, <3>3, Viewed
      <4> QED BY <2>3, <4>1
    <3> QED BY <3>2, <3>3
  <2>6. Flow("output", 1, hops, q2, OutOf(s), PageOf(s), sh2,
             exec[s].wrote, ShownUpTo(s, Len(shown)))
    <3>1. sh2 \subseteq Shut(hops, StOf(s))
      BY <1>9, <2>2
    <3> QED BY <2>5, <3>1, FlowShut
  <2> QED BY <1>1, <1>4, <1>5, <2>1, <2>2, <2>6
          DEF Good, OutFlow, LegsBecome, BridgesBecome, ShownUpTo, Shows, page
<1>12. Socked(s)'
  BY <1>1, <1>4, <1>6 DEF Good, Socked, LegsBecome, page, Bridges
<1>13. Elsewhere(s)
  BY <1>1, <1>4, <1>5 DEF Elsewhere, LegsBecome, BridgesBecome
<1> QED BY <1>1, <1>4, <1>5, <1>8, <1>10, <1>11, <1>12, <1>13
        DEF PathStep, Good, LegsBecome, BridgesBecome, PathShape

\* A connection breaks.
LEMMA BreakStep ==
    ASSUME PageShape, PathShape, NEW s \in Sockets, Good(s), NEW j \in Legs, Break(s, j)
    PROVE  PathStep(s)
<1>1. /\ j <= hops /\ WiredSession(s) /\ hops \in Bridges
      /\ leg' = [leg EXCEPT ![s][j] = NoLeg]
      /\ UNCHANGED <<page, hops, bridge, exec, typed, hasty>>
  BY DEF Break, Good, PageShape
<1>2. LegsBecome(s, [DownOf(s) EXCEPT ![j] = <<>>], [UpOf(s) EXCEPT ![j] = <<>>],
                 ExecOf(s) \ {j}, PageOf(s) \ {j})
  BY <1>1, LegBroken
<1>3. BridgesBecome(s, InOf(s), OutOf(s), StOf(s))
  BY <1>1 DEF BridgesBecome, PathShape, InOf, OutOf, StOf
<1>4. /\ \A i \in Legs \ {j} : DownOf(s)'[i] = DownOf(s)[i] /\ UpOf(s)'[i] = UpOf(s)[i]
      /\ DownOf(s)'[j] = <<>> /\ UpOf(s)'[j] = <<>>
  BY <1>2, Viewed DEF LegsBecome
<1>5. WiredSession(s)'
  <2>1. Legged(StOf(s), UpOf(s)', ExecOf(s)', PageOf(s)', typed[s])
    <3>1. \A i \in Bridges : StOf(s)[i] = "dialing" => UpOf(s)'[i] = <<>>
      <4>1. \A i \in Bridges : i \in Legs
        BY Ways
      <4> QED BY <1>1, <1>4, <4>1 DEF WiredSession, Wired, Legged
    <3>2. ExecOf(s)' \subseteq ExecOf(s) /\ PageOf(s)' \subseteq PageOf(s)
      BY <1>2 DEF LegsBecome
    <3> QED BY <1>1, <3>1, <3>2 DEF WiredSession, Wired, Legged
  <2>2. Emptied(DownOf(s)', UpOf(s)', ExecOf(s)', PageOf(s)')
    BY <1>1, <1>2, <1>4 DEF WiredSession, Wired, Emptied, LegsBecome
  <2>3. hops + 1 \in Legs \ {j}
    BY <1>1 DEF Bridges, Legs
  <2> QED BY <1>1, <1>3, <1>4, <2>1, <2>2, <2>3
          DEF WiredSession, Wired, BridgesBecome
<1>6. InFlow(s)'
  <2>1. PICK q2 : q2 = DownOf(s)'
    OBVIOUS
  <2>2. Flow("stdin", 0, hops, DownOf(s), InOf(s), ExecOf(s), Shut(hops, StOf(s)),
             typed[s], Len(exec[s].read))
    BY DEF Good, InFlow
  <2>3. q2 = [DownOf(s) EXCEPT ![j] = <<>>]
    BY <1>2, <2>1 DEF LegsBecome
  <2>4. Flow("stdin", 0, hops, q2, InOf(s), ExecOf(s) \ {j}, Shut(hops, StOf(s)),
             typed[s], Len(exec[s].read))
    BY <2>2, <2>3, SessionTypes, FlowCut
  <2> QED BY <1>1, <1>2, <1>3, <2>1, <2>4 DEF Good, InFlow, LegsBecome, BridgesBecome
<1>7. OutFlow(s)'
  <2> SUFFICES ASSUME hasty = 0 PROVE OutFlow(s)'
    BY <1>1 DEF OutFlow
  <2>1. PICK q2 : q2 = UpOf(s)'
    OBVIOUS
  <2>2. Flow("output", 1, hops, UpOf(s), OutOf(s), PageOf(s), Shut(hops, StOf(s)),
             exec[s].wrote, ShownUpTo(s, Len(shown)))
    BY DEF Good, OutFlow
  <2>3. ShownUpTo(s, Len(shown)) \in Nat
    BY ShownCounts DEF PageShape
  <2>4. q2 = [UpOf(s) EXCEPT ![j] = <<>>]
    BY <1>2, <2>1 DEF LegsBecome
  <2>5. Flow("output", 1, hops, q2, OutOf(s), PageOf(s) \ {j}, Shut(hops, StOf(s)),
             exec[s].wrote, ShownUpTo(s, Len(shown)))
    BY <2>2, <2>3, <2>4, SessionTypes, FlowCut
  <2> QED BY <1>1, <1>2, <1>3, <2>1, <2>5
          DEF Good, OutFlow, LegsBecome, BridgesBecome, ShownUpTo, Shows, page
<1>8. Socked(s)'
  BY <1>1, <1>2, <1>3 DEF Good, Socked, LegsBecome, BridgesBecome, page
<1>9. Elsewhere(s)
  BY <1>1, <1>2 DEF Elsewhere, LegsBecome
<1> QED BY <1>1, <1>2, <1>5, <1>6, <1>7, <1>8, <1>9
        DEF PathStep, Good, LegsBecome, PathShape

\* The process reads a keystroke.
LEMMA ExecReadStep ==
    ASSUME PageShape, PathShape, NEW s \in Sockets, Good(s), ExecRead(s)
    PROVE  PathStep(s)
<1> DEFINE j == hops + 1
<1>1. /\ hops \in Bridges /\ j \in Legs /\ WiredSession(s)
      /\ UNCHANGED <<page, hops, bridge, typed, hasty>>
      /\ exec[s] \in Exec /\ exec \in [Sockets -> Exec]
  BY SessionTypes, Ways DEF ExecRead, Good, PathShape, ghosts
<1>2. /\ DownOf(s)[j] = leg[s][j].down /\ DownOf(s)[j] \in InQueue /\ DownOf(s)[j] # <<>>
  BY <1>1, Viewed DEF ExecRead, ExecLeg
<1>3. j \in ExecOf(s) /\ DownOf(s)[j] \in Seq(Keystroke)
  BY <1>1, <1>2 DEF WiredSession, Wired, Emptied
<1>4. PICK d0, f : d0 = Tail(DownOf(s)[j]) /\ f = Head(DownOf(s)[j])
  OBVIOUS
<1>5. d0 \in InQueue /\ f \in Keystroke /\ d0 \in Seq(Keystroke)
  <2>1. d0 \in InQueue
    BY <1>2, <1>4, InQueueOps
  <2>2. f \in Keystroke /\ d0 \in Seq(Keystroke)
    BY <1>2, <1>3, <1>4
  <2> QED BY <2>1, <2>2
<1>6. /\ leg' = [leg EXCEPT ![s][j].down = d0]
      /\ exec' = [exec EXCEPT ![s].read = Append(exec[s].read, f.n)]
  BY <1>2, <1>4 DEF ExecRead, ExecLeg
<1>7. LegsBecome(s, [DownOf(s) EXCEPT ![j] = d0], UpOf(s), ExecOf(s), PageOf(s))
  BY <1>1, <1>5, <1>6, DownSet
<1>8. /\ \A i \in Legs \ {j} : DownOf(s)'[i] = DownOf(s)[i]
      /\ DownOf(s)'[j] = d0
  BY <1>1, <1>7, Viewed DEF LegsBecome
<1>9. BridgesBecome(s, InOf(s), OutOf(s), StOf(s))
  BY <1>1 DEF BridgesBecome, PathShape, InOf, OutOf, StOf
<1>10. f.n \in Nat /\ f.kind = "stdin"
  BY <1>5 DEF Keystroke
<1>11. /\ exec' \in [Sockets -> Exec] /\ \A r \in Sockets \ {s} : exec'[r] = exec[r]
       /\ exec'[s].st = exec[s].st /\ exec'[s].wrote = exec[s].wrote
       /\ exec'[s].read = Append(exec[s].read, f.n)
  <2>1. PICK x : x = Append(exec[s].read, f.n)
    OBVIOUS
  <2>2. x \in Seq(Nat)
    BY <1>10, <2>1, SessionTypes
  <2> QED BY <1>1, <1>6, <2>1, <2>2 DEF Exec
<1>12. WiredSession(s)'
  <2>1. Emptied(DownOf(s)', UpOf(s), ExecOf(s), PageOf(s))
    BY <1>1, <1>3, <1>8 DEF WiredSession, Wired, Emptied
  <2>2. exec[s].st # "none"
    BY DEF ExecRead, Running
  <2>3. Opened(hops, StOf(s), exec'[s])
    BY <1>1, <1>11, <2>2 DEF WiredSession, Wired, Opened
  <2> QED BY <1>1, <1>5, <1>7, <1>8, <1>9, <2>1, <2>3
          DEF WiredSession, Wired, LegsBecome, BridgesBecome
<1>13. InFlow(s)'
  <2>1. PICK q2 : q2 = DownOf(s)'
    OBVIOUS
  <2>2. Flow("stdin", 0, hops, DownOf(s), InOf(s), ExecOf(s), Shut(hops, StOf(s)),
             typed[s], Len(exec[s].read))
    BY DEF Good, InFlow
  <2>3. Final(0, hops) = j
    BY <1>1, Ways
  <2>4. q2 = [DownOf(s) EXCEPT ![Final(0, hops)] = Tail(@)]
    BY <1>4, <1>7, <2>1, <2>3 DEF LegsBecome
  <2>9. PICK n2 : n2 = Len(exec[s].read) + Weight("stdin", f)
    OBVIOUS
  <2>5. f = Head(DownOf(s)[Final(0, hops)])
    BY <1>4, <2>3
  <2>6. /\ f.kind = "stdin" => f.n = Len(exec[s].read) + 1
        /\ Flow("stdin", 0, hops, q2, InOf(s), ExecOf(s), Shut(hops, StOf(s)),
                typed[s], n2)
    <3>1. Final(0, hops) \in ExecOf(s) /\ DownOf(s)[Final(0, hops)] # <<>> /\ 0 \in {0, 1}
      BY <1>2, <1>3, <2>3
    <3>2. /\ Parts(hops, DownOf(s), InOf(s), ExecOf(s), Shut(hops, StOf(s)))
          /\ typed[s] \in Nat /\ Len(exec[s].read) \in Nat
      BY SessionTypes
    <3>4. PICK src, snk : src = typed[s] /\ snk = Len(exec[s].read)
      OBVIOUS
    <3>5. src \in Nat /\ snk \in Nat
      BY <3>2, <3>4
    <3>7. Weight("stdin", f) \in {0, 1}
      BY DEF Weight
    <3>8. n2 = snk + Weight("stdin", f)
      BY <2>9, <3>4
    <3>9. n2 \in Nat
      BY <3>5, <3>7, <3>8
    <3>10. Flow("stdin", 0, hops, DownOf(s), InOf(s), ExecOf(s), Shut(hops, StOf(s)), src, snk)
      BY <2>2, <3>4
    <3>11. Flow("stdin", 0, hops, q2, InOf(s), ExecOf(s), Shut(hops, StOf(s)), src, n2)
      BY <2>4, <2>5, <3>1, <3>2, <3>5, <3>8, <3>9, <3>10, FlowDrain
    <3>6. f.kind = "stdin" => f.n = snk + 1
      <4>1. PICK p : p = DownOf(s)[Final(0, hops)]
        OBVIOUS
      <4>2. p # <<>> /\ f = Head(p)
        BY <2>5, <3>1, <4>1
      <4>3. Expected("stdin", p, snk)
        BY <3>1, <3>2, <3>5, <3>10, <4>1, <4>2, FlowNext
      <4> QED BY <4>2, <4>3 DEF Expected
    <3> QED BY <3>4, <3>6, <3>11
  <2>7. Weight("stdin", f) = 1
    <3>1. f # NoFrame
      <4>1. f \in Frame
        BY <1>5 DEF Keystroke, Frame
      <4> QED BY <4>1, FrameAssumption
    <3> QED BY <1>10, <3>1 DEF Weight
  <2>8. Len(exec'[s].read) = Len(exec[s].read) + 1 /\ Counts(exec'[s].read)
    <3>1. exec[s].read \in Seq(Nat) /\ Counts(exec[s].read)
      BY SessionTypes DEF Good, InFlow
    <3>2. f.n = Len(exec[s].read) + 1
      BY <1>10, <2>6
    <3> QED BY <1>10, <1>11, <3>1, <3>2 DEF Counts
  <2> QED BY <1>1, <1>7, <1>9, <2>1, <2>6, <2>7, <2>8, <2>9
          DEF InFlow, LegsBecome, BridgesBecome
<1>14. OutFlow(s)'
  BY <1>1, <1>7, <1>9, <1>11
     DEF Good, OutFlow, LegsBecome, BridgesBecome, ShownUpTo, Shows, page
<1>15. Socked(s)'
  BY <1>1, <1>7, <1>9 DEF Good, Socked, LegsBecome, BridgesBecome, page
<1>16. Elsewhere(s)
  BY <1>1, <1>7, <1>11 DEF Elsewhere, LegsBecome
<1> QED BY <1>1, <1>7, <1>11, <1>12, <1>13, <1>14, <1>15, <1>16
        DEF PathStep, Good, LegsBecome, PathShape

\* It writes.
LEMMA ExecWriteStep ==
    ASSUME PageShape, PathShape, NEW s \in Sockets, Good(s), ExecWrite(s)
    PROVE  PathStep(s)
<1> DEFINE j == hops + 1
<1>1. /\ hops \in Bridges /\ j \in Legs /\ WiredSession(s)
      /\ UNCHANGED <<page, hops, bridge, typed, hasty>>
      /\ exec[s] \in Exec /\ exec \in [Sockets -> Exec]
  BY SessionTypes, Ways DEF ExecWrite, Good, PathShape, ghosts
<1>2. /\ UpOf(s)[j] = leg[s][j].up /\ UpOf(s)[j] \in Queue /\ Len(UpOf(s)[j]) < Buf
      /\ j \in PageOf(s)
  BY <1>1, Viewed DEF ExecWrite, ExecLeg
<1>3. PICK f : f = [kind |-> "output", n |-> exec[s].wrote + 1]
  OBVIOUS
<1>4. f \in Frame /\ f.kind = "output" /\ f.n = exec[s].wrote + 1
  BY <1>3, SessionTypes DEF Frame
<1>5. PICK u0 : u0 = Append(UpOf(s)[j], f)
  OBVIOUS
<1>6. u0 \in Queue
  BY <1>2, <1>4, <1>5, QueueOps
<1>7. /\ leg' = [leg EXCEPT ![s][j].up = u0]
      /\ exec' = [exec EXCEPT ![s].wrote = exec[s].wrote + 1]
  BY <1>2, <1>3, <1>5 DEF ExecWrite, ExecLeg
<1>8. LegsBecome(s, DownOf(s), [UpOf(s) EXCEPT ![j] = u0], ExecOf(s), PageOf(s))
  BY <1>1, <1>6, <1>7, UpSet
<1>9. \A i \in Legs \ {j} : UpOf(s)'[i] = UpOf(s)[i]
  BY <1>1, <1>8, Viewed DEF LegsBecome
<1>10. BridgesBecome(s, InOf(s), OutOf(s), StOf(s))
  BY <1>1 DEF BridgesBecome, PathShape, InOf, OutOf, StOf
<1>11. /\ exec' \in [Sockets -> Exec] /\ \A r \in Sockets \ {s} : exec'[r] = exec[r]
       /\ exec'[s].st = exec[s].st /\ exec'[s].wrote = exec[s].wrote + 1
       /\ exec'[s].read = exec[s].read
  <2>1. exec[s].wrote + 1 \in Nat
    BY SessionTypes
  <2> QED BY <1>1, <1>7, <2>1 DEF Exec
<1>12. WiredSession(s)'
  <2>1. Emptied(DownOf(s), UpOf(s)', ExecOf(s), PageOf(s))
    BY <1>1, <1>2, <1>9 DEF WiredSession, Wired, Emptied
  <2>2. exec[s].st # "none"
    BY DEF ExecWrite, Running
  <2>3. Opened(hops, StOf(s), exec'[s])
    BY <1>1, <1>11, <2>2 DEF WiredSession, Wired, Opened
  <2>4. Legged(StOf(s), UpOf(s)', ExecOf(s), PageOf(s), typed[s])
    <3>1. ASSUME NEW i \in Bridges, StOf(s)[i] = "dialing" PROVE UpOf(s)'[i] = <<>>
      <4>1. i \in Legs \ {j}
        BY <1>1, <2>2, <3>1 DEF WiredSession, Wired, Opened, Bridges, Legs
      <4> QED BY <1>1, <1>9, <3>1, <4>1 DEF WiredSession, Wired, Legged
    <3> QED BY <1>1, <3>1 DEF WiredSession, Wired, Legged
  <2> QED BY <1>1, <1>8, <1>10, <2>1, <2>3, <2>4
          DEF WiredSession, Wired, LegsBecome, BridgesBecome
<1>13. OutFlow(s)'
  <2> SUFFICES ASSUME hasty = 0 PROVE OutFlow(s)'
    BY <1>1 DEF OutFlow
  <2>1. PICK q2 : q2 = UpOf(s)'
    OBVIOUS
  <2>2. Flow("output", 1, hops, UpOf(s), OutOf(s), PageOf(s), Shut(hops, StOf(s)),
             exec[s].wrote, ShownUpTo(s, Len(shown)))
    BY DEF Good, OutFlow
  <2>3. ShownUpTo(s, Len(shown)) \in Nat
    BY ShownCounts DEF PageShape
  <2>4. First(1, hops) = j
    BY <1>1, Ways
  <2>5. q2 = [UpOf(s) EXCEPT ![j] = Append(@, f)]
    BY <1>5, <1>8, <2>1 DEF LegsBecome
  <2>6. Flow("output", 1, hops, q2, OutOf(s), PageOf(s), Shut(hops, StOf(s)),
             exec[s].wrote + 1, ShownUpTo(s, Len(shown)))
    <3> HIDE DEF j
    <3> QED BY <1>2, <1>4, <2>2, <2>3, <2>4, <2>5, SessionTypes, FlowFeed
  <2> QED BY <1>1, <1>8, <1>10, <1>11, <2>1, <2>6
          DEF Good, OutFlow, LegsBecome, BridgesBecome, ShownUpTo, Shows, page
<1>14. InFlow(s)'
  BY <1>1, <1>8, <1>10, <1>11 DEF Good, InFlow, LegsBecome, BridgesBecome
<1>15. Socked(s)'
  BY <1>1, <1>8, <1>10 DEF Good, Socked, LegsBecome, BridgesBecome, page
<1>16. Elsewhere(s)
  BY <1>1, <1>8, <1>11 DEF Elsewhere, LegsBecome
<1> QED BY <1>1, <1>8, <1>11, <1>12, <1>13, <1>14, <1>15, <1>16
        DEF PathStep, Good, LegsBecome, PathShape

\* It exits.
LEMMA ExecExitStep ==
    ASSUME PageShape, PathShape, NEW s \in Sockets, Good(s), ExecExit(s)
    PROVE  PathStep(s)
<1> DEFINE j == hops + 1
<1>1. /\ hops \in Bridges /\ j \in Legs /\ WiredSession(s)
      /\ leg' = [leg EXCEPT ![s][j] = DropExecSide(@)]
      /\ exec' = [exec EXCEPT ![s].st = "gone"]
      /\ UNCHANGED <<page, hops, bridge, typed, hasty>>
      /\ exec[s] \in Exec /\ exec \in [Sockets -> Exec] /\ exec[s].st = "running"
  BY SessionTypes, Ways DEF ExecExit, Running, Good, PathShape, ghosts
<1>2. LegsBecome(s, [DownOf(s) EXCEPT ![j] = <<>>], UpOf(s), ExecOf(s) \ {j}, PageOf(s))
  BY <1>1, ExecDropped
<1>3. /\ \A i \in Legs \ {j} : DownOf(s)'[i] = DownOf(s)[i]
      /\ DownOf(s)'[j] = <<>>
  BY <1>1, <1>2, Viewed DEF LegsBecome
<1>4. BridgesBecome(s, InOf(s), OutOf(s), StOf(s))
  BY <1>1 DEF BridgesBecome, PathShape, InOf, OutOf, StOf
<1>5. /\ exec' \in [Sockets -> Exec] /\ \A r \in Sockets \ {s} : exec'[r] = exec[r]
      /\ exec'[s].st = "gone" /\ exec'[s].wrote = exec[s].wrote
      /\ exec'[s].read = exec[s].read
  BY <1>1 DEF Exec
<1>6. WiredSession(s)'
  <2>1. Emptied(DownOf(s)', UpOf(s), ExecOf(s)', PageOf(s))
    BY <1>1, <1>2, <1>3 DEF WiredSession, Wired, Emptied, LegsBecome
  <2>2. Opened(hops, StOf(s), exec'[s])
    BY <1>1, <1>5 DEF WiredSession, Wired, Opened
  <2>3. Legged(StOf(s), UpOf(s), ExecOf(s)', PageOf(s), typed[s])
    BY <1>1, <1>2 DEF WiredSession, Wired, Legged, LegsBecome
  <2>4. DownOf(s)'[j] \in Seq(Keystroke)
    BY <1>3
  <2> QED BY <1>1, <1>2, <1>4, <2>1, <2>2, <2>3, <2>4
          DEF WiredSession, Wired, LegsBecome, BridgesBecome
<1>7. InFlow(s)'
  <2>1. PICK q2 : q2 = DownOf(s)'
    OBVIOUS
  <2>2. Flow("stdin", 0, hops, DownOf(s), InOf(s), ExecOf(s), Shut(hops, StOf(s)),
             typed[s], Len(exec[s].read))
    BY DEF Good, InFlow
  <2>3. q2 = [DownOf(s) EXCEPT ![j] = <<>>]
    BY <1>2, <2>1 DEF LegsBecome
  <2>4. Flow("stdin", 0, hops, q2, InOf(s), ExecOf(s) \ {j}, Shut(hops, StOf(s)),
             typed[s], Len(exec[s].read))
    <3>1. j \in Legs
      BY <1>1
    <3> HIDE DEF j
    <3> QED BY <2>2, <2>3, <3>1, SessionTypes, FlowCut
  <2> QED BY <1>1, <1>2, <1>4, <1>5, <2>1, <2>4 DEF Good, InFlow, LegsBecome, BridgesBecome
<1>8. OutFlow(s)'
  BY <1>1, <1>2, <1>4, <1>5
     DEF Good, OutFlow, LegsBecome, BridgesBecome, ShownUpTo, Shows, page
<1>9. Socked(s)'
  BY <1>1, <1>2, <1>4 DEF Good, Socked, LegsBecome, BridgesBecome, page
<1>10. Elsewhere(s)
  BY <1>1, <1>2, <1>5 DEF Elsewhere, LegsBecome
<1> QED BY <1>1, <1>2, <1>5, <1>6, <1>7, <1>8, <1>9, <1>10
        DEF PathStep, Good, LegsBecome, PathShape

-----------------------------------------------------------------------------
(* What the steps of the page do to a session *)

\* Good but for what it has to do with its socket.
Flows(s) == WiredSession(s) /\ InFlow(s) /\ OutFlow(s)

\* Legs of a session, the page's end of the first one dropped.
Cut(l) == [l EXCEPT ![1] = DropPageSide(@)]

\* A session whose path stays as it is.
LEMMA KeptFlows ==
    ASSUME NEW s \in Sockets, Flows(s), leg'[s] = leg[s], bridge'[s] = bridge[s],
           exec'[s] = exec[s], typed'[s] = typed[s], UNCHANGED <<hops, shown, hasty>>
    PROVE  Flows(s)' /\ PageOf(s)' = PageOf(s) /\ StOf(s)' = StOf(s)
<1>1. SameLegs(s) /\ SameBridges(s)
  BY LegsSame, BridgesSame
<1>2. WiredSession(s)'
  BY <1>1 DEF Flows, WiredSession, SameLegs, SameBridges
<1>3. InFlow(s)'
  BY <1>1 DEF Flows, InFlow, SameLegs, SameBridges
<1>4. OutFlow(s)'
  BY <1>1 DEF Flows, OutFlow, SameLegs, SameBridges, ShownUpTo, Shows
<1> QED BY <1>1, <1>2, <1>3, <1>4 DEF Flows, SameLegs, SameBridges

\* The page's end of the first leg is dropped, and with it what came to it.
LEMMA CutViews ==
    ASSUME PathShape, NEW s \in Sockets, leg'[s] = Cut(leg[s])
    PROVE  /\ leg'[s] \in [Legs -> Leg]
           /\ DownOf(s)' = DownOf(s) /\ UpOf(s)' = [UpOf(s) EXCEPT ![1] = <<>>]
           /\ ExecOf(s)' = ExecOf(s) /\ PageOf(s)' = PageOf(s) \ {1}
<1>1. 1 \in Legs
  BY DEF Legs
<1>2. PICK l : l = leg[s]
  OBVIOUS
<1>3. PICK l2 : l2 = leg'[s]
  OBVIOUS
<1>4. PICK x : x = DropPageSide(l[1])
  OBVIOUS
<1>5. l \in [Legs -> Leg]
  BY <1>2 DEF PathShape
<1>6. /\ x \in Leg /\ x.up = <<>> /\ x.down = l[1].down
      /\ ~x.pageSide /\ (x.execSide <=> l[1].execSide)
  <2>1. l[1] \in Leg /\ l[1].execSide \in BOOLEAN /\ l[1].down \in InQueue
    BY <1>1, <1>5 DEF Leg
  <2>2. x = [down |-> l[1].down, up |-> <<>>, pageSide |-> FALSE, execSide |-> l[1].execSide]
    BY <1>4, <2>1, LegFields, NewLegs
  <2>3. x \in Leg /\ x.up = <<>> /\ x.down = l[1].down
    BY <2>1, <2>2, NewLegs DEF Leg
  <2>4. ~x.pageSide /\ (x.execSide <=> l[1].execSide)
    BY <2>2, Zenon
  <2> QED BY <2>3, <2>4
<1>7. l2 = [l EXCEPT ![1] = x]
  BY <1>2, <1>3, <1>4 DEF Cut
<1>8. x \in Leg
  BY <1>6
<1>9. l2 \in [Legs -> Leg] /\ l2[1] = x /\ \A i \in Legs \ {1} : l2[i] = l[i]
  BY <1>1, <1>5, <1>7, <1>8
<1>10. /\ Downs(l2) = [Downs(l) EXCEPT ![1] = x.down]
       /\ Ups(l2) = [Ups(l) EXCEPT ![1] = x.up]
       /\ ExecEnds(l2) = IF x.execSide THEN ExecEnds(l) \union {1} ELSE ExecEnds(l) \ {1}
       /\ PageEnds(l2) = IF x.pageSide THEN PageEnds(l) \union {1} ELSE PageEnds(l) \ {1}
  BY <1>1, <1>5, <1>8, <1>9, LegViews
<1>11. Downs(l2) = Downs(l)
  <2>1. Downs(l)[1] = x.down /\ Downs(l) = [i \in Legs |-> l[i].down]
    BY <1>1, <1>6 DEF Downs
  <2> QED BY <1>10, <2>1
<1>12. Ups(l2) = [Ups(l) EXCEPT ![1] = <<>>]
  BY <1>6, <1>10
<1>13. ExecEnds(l2) = ExecEnds(l) /\ PageEnds(l2) = PageEnds(l) \ {1}
  <2>1. 1 \in ExecEnds(l) <=> l[1].execSide
    BY <1>1 DEF ExecEnds
  <2> QED BY <1>6, <1>10, <2>1
<1> QED BY <1>2, <1>3, <1>9, <1>11, <1>12, <1>13 DEF DownOf, UpOf, ExecOf, PageOf

\* A session the page leaves, on its side of the first leg.
LEMMA CutFlows ==
    ASSUME PageShape, PathShape, NEW s \in Sockets, Flows(s), leg'[s] = Cut(leg[s]),
           UNCHANGED <<hops, bridge, exec, typed, shown, hasty>>
    PROVE  /\ Flows(s)' /\ leg'[s] \in [Legs -> Leg]
           /\ PageOf(s)' = PageOf(s) \ {1} /\ StOf(s)' = StOf(s)
<1>1. /\ DownOf(s)' = DownOf(s) /\ UpOf(s)' = [UpOf(s) EXCEPT ![1] = <<>>]
      /\ ExecOf(s)' = ExecOf(s) /\ PageOf(s)' = PageOf(s) \ {1}
      /\ leg'[s] \in [Legs -> Leg]
  BY CutViews
<1>2. SameBridges(s)
  BY BridgesSame
<1>3. 1 \in Legs
  BY DEF Legs
<1>4. UpOf(s)'[1] = <<>> /\ \A i \in Legs \ {1} : UpOf(s)'[i] = UpOf(s)[i]
  BY <1>1, <1>3, Viewed
<1>5. WiredSession(s)'
  <2>1. WiredSession(s)
    BY DEF Flows
  <2>2. Emptied(DownOf(s)', UpOf(s)', ExecOf(s)', PageOf(s)')
    BY <1>1, <1>4, <2>1 DEF WiredSession, Wired, Emptied
  <2>3. Legged(StOf(s), UpOf(s)', ExecOf(s), PageOf(s)', typed[s])
    <3>1. \A i \in Bridges : StOf(s)[i] = "dialing" => UpOf(s)'[i] = <<>>
      <4>1. \A i \in Bridges : i \in Legs
        BY Ways
      <4> QED BY <1>4, <2>1, <4>1 DEF WiredSession, Wired, Legged
    <3> QED BY <1>1, <2>1, <3>1 DEF WiredSession, Wired, Legged
  <2> QED BY <1>1, <1>2, <2>1, <2>2, <2>3 DEF WiredSession, Wired, SameBridges
<1>6. InFlow(s)'
  BY <1>1, <1>2 DEF Flows, InFlow, SameBridges
<1>7. OutFlow(s)'
  <2> SUFFICES ASSUME hasty = 0 PROVE OutFlow(s)'
    BY DEF OutFlow
  <2>1. PICK q2 : q2 = UpOf(s)'
    OBVIOUS
  <2>2. Flow("output", 1, hops, UpOf(s), OutOf(s), PageOf(s), Shut(hops, StOf(s)),
             exec[s].wrote, ShownUpTo(s, Len(shown)))
    BY DEF Flows, OutFlow
  <2>3. ShownUpTo(s, Len(shown)) \in Nat
    BY ShownCounts DEF PageShape
  <2>4. q2 = [UpOf(s) EXCEPT ![1] = <<>>]
    BY <1>1, <2>1
  <2>5. Flow("output", 1, hops, q2, OutOf(s), PageOf(s) \ {1}, Shut(hops, StOf(s)),
             exec[s].wrote, ShownUpTo(s, Len(shown)))
    BY <1>3, <2>2, <2>3, <2>4, SessionTypes, FlowCut
  <2> QED BY <1>1, <1>2, <2>1, <2>5 DEF Flows, OutFlow, SameBridges, ShownUpTo, Shows
<1> QED BY <1>1, <1>2, <1>5, <1>6, <1>7 DEF Flows, SameBridges

\* Dropping it again changes nothing.
LEMMA CutTwice ==
    ASSUME NEW l \in [Legs -> Leg]
    PROVE  Cut(Cut(l)) = Cut(l)
<1>1. 1 \in Legs
  BY DEF Legs
<1>2. l[1] \in Leg
  BY <1>1
<1>3. PICK x : x = DropPageSide(l[1])
  OBVIOUS
<1>4. x = [down |-> l[1].down, up |-> <<>>, pageSide |-> FALSE, execSide |-> l[1].execSide]
  BY <1>2, <1>3, LegFields, NewLegs
<1>5. x \in Leg
  BY <1>2, <1>4, NewLegs DEF Leg
<1>6. DropPageSide(x) = [down |-> x.down, up |-> <<>>, pageSide |-> FALSE, execSide |-> x.execSide]
  BY <1>5, LegFields, NewLegs
<1>7. PICK e : e = l[1].execSide
  OBVIOUS
<1>8. x = [down |-> l[1].down, up |-> <<>>, pageSide |-> FALSE, execSide |-> e]
  BY <1>4, <1>7
<1>9. x.down = l[1].down /\ x.execSide = e
  BY <1>8, Zenon
<1>10. DropPageSide(x) = x
  BY <1>6, <1>8, <1>9, Zenon
<1> QED BY <1>1, <1>3, <1>10 DEF Cut

\* A frame the page sends.
LEMMA SentViews ==
    ASSUME PathShape, NEW s \in Sockets, NEW f \in InFrame, Len(leg[s][1].down) < Buf,
           leg' = Sent(s, f),
           NEW d, d = IF 1 \in ExecOf(s) THEN Append(DownOf(s)[1], f) ELSE DownOf(s)[1]
    PROVE  /\ d \in InQueue
           /\ LegsBecome(s, [DownOf(s) EXCEPT ![1] = d], UpOf(s), ExecOf(s), PageOf(s))
<1>1. 1 \in Legs
  BY DEF Legs
<1>2. /\ DownOf(s)[1] = leg[s][1].down /\ DownOf(s)[1] \in InQueue
      /\ 1 \in ExecOf(s) <=> leg[s][1].execSide
  BY <1>1, Viewed
<1>3. d \in InQueue
  BY <1>2, InQueueOps
<1>4. leg' = [leg EXCEPT ![s][1].down = d]
  BY <1>2 DEF Sent
<1>5. LegsBecome(s, [DownOf(s) EXCEPT ![1] = d], UpOf(s), ExecOf(s), PageOf(s))
  BY <1>1, <1>3, <1>4, DownSet
<1> QED BY <1>3, <1>5

\* A frame of the page keeps the session wired.
LEMMA SentWired ==
    ASSUME PageShape, PathShape, NEW s \in Sockets, WiredSession(s), NEW f \in InFrame,
           NEW d, d = IF 1 \in ExecOf(s) THEN Append(DownOf(s)[1], f) ELSE DownOf(s)[1],
           LegsBecome(s, [DownOf(s) EXCEPT ![1] = d], UpOf(s), ExecOf(s), PageOf(s)),
           UNCHANGED <<hops, bridge, exec>>,
           typed'[s] = typed[s] \/ StOf(s)[1] # "none"
    PROVE  WiredSession(s)'
<1>1. 1 \in Legs /\ hops + 1 \in Legs /\ hops + 1 # 1
  BY DEF Legs, PageShape, Bridges
<1>2. SameBridges(s)
  BY BridgesSame
<1>3. DownOf(s)'[1] = d /\ \A i \in Legs \ {1} : DownOf(s)'[i] = DownOf(s)[i]
  BY <1>1, Viewed DEF LegsBecome
<1>4. Emptied(DownOf(s)', UpOf(s), ExecOf(s), PageOf(s))
  BY <1>3 DEF WiredSession, Wired, Emptied
<1>5. Legged(StOf(s), UpOf(s), ExecOf(s), PageOf(s), typed'[s])
  BY DEF WiredSession, Wired, Legged
<1>6. DownOf(s)'[hops + 1] \in Seq(Keystroke)
  BY <1>1, <1>3 DEF WiredSession, Wired
<1> QED BY <1>2, <1>4, <1>5, <1>6 DEF WiredSession, Wired, SameBridges, LegsBecome

\* The size of the terminal.
LEMMA SizeFlows ==
    ASSUME PageShape, PathShape, NEW s \in Sockets, Flows(s), NEW n \in Nat,
           Len(leg[s][1].down) < Buf, leg' = Sent(s, SizeFrame(n)),
           UNCHANGED <<hops, bridge, exec, typed, shown, hasty>>
    PROVE  /\ Flows(s)' /\ leg' \in [Sockets -> [Legs -> Leg]]
           /\ \A r \in Sockets \ {s} : leg'[r] = leg[r]
           /\ PageOf(s)' = PageOf(s) /\ StOf(s)' = StOf(s)
<1>1. PICK f : f = SizeFrame(n)
  OBVIOUS
<1>2. f \in InFrame /\ f \in Frame /\ f.kind = "size" /\ leg' = Sent(s, f) /\ 1 \in Legs
  BY <1>1, InFrames DEF SizeFrame, InFrame, Legs
<1>3. PICK d : d = IF 1 \in ExecOf(s) THEN Append(DownOf(s)[1], f) ELSE DownOf(s)[1]
  OBVIOUS
<1>4. LegsBecome(s, [DownOf(s) EXCEPT ![1] = d], UpOf(s), ExecOf(s), PageOf(s))
  BY <1>2, <1>3, SentViews
<1>5. SameBridges(s)
  BY BridgesSame
<1>6. WiredSession(s)'
  BY <1>2, <1>3, <1>4, SentWired DEF Flows
<1>7. InFlow(s)'
  <2>1. PICK q2 : q2 = DownOf(s)'
    OBVIOUS
  <2>2. Flow("stdin", 0, hops, DownOf(s), InOf(s), ExecOf(s), Shut(hops, StOf(s)),
             typed[s], Len(exec[s].read))
    BY DEF Flows, InFlow
  <2>3. q2 = [DownOf(s) EXCEPT ![1] = d]
    BY <1>4, <2>1 DEF LegsBecome
  <2>4. Flow("stdin", 0, hops, q2, InOf(s), ExecOf(s), Shut(hops, StOf(s)),
             typed[s], Len(exec[s].read))
    <3>1. CASE 1 \in ExecOf(s)
      <4>1. q2 = [DownOf(s) EXCEPT ![1] = Append(@, f)] /\ f.kind # "stdin"
        BY <1>2, <1>3, <2>3, <3>1
      <4> QED BY <1>2, <2>2, <4>1, SessionTypes, FlowOther
    <3>2. CASE 1 \notin ExecOf(s)
      <4>1. q2 = DownOf(s)
        BY <1>2, <1>3, <2>3, <3>2, Viewed
      <4> QED BY <2>2, <4>1
    <3> QED BY <3>1, <3>2
  <2> QED BY <1>4, <1>5, <2>1, <2>4 DEF Flows, InFlow, LegsBecome, SameBridges
<1>8. OutFlow(s)'
  BY <1>4, <1>5 DEF Flows, OutFlow, LegsBecome, SameBridges, ShownUpTo, Shows
<1> QED BY <1>4, <1>5, <1>6, <1>7, <1>8 DEF Flows, LegsBecome, SameBridges

\* A keystroke.
LEMMA TypeFlows ==
    ASSUME PageShape, PathShape, NEW s \in Sockets, Flows(s), StOf(s)[1] # "none",
           Len(leg[s][1].down) < Buf, typed' = [typed EXCEPT ![s] = @ + 1],
           leg' = Sent(s, [kind |-> "stdin", n |-> typed'[s]]),
           UNCHANGED <<hops, bridge, exec, shown, hasty>>
    PROVE  /\ Flows(s)' /\ leg' \in [Sockets -> [Legs -> Leg]]
           /\ \A r \in Sockets \ {s} : leg'[r] = leg[r]
           /\ PageOf(s)' = PageOf(s) /\ StOf(s)' = StOf(s)
<1>0. typed'[s] = typed[s] + 1 /\ typed[s] \in Nat /\ typed[s] + 1 \in Nat
  BY DEF PageShape
<1>1. PICK f : f = [kind |-> "stdin", n |-> typed[s] + 1]
  OBVIOUS
<1>2. /\ f \in InFrame /\ f \in Frame /\ f.kind = "stdin" /\ f.n = typed[s] + 1
      /\ leg' = Sent(s, f) /\ 1 \in Legs
  <2>1. f \in InFrame /\ f.kind = "stdin" /\ f.n = typed[s] + 1
    BY <1>0, <1>1 DEF InFrame
  <2>2. leg' = Sent(s, f)
    BY <1>0, <1>1
  <2> QED BY <2>1, <2>2, InFrames DEF Legs
<1>3. PICK d : d = IF 1 \in ExecOf(s) THEN Append(DownOf(s)[1], f) ELSE DownOf(s)[1]
  OBVIOUS
<1>4. LegsBecome(s, [DownOf(s) EXCEPT ![1] = d], UpOf(s), ExecOf(s), PageOf(s))
  BY <1>2, <1>3, SentViews
<1>5. SameBridges(s)
  BY BridgesSame
<1>6. WiredSession(s)'
  BY <1>2, <1>3, <1>4, SentWired DEF Flows
<1>7. InFlow(s)'
  <2>1. PICK q2 : q2 = DownOf(s)'
    OBVIOUS
  <2>2. Flow("stdin", 0, hops, DownOf(s), InOf(s), ExecOf(s), Shut(hops, StOf(s)),
             typed[s], Len(exec[s].read))
    BY DEF Flows, InFlow
  <2>3. q2 = [DownOf(s) EXCEPT ![1] = d] /\ First(0, hops) = 1
    BY <1>4, <2>1, Ways DEF LegsBecome, PageShape
  <2>4. IF First(0, hops) \in ExecOf(s)
          THEN q2 = [DownOf(s) EXCEPT ![First(0, hops)] = Append(@, f)]
          ELSE q2 = DownOf(s)
    <3>1. CASE 1 \in ExecOf(s)
      BY <1>3, <2>3, <3>1
    <3>2. CASE 1 \notin ExecOf(s)
      <4>1. q2 = DownOf(s)
        BY <1>2, <1>3, <2>3, <3>2, Viewed
      <4> QED BY <2>3, <3>2, <4>1
    <3> QED BY <3>1, <3>2
  <2>5. Flow("stdin", 0, hops, q2, InOf(s), ExecOf(s), Shut(hops, StOf(s)),
             typed[s] + 1, Len(exec[s].read))
    BY <1>2, <2>2, <2>4, SessionTypes, FlowFeed
  <2> QED BY <1>0, <1>4, <1>5, <2>1, <2>5 DEF Flows, InFlow, LegsBecome, SameBridges
<1>8. OutFlow(s)'
  BY <1>4, <1>5 DEF Flows, OutFlow, LegsBecome, SameBridges, ShownUpTo, Shows
<1> QED BY <1>4, <1>5, <1>6, <1>7, <1>8 DEF Flows, LegsBecome, SameBridges

\* The output of session s in what is shown, and that it is numbered.
ShowsIn(q, s, i) == q[i][1] = s /\ q[i][2].kind = "output"
CountIn(q, s, n) == Cardinality({i \in 1 .. n : ShowsIn(q, s, i)})
Numbered(q, s) == \A i \in DOMAIN q : ShowsIn(q, s, i) => q[i][2].n = CountIn(q, s, i)

\* OutFlow in terms of the sequence that is shown.
LEMMA OutFlowViews ==
    ASSUME NEW s \in Sockets
    PROVE  OutFlow(s) <=>
             (hasty = 0 =>
               /\ Numbered(shown, s)
               /\ Flow("output", 1, hops, UpOf(s), OutOf(s), PageOf(s), Shut(hops, StOf(s)),
                       exec[s].wrote, CountIn(shown, s, Len(shown))))
BY DEF OutFlow, Numbered, CountIn, ShowsIn, ShownUpTo, Shows

\* Frame f of session s comes after what is shown of session r.
Continues(q, r, s, f) == r = s /\ f.kind = "output" => f.n = CountIn(q, r, Len(q)) + 1
Continued(q2, q, r, s, f) ==
    /\ Len(q2) = Len(q) + 1 /\ Numbered(q2, r)
    /\ CountIn(q2, r, Len(q) + 1) =
         CountIn(q, r, Len(q)) + (IF r = s THEN Weight("output", f) ELSE 0)

\* One more frame on the terminal, the next of its session.
LEMMA CountAppend ==
    ASSUME NEW q \in Seq(Sockets \X Frame), NEW s \in Sockets, NEW r \in Sockets,
           NEW f \in Frame, NEW q2, q2 = Append(q, <<s, f>>),
           Continues(q, r, s, f), Numbered(q, r)
    PROVE  Continued(q2, q, r, s, f)
<1> DEFINE n == Len(q)
           at(i) == {k \in 1 .. i : ShowsIn(q, r, k)}
<1>1. /\ n \in Nat /\ Len(q2) = n + 1 /\ DOMAIN q = 1 .. n /\ DOMAIN q2 = 1 .. n + 1
      /\ q2[n + 1] = <<s, f>> /\ \A i \in 1 .. n : q2[i] = q[i]
  <2>1. <<s, f>> \in Sockets \X Frame
    OBVIOUS
  <2> QED BY <2>1
<1>2. /\ \A i \in 1 .. n : ShowsIn(q2, r, i) <=> ShowsIn(q, r, i)
      /\ ShowsIn(q2, r, n + 1) <=> r = s /\ f.kind = "output"
  BY <1>1 DEF ShowsIn
<1>3. \A i \in 0 .. n : CountIn(q2, r, i) = CountIn(q, r, i)
  <2> TAKE i \in 0 .. n
  <2>1. \A k \in 1 .. i : k \in 1 .. n
    BY <1>1
  <2>2. \A k \in 1 .. i : ShowsIn(q2, r, k) <=> ShowsIn(q, r, k)
    BY <1>2, <2>1
  <2>3. {k \in 1 .. i : ShowsIn(q2, r, k)} = {k \in 1 .. i : ShowsIn(q, r, k)}
    BY <2>2, Zenon
  <2> QED BY <2>3 DEF CountIn
<1>4. IsFiniteSet(at(n)) /\ Cardinality(at(n)) \in Nat /\ n + 1 \notin at(n)
  <2>1. IsFiniteSet(1 .. n)
    BY <1>1, FS_Interval
  <2>2. IsFiniteSet(at(n))
    BY <2>1, FS_Subset
  <2> QED BY <1>1, <2>2, FS_CardinalityType
<1>5. CountIn(q2, r, n + 1) = CountIn(q, r, n) + (IF r = s THEN Weight("output", f) ELSE 0)
  <2> DEFINE all == {k \in 1 .. n + 1 : ShowsIn(q2, r, k)}
  <2>3. /\ 1 .. n + 1 = 1 .. n \union {n + 1}
        /\ \A k \in 1 .. n : k \in all <=> k \in at(n)
        /\ n + 1 \in all <=> (r = s /\ f.kind = "output")
        /\ all \subseteq 1 .. n + 1 /\ at(n) \subseteq 1 .. n
    <3>1. 1 .. n + 1 = 1 .. n \union {n + 1} /\ n + 1 \in 1 .. n + 1
      BY <1>1
    <3>2. \A k \in 1 .. n : ShowsIn(q2, r, k) <=> ShowsIn(q, r, k)
      BY <1>2
    <3>3. ShowsIn(q2, r, n + 1) <=> (r = s /\ f.kind = "output")
      BY <1>2
    <3> HIDE DEF n
    <3> QED BY <3>1, <3>2, <3>3, Zenon
  <2>1. CASE r = s /\ f.kind = "output"
    <3>1. all = at(n) \union {n + 1}
      <4> HIDE DEF all, at
      <4> QED BY <2>1, <2>3
    <3>2. Cardinality(all) = Cardinality(at(n)) + 1
      BY <1>4, <3>1, FS_AddElement
    <3>3. Weight("output", f) = 1
      BY <2>1, FrameAssumption DEF Weight
    <3> QED BY <2>1, <3>2, <3>3 DEF CountIn
  <2>2. CASE ~(r = s /\ f.kind = "output")
    <3>1. all = at(n)
      <4> HIDE DEF all, at
      <4> QED BY <2>2, <2>3
    <3>2. (IF r = s THEN Weight("output", f) ELSE 0) = 0
      BY <2>2 DEF Weight
    <3>3. Cardinality(all) = Cardinality(at(n)) + 0
      <4> HIDE DEF all, at
      <4> QED BY <1>4, <3>1
    <3> QED BY <3>2, <3>3 DEF CountIn
  <2> QED BY <2>1, <2>2
<1>6. Numbered(q2, r)
  <2> SUFFICES ASSUME NEW i \in 1 .. n + 1, ShowsIn(q2, r, i)
               PROVE  q2[i][2].n = CountIn(q2, r, i)
    BY <1>1 DEF Numbered
  <2>1. CASE i = n + 1
    <3>1. r = s /\ f.kind = "output"
      BY <1>2, <2>1
    <3>2. Weight("output", f) = 1
      BY <3>1, FrameAssumption DEF Weight
    <3> QED BY <1>1, <1>5, <2>1, <3>1, <3>2 DEF Continues
  <2>2. CASE i # n + 1
    <3>1. i \in 1 .. n /\ i \in 0 .. n
      BY <1>1, <2>2
    <3> QED BY <1>1, <1>2, <1>3, <3>1 DEF Numbered
  <2> QED BY <2>1, <2>2
<1> QED BY <1>1, <1>5, <1>6 DEF Continued

\* Nothing is shown.
LEMMA NothingShown ==
    ASSUME NEW s
    PROVE  Numbered(<<>>, s) /\ CountIn(<<>>, s, 0) = 0
<1>1. {i \in 1 .. 0 : ShowsIn(<<>>, s, i)} = {}
  OBVIOUS
<1> QED BY <1>1, FS_EmptySet DEF Numbered, CountIn

\* A frame comes to the terminal, which is that of the session as long as
\* nobody was hasty.
LEMMA MessageFlows ==
    ASSUME PageShape, PathShape, NEW s \in Sockets, OnMessage(s), hasty = 0 => hooked[s],
           \A r \in Sockets : Flows(r)
    PROVE  /\ \A r \in Sockets : /\ Flows(r)'
                                 /\ PageOf(r)' = PageOf(r) /\ StOf(r)' = StOf(r)
           /\ leg' \in [Sockets -> [Legs -> Leg]] /\ shown' \in Seq(Sockets \X Frame)
<1>1. 1 \in Legs /\ hops \in Bridges /\ shown \in Seq(Sockets \X Frame)
  BY DEF Legs, PageShape
<1>2. UpOf(s)[1] = leg[s][1].up /\ UpOf(s)[1] # <<>> /\ UpOf(s)[1] \in Queue
  BY <1>1, Viewed DEF OnMessage
<1>3. PICK u, f : u = Tail(UpOf(s)[1]) /\ f = Head(UpOf(s)[1])
  OBVIOUS
<1>4. u \in Queue /\ f \in Frame
  BY <1>2, <1>3, QueueOps
<1>5. leg' = [leg EXCEPT ![s][1].up = u]
  BY <1>2, <1>3 DEF OnMessage
<1>6. LegsBecome(s, DownOf(s), [UpOf(s) EXCEPT ![1] = u], ExecOf(s), PageOf(s))
  BY <1>1, <1>4, <1>5, UpSet
<1>7. /\ UNCHANGED <<hops, bridge, exec, typed, hasty>>
      /\ shown' = IF hooked[s] THEN Append(shown, <<s, f>>) ELSE shown
  BY <1>2, <1>3 DEF OnMessage, ghosts
<1>8. shown' \in Seq(Sockets \X Frame)
  <2>1. <<s, f>> \in Sockets \X Frame
    BY <1>4
  <2> QED BY <1>1, <1>7, <2>1
<1>9. \A r \in Sockets : SameBridges(r)
  BY <1>7, BridgesSame
<1>10. \A r \in Sockets \ {s} : SameLegs(r)
  BY <1>6, LegsSame DEF LegsBecome
<1>11. WiredSession(s)'
  <2>1. WiredSession(s) /\ SameBridges(s)
    BY <1>9 DEF Flows
  <2>2. \A i \in Legs \ {1} : UpOf(s)'[i] = UpOf(s)[i]
    BY <1>6, Viewed DEF LegsBecome
  <2>3. Emptied(DownOf(s), UpOf(s)', ExecOf(s), PageOf(s))
    BY <1>2, <2>1, <2>2 DEF WiredSession, Wired, Emptied
  <2>4. Legged(StOf(s), UpOf(s)', ExecOf(s), PageOf(s), typed[s])
    <3>1. \A i \in Bridges : i \in Legs
      BY Ways
    <3> QED BY <1>2, <2>1, <2>2, <3>1 DEF WiredSession, Wired, Legged
  <2> QED BY <1>6, <1>7, <2>1, <2>3, <2>4
          DEF WiredSession, Wired, LegsBecome, SameBridges
<1>12. \A r \in Sockets \ {s} : WiredSession(r)'
  <2> TAKE r \in Sockets \ {s}
  <2> QED BY <1>7, <1>9, <1>10 DEF Flows, WiredSession, Wired, SameLegs, SameBridges
<1>13. \A r \in Sockets : InFlow(r)'
  <2> TAKE r \in Sockets
  <2>1. DownOf(r)' = DownOf(r) /\ ExecOf(r)' = ExecOf(r)
    BY <1>6, <1>10 DEF LegsBecome, SameLegs
  <2> QED BY <1>7, <1>9, <2>1 DEF Flows, InFlow, SameBridges
<1>14. ASSUME NEW r \in Sockets, hasty = 0 PROVE OutFlow(r)'
  <2>1. PICK q : q = shown
    OBVIOUS
  <2>2. PICK q2 : q2 = shown'
    OBVIOUS
  <2>3. q \in Seq(Sockets \X Frame) /\ q2 = Append(q, <<s, f>>)
    BY <1>1, <1>7, <1>14, <2>1, <2>2
  <2>4. PICK snk : snk = CountIn(q, r, Len(q))
    OBVIOUS
  <2>5. /\ Numbered(q, r)
        /\ Flow("output", 1, hops, UpOf(r), OutOf(r), PageOf(r), Shut(hops, StOf(r)),
                exec[r].wrote, snk)
    BY <1>14, <2>1, <2>4, OutFlowViews DEF Flows
  <2>6. snk \in Nat
    <3>1. ShownUpTo(r, Len(shown)) \in Nat
      BY ShownCounts DEF PageShape
    <3> QED BY <2>1, <2>4, <3>1 DEF ShownUpTo, Shows, CountIn, ShowsIn
  <2>7. PICK snk2 : snk2 = CountIn(q2, r, Len(q2))
    OBVIOUS
  <2>8. /\ Numbered(q2, r)
        /\ Flow("output", 1, hops, UpOf(r)', OutOf(r), PageOf(r), Shut(hops, StOf(r)),
                exec[r].wrote, snk2)
    <3>1. CASE r = s
      <4>1. 1 \in PageOf(s)
        BY <1>1, <1>2 DEF Flows, WiredSession, Wired, Emptied
      <4>2. Final(1, hops) = 1
        BY <1>1, Ways
      <4>3. Expected("output", UpOf(s)[1], snk)
        <5>1. PICK p : p = UpOf(s)[Final(1, hops)]
          OBVIOUS
        <5>2. p # <<>> /\ Final(1, hops) \in PageOf(s)
          BY <1>2, <4>1, <4>2, <5>1
        <5>3. exec[s].wrote \in Nat
          BY SessionTypes
        <5>4. Expected("output", p, snk)
          BY <2>5, <2>6, <3>1, <5>1, <5>2, <5>3, SessionTypes, FlowNext
        <5> QED BY <4>2, <5>1, <5>4
      <4>4. f.kind = "output" => f.n = snk + 1
        BY <1>3, <4>3 DEF Expected
      <4>5. Len(q2) = Len(q) + 1 /\ Numbered(q2, r) /\ snk2 = snk + Weight("output", f)
        <5>1. Continues(q, r, s, f)
          BY <2>4, <4>4 DEF Continues
        <5>2. Continued(q2, q, r, s, f)
          BY <1>4, <2>3, <2>5, <5>1, CountAppend
        <5> QED BY <2>4, <2>7, <3>1, <5>2 DEF Continued
      <4>6. PICK v : v = UpOf(s)'
        OBVIOUS
      <4>7. v = [UpOf(s) EXCEPT ![Final(1, hops)] = Tail(@)]
        BY <1>3, <1>6, <4>2, <4>6 DEF LegsBecome
      <4>8. f = Head(UpOf(s)[Final(1, hops)])
        BY <1>3, <4>2
      <4>9. UpOf(s)[Final(1, hops)] # <<>> /\ Final(1, hops) \in PageOf(s)
        BY <1>2, <4>1, <4>2
      <4>10. Weight("output", f) \in {0, 1}
        BY DEF Weight
      <4>11. snk2 \in Nat
        BY <2>6, <4>5, <4>10
      <4>12. exec[s].wrote \in Nat
        BY SessionTypes
      <4>13. Flow("output", 1, hops, v, OutOf(s), PageOf(s), Shut(hops, StOf(s)),
                  exec[s].wrote, snk2)
        BY <2>5, <2>6, <3>1, <4>5, <4>7, <4>8, <4>9, <4>11, <4>12, SessionTypes, FlowDrain
      <4> QED BY <3>1, <4>5, <4>6, <4>13
    <3>2. CASE r # s
      <4>1. Len(q2) = Len(q) + 1 /\ Numbered(q2, r) /\ snk2 = snk
        <5>1. Continues(q, r, s, f)
          BY <3>2 DEF Continues
        <5>2. Continued(q2, q, r, s, f)
          BY <1>4, <2>3, <2>5, <5>1, CountAppend
        <5> QED BY <2>4, <2>6, <2>7, <3>2, <5>2 DEF Continued
      <4> QED BY <1>10, <2>5, <3>2, <4>1 DEF SameLegs
    <3> QED BY <3>1, <3>2
  <2>9. PageOf(r)' = PageOf(r)
    BY <1>6, <1>10 DEF LegsBecome, SameLegs
  <2>10. /\ Numbered(shown', r)
         /\ Flow("output", 1, hops, UpOf(r)', OutOf(r)', PageOf(r)', Shut(hops, StOf(r)'),
                 exec'[r].wrote, CountIn(shown', r, Len(shown')))
    BY <1>7, <1>9, <2>2, <2>7, <2>8, <2>9 DEF SameBridges
  <2> QED BY <1>7, <2>10 DEF OutFlow, Numbered, CountIn, ShowsIn, ShownUpTo, Shows
<1>15. \A r \in Sockets : OutFlow(r)'
  <2>1. hasty # 0 => \A r \in Sockets : OutFlow(r)'
    BY <1>7 DEF OutFlow
  <2> QED BY <1>14, <2>1
<1>16. \A r \in Sockets : PageOf(r)' = PageOf(r) /\ StOf(r)' = StOf(r)
  BY <1>6, <1>9, <1>10 DEF LegsBecome, SameLegs, SameBridges
<1>17. leg' \in [Sockets -> [Legs -> Leg]]
  BY <1>6 DEF LegsBecome
<1>18. \A r \in Sockets : WiredSession(r)'
  BY <1>11, <1>12
<1> QED BY <1>8, <1>13, <1>15, <1>16, <1>17, <1>18 DEF Flows

\* Another session: the terminal is empty, and nothing is left to come to it.
LEMMA ConnectFlows ==
    ASSUME PageShape, PathShape, NEW s \in Sockets, Flows(s), shown' = <<>>,
           UNCHANGED <<hops, leg, bridge, exec, typed>>,
           hasty' = 0 => hasty = 0 /\ 1 \notin PageOf(s)
    PROVE  Flows(s)' /\ PageOf(s)' = PageOf(s) /\ StOf(s)' = StOf(s)
<1>1. SameLegs(s) /\ SameBridges(s)
  BY LegsSame, BridgesSame
<1>2. WiredSession(s)'
  BY <1>1 DEF Flows, WiredSession, SameLegs, SameBridges
<1>3. InFlow(s)'
  BY <1>1 DEF Flows, InFlow, SameLegs, SameBridges
<1>4. OutFlow(s)'
  <2> SUFFICES ASSUME hasty' = 0 PROVE OutFlow(s)'
    BY DEF OutFlow
  <2>1. hasty = 0 /\ Final(1, hops) \notin PageOf(s)
    BY Ways DEF PageShape
  <2>2. PICK snk : snk = ShownUpTo(s, Len(shown))
    OBVIOUS
  <2>3. Flow("output", 1, hops, UpOf(s), OutOf(s), PageOf(s), Shut(hops, StOf(s)),
             exec[s].wrote, snk)
    BY <2>1, <2>2 DEF Flows, OutFlow
  <2>4. snk \in Nat
    BY <2>2, ShownCounts DEF PageShape
  <2>5. Flow("output", 1, hops, UpOf(s), OutOf(s), PageOf(s), Shut(hops, StOf(s)),
             exec[s].wrote, 0)
    BY <2>1, <2>3, <2>4, SessionTypes, FlowReset
  <2>6. Numbered(shown', s) /\ CountIn(shown', s, Len(shown')) = 0
    BY NothingShown
  <2>7. Flow("output", 1, hops', UpOf(s)', OutOf(s)', PageOf(s)', Shut(hops', StOf(s)'),
             exec'[s].wrote, CountIn(shown', s, Len(shown')))
    BY <1>1, <2>5, <2>6 DEF SameLegs, SameBridges
  <2> QED BY <2>6, <2>7 DEF OutFlow, Numbered, CountIn, ShowsIn, ShownUpTo, Shows
<1> QED BY <1>1, <1>2, <1>3, <1>4 DEF Flows, SameLegs, SameBridges

-----------------------------------------------------------------------------
(* The invariant, and each action of the specification *)

PipeInv ==
    /\ PageShape /\ PathShape /\ Current /\ OneSession
    /\ \A s \in Sockets : Flows(s) /\ Socked(s)

SockStates == {"unused", "connecting", "open", "closing", "closed"}
Active == {"connecting", "open", "closing"}

\* Init: no session has begun.
LEMMA InvInit == Init => PipeInv
<1> SUFFICES ASSUME Init PROVE PipeInv
  OBVIOUS
<1>1. PageShape
  <2>1. <<>> \in Seq(Sockets \X Frame)
    OBVIOUS
  <2>2. /\ hops \in Bridges /\ hooked \in [Sockets -> BOOLEAN] /\ ws \in Sockets \union {NoWs}
        /\ connected \in BOOLEAN /\ readOnly \in [Bridges -> BOOLEAN]
    <3>1. hops \in Bridges
      BY DEF Init, Bridges
    <3>2. connected \in BOOLEAN
      BY DEF Init
    <3>3. hooked \in [Sockets -> BOOLEAN] /\ readOnly \in [Bridges -> BOOLEAN]
      BY DEF Init
    <3>4. ws \in Sockets \union {NoWs}
      BY DEF Init
    <3> QED BY <3>1, <3>2, <3>3, <3>4
  <2>3. /\ sock \in [Sockets -> {"unused", "connecting", "open", "closing", "closed"}]
        /\ size \in Nat /\ hasty \in Nat /\ upsets \in Nat /\ typed \in [Sockets -> Nat]
    BY DEF Init
  <2>4. shown \in Seq(Sockets \X Frame)
    BY <2>1 DEF Init
  <2> QED BY <2>2, <2>3, <2>4 DEF PageShape
<1>2. NoLeg \in Leg /\ NoBridge \in Bridge /\ NoExec \in Exec
  <2>1. NoLeg \in Leg
    BY NewLegs DEF Leg
  <2>2. NoBridge \in Bridge
    BY DEF NoBridge, Bridge, Hand
  <2>3. <<>> \in Seq(Nat)
    OBVIOUS
  <2>4. NoExec \in Exec
    BY <2>3 DEF NoExec, Exec
  <2> QED BY <2>1, <2>2, <2>4
<1>3. PathShape
  BY <1>2 DEF Init, PathShape
<1>4. Current /\ OneSession
  BY DEF Init, Current, OneSession
<1>5. ASSUME NEW s \in Sockets PROVE Flows(s) /\ Socked(s)
  <2>1. /\ \A j \in Legs : leg[s][j] = NoLeg
        /\ \A k \in Bridges : bridge[s][k] = NoBridge
        /\ exec[s] = NoExec /\ typed[s] = 0 /\ shown = <<>> /\ sock[s] = "unused"
        /\ hops \in {1, 2}
    BY DEF Init
  <2>2. \A j \in Legs : DownOf(s)[j] = <<>> /\ UpOf(s)[j] = <<>>
    BY <2>1 DEF DownOf, UpOf, Downs, Ups, NoLeg
  <2>3. ExecOf(s) = {} /\ PageOf(s) = {}
    <3>1. \A j \in Legs : ~leg[s][j].execSide /\ ~leg[s][j].pageSide
      <4>1. ~NoLeg.execSide /\ ~NoLeg.pageSide
        BY NewLegs, Zenon
      <4> QED BY <2>1, <4>1
    <3> QED BY <3>1 DEF ExecOf, PageOf, ExecEnds, PageEnds
  <2>4. \A k \in Bridges : InOf(s)[k] = NoFrame /\ OutOf(s)[k] = NoFrame /\ StOf(s)[k] = "none"
    BY <2>1 DEF InOf, OutOf, StOf, InHands, OutHands, States, NoBridge
  <2>5. /\ exec[s].st = "none" /\ exec[s].read = <<>> /\ exec[s].wrote = 0
        /\ Len(exec[s].read) = 0
    BY <2>1 DEF NoExec
  <2>6. 1 \in Bridges /\ 2 \in Bridges /\ hops + 1 \in Legs
    BY <2>1 DEF Bridges, Legs
  <2>7. WiredSession(s)
    <3>1. Opened(hops, StOf(s), exec[s])
      BY <2>4, <2>5, <2>6 DEF Opened
    <3>2. Hands(StOf(s), InOf(s), OutOf(s))
      BY <2>4 DEF Hands
    <3>3. Legged(StOf(s), UpOf(s), ExecOf(s), PageOf(s), typed[s])
      BY <2>1, <2>3, <2>4 DEF Legged
    <3>4. Emptied(DownOf(s), UpOf(s), ExecOf(s), PageOf(s))
      BY <2>2 DEF Emptied
    <3>5. DownOf(s)[hops + 1] \in Seq(Keystroke)
      <4>1. <<>> \in Seq(Keystroke)
        OBVIOUS
      <4> QED BY <2>2, <2>6, <4>1
    <3> QED BY <3>1, <3>2, <3>3, <3>4, <3>5 DEF WiredSession, Wired
  <2>8. InFlow(s)
    <3>1. Flow("stdin", 0, hops, DownOf(s), InOf(s), {}, Shut(hops, StOf(s)), 0, 0)
      BY <1>1, <1>3, <2>2, <2>3, SessionTypes, FlowInit
    <3> QED BY <2>1, <2>3, <2>5, <3>1 DEF InFlow, Counts
  <2>9. OutFlow(s)
    <3>1. Flow("output", 1, hops, UpOf(s), OutOf(s), {}, Shut(hops, StOf(s)), 0, 0)
      BY <1>1, <1>3, <2>2, <2>3, SessionTypes, FlowInit
    <3>2. Numbered(shown, s) /\ CountIn(shown, s, Len(shown)) = 0
      BY <2>1, NothingShown
    <3> QED BY <2>3, <2>5, <3>1, <3>2, OutFlowViews
  <2>10. Socked(s)
    BY <2>1, <2>3, <2>4, <2>6 DEF Socked
  <2> QED BY <2>7, <2>8, <2>9, <2>10 DEF Flows
<1> QED BY <1>1, <1>3, <1>4, <1>5 DEF PipeInv

\* A step on the path of a session.
LEMMA PathSteps ==
    ASSUME PipeInv, NEW s \in Sockets, PathStep(s), UNCHANGED <<page, hops, typed, hasty>>,
           readOnly' \in [Bridges -> BOOLEAN], upsets' \in Nat
    PROVE  PipeInv'
<1>1. PageShape'
  BY DEF PipeInv, PageShape, page
<1>2. PathShape'
  BY DEF PathStep, PathShape
<1>3. Current' /\ OneSession'
  BY DEF PipeInv, Current, OneSession, page
<1>4. ASSUME NEW r \in Sockets PROVE Flows(r)' /\ Socked(r)'
  <2>1. CASE r = s
    BY <2>1 DEF PathStep, Good, Flows
  <2>2. CASE r # s
    <3>1. leg'[r] = leg[r] /\ bridge'[r] = bridge[r] /\ exec'[r] = exec[r]
      BY <2>2 DEF PathStep, Elsewhere
    <3>2. Flows(r) /\ Socked(r) /\ UNCHANGED <<hops, shown, hasty, sock, typed>>
      BY DEF PipeInv, page
    <3>3. Flows(r)' /\ PageOf(r)' = PageOf(r) /\ StOf(r)' = StOf(r)
      BY <3>1, <3>2, KeptFlows
    <3> QED BY <3>2, <3>3 DEF Socked
  <2> QED BY <2>1, <2>2
<1> QED BY <1>1, <1>2, <1>3, <1>4 DEF PipeInv

\* teardown(), whatever closed a socket of the page before.
LEMMA TeardownStep ==
    ASSUME PipeInv, NEW socks \in [Sockets -> SockStates],
           NEW legs \in [Sockets -> [Legs -> Leg]], Teardown(socks, legs),
           UNCHANGED <<size, shown, hops, bridge, exec, readOnly, typed, hasty>>,
           upsets' \in Nat,
           \A r \in Sockets : \/ socks[r] = sock[r] /\ legs[r] = leg[r]
                              \/ socks[r] = "closed" /\ legs[r] = Cut(leg[r])
                              \/ socks[r] = "closed" /\ legs[r] = leg[r] /\ 1 \notin PageOf(r)
    PROVE  PipeInv'
<1>1. /\ PageShape /\ PathShape /\ OneSession
      /\ sock' = [s \in Sockets |-> IF s = ws THEN "closed" ELSE socks[s]]
      /\ leg' = [s \in Sockets |-> IF s = ws THEN Cut(legs[s]) ELSE legs[s]]
      /\ hooked' = [s \in Sockets |-> hooked[s] /\ s # ws]
      /\ ws' = NoWs /\ connected' = FALSE
  BY DEF PipeInv, Teardown, Cut
<1>2. PageShape'
  <2>1. sock' \in [Sockets -> SockStates]
    BY <1>1 DEF SockStates
  <2>2. hooked' \in [Sockets -> BOOLEAN]
    BY <1>1 DEF PageShape
  <2> QED BY <1>1, <2>1, <2>2 DEF PageShape, SockStates
<1>3. ASSUME NEW r \in Sockets
      PROVE  \/ leg'[r] = leg[r] /\ sock'[r] = sock[r] /\ r # ws
             \/ leg'[r] = leg[r] /\ sock'[r] = "closed" /\ 1 \notin PageOf(r)
             \/ leg'[r] = Cut(leg[r]) /\ sock'[r] = "closed"
  <2>1. Cut(Cut(leg[r])) = Cut(leg[r])
    BY <1>1, CutTwice DEF PathShape
  <2> QED BY <1>1, <2>1
<1>4. ASSUME NEW r \in Sockets
      PROVE  Flows(r)' /\ Socked(r)' /\ leg'[r] \in [Legs -> Leg]
  <2>1. Flows(r) /\ Socked(r) /\ leg[r] \in [Legs -> Leg]
    BY <1>1 DEF PipeInv, PathShape
  <2>2. CASE leg'[r] = leg[r]
    <3>1. Flows(r)' /\ PageOf(r)' = PageOf(r) /\ StOf(r)' = StOf(r)
      BY <2>1, <2>2, KeptFlows
    <3>2. \/ sock'[r] = sock[r]
          \/ sock'[r] = "closed" /\ 1 \notin PageOf(r)
          \/ sock'[r] = "closed" /\ leg[r] = Cut(leg[r])
      BY <1>3, <2>2
    <3>3. leg[r] = Cut(leg[r]) => 1 \notin PageOf(r)
      <4>1. leg'[r] = Cut(leg[r]) => PageOf(r)' = PageOf(r) \ {1}
        BY <1>1, CutViews
      <4> QED BY <2>2, <3>1, <4>1
    <3> QED BY <2>1, <2>2, <3>1, <3>2, <3>3 DEF Socked
  <2>3. CASE leg'[r] = Cut(leg[r]) /\ sock'[r] = "closed"
    <3>1. /\ Flows(r)' /\ leg'[r] \in [Legs -> Leg]
          /\ PageOf(r)' = PageOf(r) \ {1} /\ StOf(r)' = StOf(r)
      BY <1>1, <2>1, <2>3, CutFlows
    <3> QED BY <2>3, <3>1 DEF Socked
  <2> QED BY <1>3, <2>2, <2>3
<1>5. PathShape'
  <2>1. leg' \in [Sockets -> [Legs -> Leg]]
    BY <1>1, <1>4
  <2> QED BY <1>1, <2>1 DEF PathShape
<1>6. Current'
  BY <1>1 DEF Current
<1>7. OneSession'
  <2>1. \A r \in Sockets : sock'[r] \in {"connecting", "open", "closing"} =>
          sock'[r] = sock[r] /\ r # ws
    BY <1>3
  <2> QED BY <1>1, <2>1 DEF OneSession
<1> QED BY <1>2, <1>4, <1>5, <1>6, <1>7 DEF PipeInv

\* A socket is on its way out and the page does not forget it.
LEMMA LeaveStep ==
    ASSUME PipeInv, NEW s \in Sockets, NEW c \in {"closing", "closed"},
           sock[s] \in Active, c = "closed" => s # ws,
           sock' = [sock EXCEPT ![s] = c],
           leg' = [leg EXCEPT ![s] = Cut(leg[s])] \/ (leg' = leg /\ 1 \notin PageOf(s)),
           UNCHANGED <<hooked, ws, connected, size, shown, hops, bridge, exec, readOnly,
                       typed, hasty>>,
           upsets' \in Nat
    PROVE  PipeInv'
<1>1. PageShape /\ PathShape /\ OneSession /\ Current
  BY DEF PipeInv
<1>2. PageShape'
  BY <1>1 DEF PageShape
<1>3. /\ sock'[s] = c /\ \A r \in Sockets \ {s} : sock'[r] = sock[r] /\ leg'[r] = leg[r]
      /\ leg'[s] = Cut(leg[s]) \/ (leg'[s] = leg[s] /\ 1 \notin PageOf(s))
  BY <1>1 DEF PageShape, PathShape
<1>4. ASSUME NEW r \in Sockets
      PROVE  Flows(r)' /\ Socked(r)' /\ leg'[r] \in [Legs -> Leg]
  <2>1. Flows(r) /\ Socked(r) /\ leg[r] \in [Legs -> Leg]
    BY <1>1 DEF PipeInv, PathShape
  <2>2. CASE leg'[r] = leg[r] /\ (r = s => 1 \notin PageOf(r))
    <3>1. Flows(r)' /\ PageOf(r)' = PageOf(r) /\ StOf(r)' = StOf(r)
      BY <2>1, <2>2, KeptFlows
    <3> QED BY <1>3, <2>1, <2>2, <3>1 DEF Socked
  <2>3. CASE r = s /\ leg'[r] = Cut(leg[r])
    <3>1. /\ Flows(r)' /\ leg'[r] \in [Legs -> Leg]
          /\ PageOf(r)' = PageOf(r) \ {1} /\ StOf(r)' = StOf(r)
      BY <1>1, <2>1, <2>3, CutFlows
    <3> QED BY <1>3, <2>3, <3>1 DEF Socked
  <2> QED BY <1>3, <2>2, <2>3
<1>5. PathShape'
  <2>1. leg' \in [Sockets -> [Legs -> Leg]]
    <3>1. CASE leg' = leg
      BY <1>1, <3>1 DEF PathShape
    <3>2. CASE leg' = [leg EXCEPT ![s] = Cut(leg[s])]
      <4>1. PICK x : x = Cut(leg[s])
        OBVIOUS
      <4>2. leg \in [Sockets -> [Legs -> Leg]] /\ leg'[s] = x
        BY <1>1, <3>2, <4>1 DEF PathShape
      <4>3. x \in [Legs -> Leg]
        BY <1>4, <4>2
      <4> QED BY <3>2, <4>1, <4>2, <4>3
    <3> QED BY <3>1, <3>2
  <2> QED BY <1>1, <2>1 DEF PathShape
<1>6. Current'
  BY <1>1, <1>3 DEF Current, PageShape
<1>7. OneSession'
  BY <1>1, <1>3 DEF OneSession, Active
<1> QED BY <1>2, <1>4, <1>5, <1>6, <1>7 DEF PipeInv

\* connect(): another session and an empty terminal.
LEMMA ConnectStep ==
    ASSUME PipeInv, Connect
    PROVE  PipeInv'
<1>1. PICK s \in Sockets :
        /\ sock[s] = "unused" /\ \A r \in Sockets : r < s => sock[r] # "unused"
        /\ sock' = [sock EXCEPT ![s] = "connecting"]
        /\ hooked' = [hooked EXCEPT ![s] = TRUE] /\ ws' = s
  BY DEF Connect
<1>2. /\ shown' = <<>>
      /\ UNCHANGED <<connected, size, hops, leg, bridge, exec, readOnly, typed, upsets>>
  BY DEF Connect, path
<1>3. PageShape /\ PathShape /\ OneSession /\ Current
  BY DEF PipeInv
<1>4. hasty' \in Nat /\ (hasty' = 0 => hasty = 0 /\ ws = NoWs)
  <2>1. hasty \in Nat
    BY <1>3 DEF PageShape
  <2>2. CASE ws = NoWs
    BY <2>1, <2>2 DEF Connect
  <2>3. CASE ws # NoWs
    <3>1. hasty' = hasty + 1
      BY <2>3 DEF Connect
    <3> QED BY <2>1, <3>1
  <2> QED BY <2>2, <2>3
<1>5. ASSUME hasty' = 0, NEW r \in Sockets
      PROVE  sock[r] \notin {"connecting", "open", "closing"}
  BY <1>3, <1>4, <1>5, TerminalAssumption DEF OneSession
<1>6. PageShape'
  <2>1. <<>> \in Seq(Sockets \X Frame)
    OBVIOUS
  <2>2. shown' \in Seq(Sockets \X Frame)
    BY <1>2, <2>1
  <2>3. /\ sock' \in [Sockets -> {"unused", "connecting", "open", "closing", "closed"}]
        /\ hooked' \in [Sockets -> BOOLEAN] /\ ws' \in Sockets \union {NoWs}
    BY <1>1, <1>3 DEF PageShape
  <2> QED BY <1>2, <1>3, <1>4, <2>2, <2>3 DEF PageShape
<1>7. PathShape'
  BY <1>2, <1>3 DEF PathShape
<1>8. /\ sock'[s] = "connecting" /\ hooked'[s] = TRUE
      /\ \A r \in Sockets \ {s} : sock'[r] = sock[r]
  BY <1>1, <1>3 DEF PageShape
<1>9. Current'
  BY <1>1, <1>8 DEF Current
<1>10. OneSession'
  <2>1. \A i \in DOMAIN shown' : FALSE
    BY <1>2
  <2>2. ASSUME hasty' = 0, NEW r \in Sockets, sock'[r] \in {"connecting", "open", "closing"}
        PROVE  r = ws'
    BY <1>1, <1>5, <1>8, <2>2
  <2> QED BY <2>1, <2>2 DEF OneSession
<1>11. ASSUME NEW r \in Sockets PROVE Flows(r)' /\ Socked(r)'
  <2>1. Flows(r) /\ Socked(r)
    BY DEF PipeInv
  <2>2. hasty' = 0 => hasty = 0 /\ 1 \notin PageOf(r)
    BY <1>4, <1>5, <2>1 DEF Socked
  <2>3. Flows(r)' /\ PageOf(r)' = PageOf(r) /\ StOf(r)' = StOf(r)
    BY <1>2, <1>3, <2>1, <2>2, ConnectFlows
  <2> QED BY <1>8, <2>1, <2>3 DEF Socked
<1> QED BY <1>6, <1>7, <1>9, <1>10, <1>11 DEF PipeInv

\* The button connects or disconnects.
LEMMA ClickStep ==
    ASSUME PipeInv, Click
    PROVE  PipeInv'
<1>1. CASE Connect
  BY <1>1, ConnectStep
<1>2. CASE /\ Teardown(sock, leg)
           /\ UNCHANGED <<size, shown, hops, bridge, exec, readOnly, ghosts>>
  <2>1. PICK socks, legs : socks = sock /\ legs = leg
    OBVIOUS
  <2>2. socks \in [Sockets -> SockStates] /\ legs \in [Sockets -> [Legs -> Leg]]
    BY <2>1 DEF PipeInv, PageShape, PathShape, SockStates
  <2>3. \A r \in Sockets : socks[r] = sock[r] /\ legs[r] = leg[r]
    BY <2>1
  <2>4. /\ Teardown(socks, legs) /\ upsets' \in Nat
        /\ UNCHANGED <<size, shown, hops, bridge, exec, readOnly, typed, hasty>>
    BY <1>2, <2>1 DEF ghosts, PipeInv, PageShape
  <2> QED BY <2>2, <2>3, <2>4, TeardownStep
<1> QED BY <1>1, <1>2 DEF Click

\* The page sends a frame on its current socket, or only notes the size.
LEMMA SendStep ==
    ASSUME PipeInv, leg' \in [Sockets -> [Legs -> Leg]], size' \in Nat,
           typed' \in [Sockets -> Nat], NEW c \in Sockets,
           Flows(c)', PageOf(c)' = PageOf(c), StOf(c)' = StOf(c),
           \A r \in Sockets \ {c} : leg'[r] = leg[r] /\ typed'[r] = typed[r],
           NEW socks \in [Sockets -> SockStates], sock' = socks,
           \A r \in Sockets : \/ socks[r] = sock[r]
                              \/ /\ sock[r] = "connecting" /\ StOf(r)[1] # "none"
                                 /\ socks[r] = "open",
           connected' \in BOOLEAN,
           UNCHANGED <<hooked, ws, shown, hops, bridge, exec, readOnly, hasty, upsets>>
    PROVE  PipeInv'
<1>1. PageShape /\ PathShape /\ OneSession /\ Current
  BY DEF PipeInv
<1>2. PageShape'
  BY <1>1 DEF PageShape, SockStates
<1>3. PathShape'
  BY <1>1 DEF PathShape
<1>4. \A r \in Sockets : \/ sock'[r] = sock[r]
                         \/ sock[r] = "connecting" /\ sock'[r] = "open"
  OBVIOUS
<1>5. Current' /\ OneSession'
  BY <1>1, <1>4 DEF Current, OneSession, PageShape
<1>6. ASSUME NEW r \in Sockets PROVE Flows(r)' /\ Socked(r)'
  <2>1. Flows(r) /\ Socked(r)
    BY DEF PipeInv
  <2>2. CASE r = c
    BY <2>1, <2>2 DEF Socked
  <2>3. CASE r # c
    <3>1. Flows(r)' /\ PageOf(r)' = PageOf(r) /\ StOf(r)' = StOf(r)
      BY <2>1, <2>3, KeptFlows
    <3> QED BY <2>1, <2>3, <3>1 DEF Socked
  <2> QED BY <2>2, <2>3
<1> QED BY <1>2, <1>3, <1>5, <1>6 DEF PipeInv

\* A keystroke goes into the current session.
LEMMA TypeStep ==
    ASSUME PipeInv, Type
    PROVE  PipeInv'
<1>1. PICK s : s = ws
  OBVIOUS
<1>2. /\ PageShape /\ PathShape /\ s \in Sockets /\ sock[s] = "open"
      /\ Len(leg[s][1].down) < Buf
  BY <1>1 DEF PipeInv, PageShape, Type, CanSend
<1>3. Flows(s) /\ StOf(s)[1] # "none"
  BY <1>2 DEF PipeInv, Socked
<1>4. /\ typed' = [typed EXCEPT ![s] = @ + 1]
      /\ leg' = Sent(s, [kind |-> "stdin", n |-> typed'[s]])
      /\ UNCHANGED <<hops, bridge, exec, shown, hasty, sock, hooked, ws, connected, size,
                     readOnly, upsets>>
  BY <1>1 DEF Type, page
<1>5. /\ Flows(s)' /\ leg' \in [Sockets -> [Legs -> Leg]]
      /\ \A r \in Sockets \ {s} : leg'[r] = leg[r]
      /\ PageOf(s)' = PageOf(s) /\ StOf(s)' = StOf(s)
  BY <1>2, <1>3, <1>4, TypeFlows
<1>6. typed' \in [Sockets -> Nat] /\ \A r \in Sockets \ {s} : typed'[r] = typed[r]
  BY <1>2, <1>4 DEF PageShape
<1>7. PICK socks : socks = sock
  OBVIOUS
<1>8. socks \in [Sockets -> SockStates] /\ size' \in Nat /\ connected' \in BOOLEAN
  BY <1>2, <1>4, <1>7 DEF PageShape, SockStates
<1> QED BY <1>2, <1>4, <1>5, <1>6, <1>7, <1>8, SendStep

\* No socket and no leg changes.
LEMMA QuietStep ==
    ASSUME PipeInv, size' \in Nat, connected' \in BOOLEAN,
           UNCHANGED <<sock, hooked, ws, shown, leg, hops, bridge, exec, readOnly, typed,
                       hasty, upsets>>
    PROVE  PipeInv'
<1>1. PageShape' /\ PathShape' /\ Current' /\ OneSession'
  BY DEF PipeInv, PageShape, PathShape, Current, OneSession
<1>2. ASSUME NEW r \in Sockets PROVE Flows(r)' /\ Socked(r)'
  <2>1. Flows(r) /\ Socked(r)
    BY DEF PipeInv
  <2>2. Flows(r)' /\ PageOf(r)' = PageOf(r) /\ StOf(r)' = StOf(r)
    BY <2>1, KeptFlows
  <2> QED BY <2>1, <2>2 DEF Socked
<1> QED BY <1>1, <1>2 DEF PipeInv

\* A resize tells the current session, if that is open.
LEMMA ResizeStep ==
    ASSUME PipeInv, Resize
    PROVE  PipeInv'
<1>1. /\ PageShape /\ PathShape /\ size' = size + 1 /\ size' \in Nat /\ connected' \in BOOLEAN
      /\ UNCHANGED <<sock, hooked, ws, connected, shown, hops, bridge, exec, readOnly, typed,
                     hasty, upsets>>
  BY DEF PipeInv, PageShape, Resize, ghosts
<1>2. CASE CanSend(ws) /\ leg' = Sent(ws, SizeFrame(size'))
  <2>1. PICK s, n : s = ws /\ n = size'
    OBVIOUS
  <2>2. s \in Sockets /\ n \in Nat /\ Len(leg[s][1].down) < Buf /\ Flows(s)
    BY <1>1, <1>2, <2>1 DEF CanSend, PipeInv, PageShape
  <2>3. leg' = Sent(s, SizeFrame(n))
    BY <1>2, <2>1
  <2>4. /\ Flows(s)' /\ leg' \in [Sockets -> [Legs -> Leg]]
        /\ \A r \in Sockets \ {s} : leg'[r] = leg[r]
        /\ PageOf(s)' = PageOf(s) /\ StOf(s)' = StOf(s)
    BY <1>1, <2>2, <2>3, SizeFlows
  <2>5. PICK socks : socks = sock
    OBVIOUS
  <2>6. socks \in [Sockets -> SockStates] /\ typed' \in [Sockets -> Nat]
    BY <1>1, <2>5 DEF PageShape, SockStates
  <2> QED BY <1>1, <2>2, <2>4, <2>5, <2>6, SendStep
<1>3. CASE leg' = leg
  BY <1>1, <1>3, QuietStep
<1> QED BY <1>2, <1>3 DEF Resize

\* onopen: the current session is told the size.
LEMMA OnOpenStep ==
    ASSUME PipeInv, NEW s \in Sockets, OnOpen(s)
    PROVE  PipeInv'
<1>1. /\ PageShape /\ PathShape /\ 1 \in Bridges
      /\ sock[s] = "connecting" /\ sock' = [sock EXCEPT ![s] = "open"]
      /\ size' \in Nat /\ connected' \in BOOLEAN /\ typed' \in [Sockets -> Nat]
      /\ UNCHANGED <<hooked, ws, size, shown, hops, bridge, exec, readOnly, typed, hasty,
                     upsets>>
  BY DEF PipeInv, PageShape, OnOpen, ghosts, Bridges
<1>2. StOf(s)[1] # "none"
  BY <1>1 DEF OnOpen, StOf, States
<1>3. PICK socks : socks = sock'
  OBVIOUS
<1>4. /\ socks \in [Sockets -> SockStates]
      /\ \A r \in Sockets : \/ socks[r] = sock[r]
                            \/ /\ sock[r] = "connecting" /\ StOf(r)[1] # "none"
                               /\ socks[r] = "open"
  BY <1>1, <1>2, <1>3 DEF PageShape, SockStates
<1>5. CASE ws # NoWs /\ leg' = Sent(ws, SizeFrame(size))
  <2>1. PICK c, n : c = ws /\ n = size
    OBVIOUS
  <2>2. c \in Sockets /\ n \in Nat /\ Len(leg[c][1].down) < Buf /\ Flows(c)
    BY <1>1, <1>5, <2>1 DEF OnOpen, PipeInv, PageShape
  <2>3. leg' = Sent(c, SizeFrame(n))
    BY <1>5, <2>1
  <2>4. /\ Flows(c)' /\ leg' \in [Sockets -> [Legs -> Leg]]
        /\ \A r \in Sockets \ {c} : leg'[r] = leg[r]
        /\ PageOf(c)' = PageOf(c) /\ StOf(c)' = StOf(c)
    BY <1>1, <2>2, <2>3, SizeFlows
  <2> QED BY <1>1, <1>3, <1>4, <2>2, <2>4, SendStep
<1>6. CASE leg' = leg
  <2>1. leg' \in [Sockets -> [Legs -> Leg]] /\ \A r \in Sockets \ {s} : leg'[r] = leg[r]
    BY <1>1, <1>6 DEF PathShape
  <2>2. Flows(s)' /\ PageOf(s)' = PageOf(s) /\ StOf(s)' = StOf(s)
    BY <1>1, <1>6, KeptFlows DEF PipeInv
  <2> QED BY <1>1, <1>3, <1>4, <2>1, <2>2, SendStep
<1> QED BY <1>5, <1>6 DEF OnOpen, SyncOnOpen

\* onmessage: a frame comes to the terminal.
LEMMA OnMessageStep ==
    ASSUME PipeInv, NEW s \in Sockets, OnMessage(s)
    PROVE  PipeInv'
<1>1. PageShape /\ PathShape /\ OneSession /\ Current
  BY DEF PipeInv
<1>2. /\ sock[s] = "open"
      /\ shown' = IF hooked[s] THEN Append(shown, <<s, Head(leg[s][1].up)>>) ELSE shown
      /\ UNCHANGED <<sock, hooked, ws, connected, size, hops, bridge, exec, readOnly, typed,
                     hasty, upsets>>
  BY DEF OnMessage, ghosts
<1>3. hasty = 0 => s = ws /\ hooked[s]
  BY <1>1, <1>2, TerminalAssumption DEF OneSession, Current
<1>4. /\ \A r \in Sockets : Flows(r)' /\ PageOf(r)' = PageOf(r) /\ StOf(r)' = StOf(r)
      /\ leg' \in [Sockets -> [Legs -> Leg]] /\ shown' \in Seq(Sockets \X Frame)
  <2>1. \A r \in Sockets : Flows(r)
    BY DEF PipeInv
  <2> QED BY <1>1, <1>3, <2>1, MessageFlows
<1>5. PageShape' /\ PathShape' /\ Current'
  BY <1>1, <1>2, <1>4 DEF PageShape, PathShape, Current
<1>6. OneSession'
  <2> SUFFICES ASSUME hasty = 0, ws # NoWs, NEW i \in DOMAIN shown'
               PROVE  shown'[i][1] = ws
    BY <1>1, <1>2 DEF OneSession
  <2>1. s = ws
    BY <1>3
  <2>2. shown \in Seq(Sockets \X Frame) /\ \A k \in DOMAIN shown : shown[k][1] = ws
    BY <1>1 DEF OneSession, PageShape
  <2>3. PICK e : e = <<s, Head(leg[s][1].up)>>
    OBVIOUS
  <2>4. e[1] = ws
    BY <2>1, <2>3
  <2>5. CASE shown' = shown
    BY <2>2, <2>5
  <2>6. CASE shown' = Append(shown, e)
    <3>1. \/ i \in DOMAIN shown /\ shown'[i] = shown[i]
          \/ shown'[i] = e
      <4>1. shown' \in Seq(Sockets \X Frame)
        BY <1>4
      <4>2. Len(shown') = Len(shown) + 1 /\ shown'[Len(shown) + 1] = e
            /\ \A k \in 1 .. Len(shown) : shown'[k] = shown[k]
        BY <2>2, <2>6
      <4>3. DOMAIN shown = 1 .. Len(shown) /\ DOMAIN shown' = 1 .. Len(shown')
            /\ Len(shown) \in Nat
        BY <2>2, <4>1
      <4> QED BY <4>2, <4>3
    <3> QED BY <2>2, <2>4, <3>1
  <2> QED BY <1>2, <2>3, <2>5, <2>6
<1>7. \A r \in Sockets : Flows(r)' /\ Socked(r)'
  BY <1>2, <1>4 DEF PipeInv, Socked
<1> QED BY <1>5, <1>6, <1>7 DEF PipeInv

\* pagehide: the current socket closes and stays current.
LEMMA HideStep ==
    ASSUME PipeInv, Hide
    PROVE  PipeInv'
<1>1. PICK s : s = ws
  OBVIOUS
<1>2. /\ s \in Sockets /\ sock[s] \in Active /\ leg \in [Sockets -> [Legs -> Leg]] /\ 1 \in Legs
      /\ sock' = [sock EXCEPT ![s] = "closing"]
      /\ leg' = [leg EXCEPT ![s][1] = DropPageSide(@)]
      /\ UNCHANGED <<hooked, ws, connected, size, shown, hops, bridge, exec, readOnly, typed,
                     hasty, upsets>>
  BY <1>1 DEF Hide, PipeInv, PageShape, PathShape, ghosts, Active, Legs
<1>3. leg' = [leg EXCEPT ![s] = Cut(leg[s])]
  BY <1>2 DEF Cut
<1>4. upsets' \in Nat
  BY <1>2 DEF PipeInv, PageShape
<1>5. PICK c : c = "closing"
  OBVIOUS
<1> QED BY <1>2, <1>3, <1>4, <1>5, LeaveStep

\* The socket of a session closes, and with it the current one if the page
\* still listens to it and has one.
LEMMA ShutStep ==
    ASSUME PipeInv, NEW s \in Sockets, sock[s] \in Active,
           NEW socks, socks = [sock EXCEPT ![s] = "closed"],
           NEW legs, \/ legs = [leg EXCEPT ![s] = Cut(leg[s])]
                     \/ legs = leg /\ 1 \notin PageOf(s),
           \/ Teardown(socks, legs)
           \/ /\ ~(hooked[s] /\ ws # NoWs)
              /\ sock' = socks /\ leg' = legs /\ UNCHANGED <<hooked, ws, connected>>,
           UNCHANGED <<size, shown, hops, bridge, exec, readOnly, typed, hasty>>,
           upsets' \in Nat
    PROVE  PipeInv'
<1>1. PageShape /\ PathShape /\ Current
  BY DEF PipeInv
<1>2. CASE Teardown(socks, legs)
  <2>1. socks \in [Sockets -> SockStates]
    BY <1>1 DEF PageShape, SockStates
  <2>2. /\ legs[s] = Cut(leg[s]) \/ (legs[s] = leg[s] /\ 1 \notin PageOf(s))
        /\ \A r \in Sockets \ {s} : legs[r] = leg[r]
    BY <1>1 DEF PathShape
  <2>3. legs \in [Sockets -> [Legs -> Leg]]
    <3>1. PICK x : x = Cut(leg[s])
      OBVIOUS
    <3>2. x \in [Legs -> Leg]
      <4>1. leg[s] \in [Legs -> Leg] /\ 1 \in Legs
        BY <1>1 DEF PathShape, Legs
      <4>2. PICK l, y : l = leg[s][1] /\ y = DropPageSide(l)
        OBVIOUS
      <4>3. l \in Leg
        BY <4>1, <4>2
      <4>4. y \in Leg
        <5>1. <<>> \in Queue
          <6>1. <<>> \in Seq(Frame) /\ Len(<<>>) = 0
            OBVIOUS
          <6> QED BY <6>1, TerminalAssumption DEF Queue
        <5> QED BY <4>2, <4>3, <5>1 DEF DropPageSide, Leg
      <4>5. x = [leg[s] EXCEPT ![1] = y]
        BY <3>1, <4>2 DEF Cut
      <4> QED BY <4>1, <4>4, <4>5
    <3> QED BY <1>1, <3>1, <3>2 DEF PathShape
  <2>4. \A r \in Sockets : \/ socks[r] = sock[r] /\ legs[r] = leg[r]
                           \/ socks[r] = "closed" /\ legs[r] = Cut(leg[r])
                           \/ socks[r] = "closed" /\ legs[r] = leg[r] /\ 1 \notin PageOf(r)
    <3>1. socks[s] = "closed" /\ \A r \in Sockets \ {s} : socks[r] = sock[r]
      BY <1>1 DEF PageShape
    <3> QED BY <2>2, <3>1
  <2> QED BY <1>2, <2>1, <2>3, <2>4, TeardownStep
<1>3. CASE /\ ~(hooked[s] /\ ws # NoWs)
           /\ sock' = socks /\ leg' = legs /\ UNCHANGED <<hooked, ws, connected>>
  <2>1. s # ws
    BY <1>1, <1>3, TerminalAssumption DEF Current
  <2>2. PICK c : c = "closed"
    OBVIOUS
  <2> QED BY <1>3, <2>1, <2>2, LeaveStep
<1> QED BY <1>2, <1>3

\* onclose, with or without a teardown.
LEMMA OnCloseStep ==
    ASSUME PipeInv, NEW s \in Sockets, OnClose(s)
    PROVE  PipeInv'
<1>1. PICK socks, legs : /\ socks = [sock EXCEPT ![s] = "closed"]
                         /\ legs = [leg EXCEPT ![s][1] = DropPageSide(@)]
  OBVIOUS
<1>2. leg \in [Sockets -> [Legs -> Leg]] /\ sock[s] \in Active /\ upsets' \in Nat
  BY DEF PipeInv, PageShape, PathShape, OnClose, Active, ghosts
<1>3. legs = [leg EXCEPT ![s] = Cut(leg[s])]
  BY <1>1, <1>2 DEF Cut
<1>4. \/ Teardown(socks, legs)
      \/ /\ ~(hooked[s] /\ ws # NoWs)
         /\ sock' = socks /\ leg' = legs /\ UNCHANGED <<hooked, ws, connected>>
  BY <1>1, Zenon DEF OnClose
<1>5. UNCHANGED <<size, shown, hops, bridge, exec, readOnly, typed, hasty>>
  BY DEF OnClose, ghosts
<1> QED BY <1>1, <1>2, <1>3, <1>4, <1>5, ShutStep

\* onerror before the socket is open: it never had a leg.
LEMMA UpgradeFailsStep ==
    ASSUME PipeInv, NEW s \in Sockets, UpgradeFails(s)
    PROVE  PipeInv'
<1>1. PICK socks, legs : socks = [sock EXCEPT ![s] = "closed"] /\ legs = leg
  OBVIOUS
<1>2. /\ sock[s] \in Active /\ upsets' \in Nat /\ bridge[s][1].st = "none"
      /\ UNCHANGED <<size, shown, hops, bridge, exec, readOnly, typed, hasty>>
  BY DEF PipeInv, PageShape, UpgradeFails, Upset, Active
<1>3. 1 \notin PageOf(s)
  <2>1. WiredSession(s) /\ StOf(s)[1] = "none"
    BY <1>2 DEF PipeInv, Flows, StOf, States, Bridges
  <2> QED BY <2>1 DEF WiredSession, Wired, Legged
<1>4. \/ Teardown(socks, legs)
      \/ /\ ~(hooked[s] /\ ws # NoWs)
         /\ sock' = socks /\ leg' = legs /\ UNCHANGED <<hooked, ws, connected>>
  <2>1. CASE hooked[s] /\ (connected \/ ws # NoWs)
    <3>1. Teardown([sock EXCEPT ![s] = "closed"], leg)
      BY <2>1 DEF UpgradeFails
    <3> QED BY <1>1, <3>1
  <2>2. CASE ~(hooked[s] /\ (connected \/ ws # NoWs))
    <3>1. sock' = [sock EXCEPT ![s] = "closed"] /\ UNCHANGED <<leg, hooked, ws, connected>>
      BY <2>2 DEF UpgradeFails
    <3> QED BY <1>1, <2>2, <3>1
  <2> QED BY <2>1, <2>2
<1> QED BY <1>1, <1>2, <1>3, <1>4, ShutStep

-----------------------------------------------------------------------------
(* The theorems *)

\* The bridges and the process of a session work on its path alone.
LEMMA BridgingStep ==
    ASSUME PipeInv, NEW s \in Sockets, NEW k \in Bridges, Bridging(s, k)
    PROVE  PipeInv'
<1>1. PageShape /\ PathShape /\ Good(s)
  BY DEF PipeInv, Flows, Good
<1>2. PathStep(s)
  BY <1>1, ReadInStep, ReadOutStep, ResizeExecStep, WriteInStep, WriteOutStep, EndStep,
     DialStep, DialFailsStep DEF Bridging
<1>3. readOnly \in [Bridges -> BOOLEAN] /\ upsets \in Nat
  BY <1>1 DEF PageShape
<1>4. CASE UNCHANGED <<page, hops, readOnly, ghosts>>
  BY <1>2, <1>3, <1>4, PathSteps DEF ghosts
<1>5. CASE ResizeExec(s, k)
  <2>1. UNCHANGED <<page, hops, readOnly, typed, hasty>>
    BY <1>5 DEF ResizeExec
  <2>2. upsets' \in Nat
    BY <1>3, <1>5 DEF ResizeExec, Upset
  <2> QED BY <1>2, <1>3, <2>1, <2>2, PathSteps
<1>6. CASE DialFails(s, k)
  <2>1. UNCHANGED <<page, hops, typed, hasty>>
    BY <1>6 DEF DialFails
  <2>2. upsets' \in Nat
    BY <1>3, <1>6 DEF DialFails, Upset
  <2>3. readOnly' \in [Bridges -> BOOLEAN]
    BY <1>3, <1>6 DEF DialFails
  <2> QED BY <1>2, <2>1, <2>2, <2>3, PathSteps
<1>7. \/ UNCHANGED <<page, hops, readOnly, ghosts>>
      \/ ResizeExec(s, k) \/ DialFails(s, k)
  BY DEF Bridging, Dial, ReadIn, WriteIn, ReadOut, WriteOut, End
<1> QED BY <1>4, <1>5, <1>6, <1>7

\* The opening of a session, a break in it, and its process.
LEMMA SessionStep ==
    ASSUME PipeInv, NEW s \in Sockets,
           \/ Upgrade(s) \/ \E j \in Legs : Break(s, j)
           \/ ExecRead(s) \/ ExecWrite(s) \/ ExecExit(s)
    PROVE  PipeInv'
<1>1. PageShape /\ PathShape /\ Good(s)
  BY DEF PipeInv, Flows, Good
<1>2. PathStep(s)
  BY <1>1, UpgradeStep, BreakStep, ExecReadStep, ExecWriteStep, ExecExitStep
<1>3. readOnly \in [Bridges -> BOOLEAN] /\ upsets \in Nat
  BY <1>1 DEF PageShape
<1>4. upsets' \in Nat
  BY <1>3 DEF Upgrade, Break, Upset, ExecRead, ExecWrite, ExecExit, ghosts
<1>5. UNCHANGED <<page, hops, readOnly, typed, hasty>>
  BY DEF Upgrade, Break, ExecRead, ExecWrite, ExecExit, ghosts
<1> QED BY <1>2, <1>3, <1>4, <1>5, PathSteps

\* Every step keeps the invariant.
LEMMA NextStep ==
    ASSUME PipeInv, [Next]_vars
    PROVE  PipeInv'
<1>1. CASE Click
  BY <1>1, ClickStep
<1>2. CASE Type
  BY <1>2, TypeStep
<1>3. CASE Resize
  BY <1>3, ResizeStep
<1>4. CASE Hide
  BY <1>4, HideStep
<1>5. ASSUME NEW s \in Sockets, Handlers(s) PROVE PipeInv'
  BY <1>5, OnOpenStep, OnMessageStep, OnCloseStep DEF Handlers
<1>6. ASSUME NEW s \in Sockets, UpgradeFails(s) PROVE PipeInv'
  BY <1>6, UpgradeFailsStep
<1>7. ASSUME NEW s \in Sockets, NEW k \in Bridges, Bridging(s, k) PROVE PipeInv'
  BY <1>7, BridgingStep
<1>8. ASSUME NEW s \in Sockets,
             \/ Upgrade(s) \/ \E j \in Legs : Break(s, j)
             \/ ExecRead(s) \/ ExecWrite(s) \/ ExecExit(s)
      PROVE  PipeInv'
  BY <1>8, SessionStep
<1>9. CASE UNCHANGED vars
  <2>1. size' \in Nat /\ connected' \in BOOLEAN
    BY <1>9 DEF PipeInv, PageShape, vars, page
  <2> QED BY <1>9, <2>1, QuietStep DEF vars, page, path, ghosts
<1> QED BY <1>1, <1>2, <1>3, <1>4, <1>5, <1>6, <1>7, <1>8, <1>9, Zenon DEF Next

\* Every session of the page keeps to the invariant: its bridges open in
\* order, what an end left unread is gone with it, and each direction carries
\* its frames in order and without a gap between the last one that came out
\* and the last one that went in, or up to where it was cut (exec_bridge,
\* federated_exec_bridge, terminal.js).
THEOREM SessionsKept == Spec => []PipeInv
<1>1. Init => PipeInv
  BY InvInit
<1>2. PipeInv /\ [Next]_vars => PipeInv'
  BY NextStep
<1> QED BY <1>1, <1>2, PTL DEF Spec

\* Every variable has its type, the queues of a leg stay within their bound,
\* only a bridge that is up holds frames, a process has its bridges before it,
\* and the current socket of the page is not one it knows to be closed.
THEOREM TypeCorrect == Spec => []TypeOK
<1>1. PipeInv => TypeOK
  <2> SUFFICES ASSUME PipeInv PROVE TypeOK
    OBVIOUS
  <2>1. PageShape /\ PathShape /\ Current
    BY DEF PipeInv
  <2>2. ASSUME NEW s \in Sockets, NEW k \in Legs
        PROVE  leg[s][k].down \in Queue /\ leg[s][k].up \in Queue
    <3>1. leg[s][k] \in Leg
      BY <2>1 DEF PathShape
    <3> QED BY <3>1, InFrames DEF Leg
  <2>3. ASSUME NEW s \in Sockets, NEW k \in Bridges
        PROVE  /\ bridge[s][k].st \in {"none", "dialing", "up", "gone"}
               /\ bridge[s][k].inHand \in Hand /\ bridge[s][k].outHand \in Hand
    <3>1. bridge[s][k] \in Bridge
      BY <2>1 DEF PathShape
    <3> QED BY <3>1, InFrames DEF Bridge, Hand
  <2>4. ASSUME NEW s \in Sockets, NEW k \in Bridges, bridge[s][k].st # "up"
        PROVE  bridge[s][k].inHand = NoFrame /\ bridge[s][k].outHand = NoFrame
    <3>1. Hands(StOf(s), InOf(s), OutOf(s))
      BY DEF PipeInv, Flows, WiredSession, Wired
    <3> QED BY <2>4, <3>1 DEF Hands, StOf, InOf, OutOf, States, InHands, OutHands
  <2>5. ASSUME NEW s \in Sockets, Running(s), NEW k \in 1 .. hops
        PROVE  bridge[s][k].st \in {"up", "gone"}
    <3>1. Opened(hops, StOf(s), exec[s])
      BY DEF PipeInv, Flows, WiredSession, Wired
    <3>2. k \in Bridges
      BY <2>1 DEF PageShape, Bridges
    <3> QED BY <2>5, <3>1, <3>2 DEF Opened, StOf, States, Running
  <2> QED BY <2>1, <2>2, <2>3, <2>4, <2>5 DEF TypeOK, PageShape, Current
<1> QED BY <1>1, SessionsKept, PTL

\* The page has one session at a time, and its terminal shows nothing of
\* another, as long as nobody clicks on Connect while a socket is connecting
\* (connect, teardown in terminal.js).
THEOREM OneSessionHolds == Spec => []OneSession
<1>1. PipeInv => OneSession
  BY DEF PipeInv
<1> QED BY <1>1, SessionsKept, PTL

\* What a process reads is what was typed into its session, and what the
\* terminal shows is what the process wrote, in order and without a gap,
\* through one bridge or two, whatever breaks or ends in between.
THEOREM PipesHold == Spec => []PipesFaithful
<1>1. PipeInv => PipesFaithful
  <2> SUFFICES ASSUME PipeInv, NEW s \in Sockets
               PROVE  /\ Counts(exec[s].read) /\ Len(exec[s].read) <= typed[s]
                      /\ hasty = 0 =>
                           /\ \A i \in DOMAIN shown :
                                Shows(s, i) => shown[i][2].n = ShownUpTo(s, i)
                           /\ ShownUpTo(s, Len(shown)) <= exec[s].wrote
    BY DEF PipesFaithful
  <2>1. InFlow(s) /\ OutFlow(s)
    BY DEF PipeInv, Flows
  <2> QED BY <2>1, FlowBounds DEF InFlow, OutFlow
<1> QED BY <1>1, SessionsKept, PTL

=============================================================================
