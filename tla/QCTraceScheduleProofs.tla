------------------------ MODULE QCTraceScheduleProofs -----------------------
(***************************************************************************)
(* A theorem about QCTraceSimulator, for any configurations, any times of  *)
(* the gates and any bounds of the program: the gates can be scheduled on  *)
(* the lanes that releases put the qubits on, with depths no longer than   *)
(* reported.                                                               *)
(*                                                                         *)
(* The argument.  Chains of gates along the wires may cross between lanes, *)
(* and a lane may get a qubit in front of those it has, so that a longest  *)
(* chain is no induction.  The invariant has a position of every gate in   *)
(* time instead: positions rise along a wire, and lie within the busy time *)
(* of the wire's qubit.  A release then has only busy times to compare.    *)
(* The gates of a qubit that had no gate with a partner may still move,    *)
(* all together, when the first one comes.  From positions it follows that *)
(* no chain comes back to its first gate, and how long one can be.         *)
(***************************************************************************)
EXTENDS QCTraceSimulatorProofs

-----------------------------------------------------------------------------
(* Positions in a schedule.                                                 *)

\* Where a gate is in a schedule: its time, its place among the gates that wait there for the first
\* gate with a partner, and the depth when it has ended.
Positions == [at : Times, place : Nat, finish : Nat]

Goes(p, q) == Before(p.at, q.at) \/ (p.at = q.at /\ p.place < q.place)

\* A gate of this time at q may come right after one at p.
Follows(p, q, time) == Goes(p, q) /\ p.finish + time <= q.finish

\* What is at p has ended at t.
EndsBy(p, t) == (Before(p.at, t) \/ (p.at = t /\ p.place = 0)) /\ p.finish <= t.depth

\* What is at p begins after t.
BeginsAfter(p, t, time) ==
    (Before(t, p.at) \/ (p.at = t /\ p.place > 0)) /\ t.depth + time <= p.finish

\* Times are their two numbers.
LEMMA TimeParts ==
    ASSUME NEW t \in Starts
    PROVE  t = [depth |-> t.depth, zeros |-> t.zeros] /\ t.depth \in Int /\ t.zeros \in Int
BY DEF Starts

LEMMA TimesAreStarts == Times \subseteq Starts /\ Zero \in Times
BY DEF Times, Starts, Zero, Time

\* Times are in an order.
LEMMA TimesCompare ==
    ASSUME NEW s \in Starts, NEW t \in Starts, NEW u \in Starts
    PROVE  /\ AtMost(s, t) <=> Before(s, t) \/ s = t
           /\ ~ Before(s, s)
           /\ Before(s, t) /\ AtMost(t, u) => Before(s, u)
           /\ AtMost(s, t) /\ Before(t, u) => Before(s, u)
           /\ AtMost(s, t) /\ AtMost(t, u) => AtMost(s, u)
           /\ AtMost(s, t) => s.depth <= t.depth
<1> DEFINE a == s.depth
           b == s.zeros
           c == t.depth
           d == t.zeros
           e == u.depth
           f == u.zeros
<1>1. /\ s = [depth |-> a, zeros |-> b] /\ a \in Int /\ b \in Int
      /\ t = [depth |-> c, zeros |-> d] /\ c \in Int /\ d \in Int
      /\ e \in Int /\ f \in Int
  BY TimeParts
<1>2. s = t <=> a = c /\ b = d
  <2> HIDE DEF a, b, c, d
  <2>1. a = c /\ b = d => s = t
    BY <1>1
  <2> QED
    BY <2>1 DEF a, b, c, d
<1>3. /\ Before(s, t) <=> a < c \/ (a = c /\ b < d)
      /\ Before(t, s) <=> c < a \/ (c = a /\ d < b)
      /\ Before(s, u) <=> a < e \/ (a = e /\ b < f)
      /\ Before(u, s) <=> e < a \/ (e = a /\ f < b)
      /\ Before(t, u) <=> c < e \/ (c = e /\ d < f)
      /\ Before(u, t) <=> e < c \/ (e = c /\ f < d)
      /\ Before(s, s) <=> a < a \/ (a = a /\ b < b)
  BY DEF Before
<1> HIDE DEF a, b, c, d, e, f
<1>4. /\ AtMost(s, t) <=> ~ Before(t, s)
      /\ AtMost(t, u) <=> ~ Before(u, t)
      /\ AtMost(s, u) <=> ~ Before(u, s)
  BY DEF AtMost
<1>5. AtMost(s, t) <=> Before(s, t) \/ s = t
  BY <1>1, <1>2, <1>3, <1>4
<1>6. ~ Before(s, s)
  BY <1>1, <1>3
<1>7. Before(s, t) /\ AtMost(t, u) => Before(s, u)
  BY <1>1, <1>3, <1>4
<1>8. AtMost(s, t) /\ Before(t, u) => Before(s, u)
  BY <1>1, <1>3, <1>4
<1>9. AtMost(s, t) /\ AtMost(t, u) => AtMost(s, u)
  BY <1>1, <1>3, <1>4
<1>10. AtMost(s, t) => s.depth <= t.depth
  BY <1>1, <1>3, <1>4 DEF a, c
<1> QED
  BY <1>5, <1>6, <1>7, <1>8, <1>9, <1>10

\* Positions are in a strict order.
LEMMA PositionsCompare ==
    ASSUME NEW p \in Positions, NEW q \in Positions, NEW r \in Positions
    PROVE  ~ Goes(p, p) /\ (Goes(p, q) /\ Goes(q, r) => Goes(p, r))
<1>1. /\ p.at \in Starts /\ q.at \in Starts /\ r.at \in Starts
      /\ p.place \in Nat /\ q.place \in Nat /\ r.place \in Nat
  BY TimesAreStarts DEF Positions
<1>2. ~ Before(p.at, p.at)
  BY <1>1, TimesCompare
<1>3. ~ p.place < p.place
  BY <1>1
<1>4. ASSUME Goes(p, q), Goes(q, r)
      PROVE  Goes(p, r)
  <2>1. AtMost(q.at, r.at) /\ AtMost(p.at, q.at)
    BY <1>1, <1>4, TimesCompare DEF Goes
  <2>2. CASE Before(p.at, q.at)
    <3>1. Before(p.at, r.at)
      BY <1>1, <2>1, <2>2, TimesCompare
    <3> QED
      BY <3>1 DEF Goes
  <2>3. CASE Before(q.at, r.at)
    <3>1. Before(p.at, r.at)
      BY <1>1, <2>1, <2>3, TimesCompare
    <3> QED
      BY <3>1 DEF Goes
  <2>4. CASE p.at = q.at /\ p.place < q.place /\ q.at = r.at /\ q.place < r.place
    <3>1. p.place < r.place
      BY <1>1, <2>4
    <3> QED
      BY <2>4, <3>1 DEF Goes
  <2> QED
    BY <1>4, <2>2, <2>3, <2>4 DEF Goes
<1> QED
  BY <1>2, <1>3, <1>4 DEF Goes

\* A gate after a time that is not before another gate's end may come after that gate.
LEMMA FollowsAcross ==
    ASSUME NEW p \in Positions, NEW q \in Positions, NEW e \in Times, NEW s \in Starts,
           NEW time \in Nat, AtMost(e, s), EndsBy(p, e), BeginsAfter(q, s, time)
    PROVE  Follows(p, q, time)
<1>1. /\ p.at \in Starts /\ q.at \in Starts /\ e \in Starts
      /\ p.place \in Nat /\ q.place \in Nat /\ p.finish \in Nat /\ q.finish \in Nat
      /\ e.depth \in Int /\ s.depth \in Int
  BY TimesAreStarts DEF Positions, Starts
<1>2. e.depth <= s.depth
  BY <1>1, TimesCompare
<1>3. p.finish + time <= q.finish
  BY <1>1, <1>2 DEF EndsBy, BeginsAfter
<1>4. AtMost(p.at, e) /\ AtMost(s, q.at)
  BY <1>1, TimesCompare DEF EndsBy, BeginsAfter
<1>5. CASE Before(p.at, e)
  <2>1. Before(p.at, s)
    BY <1>1, <1>5, TimesCompare
  <2>2. Before(p.at, q.at)
    BY <1>1, <1>4, <2>1, TimesCompare
  <2> QED
    BY <1>3, <2>2 DEF Follows, Goes
<1>6. CASE Before(s, q.at)
  <2>1. AtMost(p.at, s)
    BY <1>1, <1>4, TimesCompare
  <2>2. Before(p.at, q.at)
    BY <1>1, <1>6, <2>1, TimesCompare
  <2> QED
    BY <1>3, <2>2 DEF Follows, Goes
<1>7. CASE p.at = e /\ p.place = 0 /\ q.at = s /\ q.place > 0
  <2>1. CASE e = s
    <3>1. p.place < q.place
      BY <1>1, <1>7
    <3> QED
      BY <1>3, <1>7, <2>1, <3>1 DEF Follows, Goes
  <2>2. CASE Before(e, s)
    BY <1>3, <1>7, <2>2 DEF Follows, Goes
  <2> QED
    BY <1>1, <2>1, <2>2, TimesCompare
<1> QED
  BY <1>5, <1>6, <1>7 DEF EndsBy, BeginsAfter

-----------------------------------------------------------------------------
(* What a schedule says of the order it keeps.                              *)

\* P is a schedule of the gates that keeps the order.
KeepsOrder(P, order) ==
    /\ \A g \in Gates : P[g] \in Positions /\ g.time \in Nat /\ g.time <= P[g].finish
    /\ \A f, g \in Gates : <<f, g>> \in order => Follows(P[f], P[g], g.time)

\* A schedule ranks the gates, by how many are before each.
LEMMA ScheduleRanks ==
    ASSUME IsFiniteSet(Gates), NEW order, NEW P, KeepsOrder(P, order)
    PROVE  \E r : IsRank(r, Gates, order)
<1> DEFINE before(g) == {f \in Gates : Goes(P[f], P[g])}
           r == [g \in Gates |-> Cardinality(before(g))]
<1>1. ASSUME NEW g \in Gates
      PROVE  /\ before(g) \in SUBSET Gates /\ g \notin before(g)
             /\ IsFiniteSet(before(g)) /\ Cardinality(before(g)) \in Nat
             /\ Cardinality(before(g)) <= Cardinality(Gates) - 1
  <2>1. before(g) \in SUBSET Gates /\ g \notin before(g)
    <3>1. P[g] \in Positions
      BY DEF KeepsOrder
    <3>2. ~ Goes(P[g], P[g])
      BY <3>1, PositionsCompare
    <3> QED
      BY <3>2
  <2> HIDE DEF before
  <2>2. IsFiniteSet(before(g)) /\ Cardinality(before(g)) \in Nat /\ Cardinality(Gates) \in Nat
    BY <2>1, FS_Subset, FS_CardinalityType
  <2>3. before(g) # Gates
    BY <2>1
  <2>4. Cardinality(before(g)) < Cardinality(Gates)
    BY <2>1, <2>2, <2>3, FS_Subset
  <2> QED
    BY <2>1, <2>2, <2>4
<1>2. ASSUME NEW f \in Gates, NEW g \in Gates, <<f, g>> \in order
      PROVE  Cardinality(before(f)) < Cardinality(before(g))
  <2>1. Goes(P[f], P[g])
    BY <1>2 DEF KeepsOrder, Follows
  <2>2. before(f) \in SUBSET before(g)
    <3>1. \A h \in Gates : P[h] \in Positions
      BY DEF KeepsOrder
    <3>2. ASSUME NEW h \in Gates, Goes(P[h], P[f])
          PROVE  Goes(P[h], P[g])
      BY <2>1, <3>1, <3>2, PositionsCompare
    <3> QED
      BY <3>2
  <2>3. f \in before(g)
    BY <2>1
  <2> HIDE DEF before
  <2>4. /\ f \notin before(f) /\ IsFiniteSet(before(g))
        /\ Cardinality(before(f)) \in Nat /\ Cardinality(before(g)) \in Nat
    BY <1>1
  <2>5. before(f) # before(g)
    BY <2>3, <2>4
  <2> QED
    BY <2>2, <2>4, <2>5, FS_Subset
<1> HIDE DEF before
<1>3. \A g \in Gates : r[g] \in 0 .. Cardinality(Gates) - 1
  <2>1. Cardinality(Gates) \in Nat
    BY FS_CardinalityType
  <2> TAKE g \in Gates
  <2>2. r[g] = Cardinality(before(g))
    OBVIOUS
  <2> QED
    BY <1>1, <2>1, <2>2
<1>4. \A f, g \in Gates : <<f, g>> \in order => r[f] < r[g]
  BY <1>2
<1> HIDE DEF r
<1>5. IsRank(r, Gates, order)
  BY <1>3, <1>4 DEF IsRank
<1> QED
  BY <1>5

\* The ends of paths of up to k steps, as the recursive function gives them.
PathEnds(e, order, k) ==
    e = [n \in 0 .. k |-> IF n = 0 THEN Gates ELSE {g \in Gates : \E f \in e[n - 1] : <<f, g>> \in order}]

LEMMA PathEndsExist ==
    ASSUME NEW order, NEW n \in Nat
    PROVE  \E e : PathEnds(e, order, n)
<1> DEFINE T == {k \in 0 .. n : \E e : PathEnds(e, order, k)}
           next(S) == {g \in Gates : \E f \in S : <<f, g>> \in order}
           step(f, m) == IF m = 0 THEN Gates ELSE next(f[m - 1])
<1>1. 0 \in T
  <2> DEFINE e == [m \in 0 .. 0 |-> Gates]
  <2>1. e = [m \in 0 .. 0 |-> step(e, m)]
    OBVIOUS
  <2> HIDE DEF e
  <2>2. PathEnds(e, order, 0)
    BY <2>1 DEF PathEnds
  <2> QED
    BY <2>2
<1>2. ASSUME NEW k \in 1 .. n, k - 1 \in T
      PROVE  k \in T
  <2>1. PICK e : PathEnds(e, order, k - 1)
    BY <1>2
  <2>2. e = [m \in 0 .. k - 1 |-> step(e, m)]
    BY <2>1 DEF PathEnds
  <2> DEFINE h == [m \in 0 .. k |-> IF m = k THEN next(e[k - 1]) ELSE e[m]]
  <2> HIDE DEF next
  <2>3. /\ DOMAIN h = 0 .. k /\ h[k] = next(e[k - 1])
        /\ \A m \in 0 .. k - 1 : h[m] = e[m]
    OBVIOUS
  <2>4. \A m \in 0 .. k - 1 : e[m] = step(e, m)
    <3> HIDE DEF step
    <3> QED
      BY <2>2
  <2>5. h \in [0 .. k -> {h[m] : m \in 0 .. k}]
    OBVIOUS
  <2> HIDE DEF h
  <2>6. \A m \in 0 .. k : h[m] = step(h, m)
    <3> TAKE m \in 0 .. k
    <3>1. CASE m = k
      <4>1. k - 1 \in 0 .. k - 1 /\ k # 0
        OBVIOUS
      <4>2. h[k - 1] = e[k - 1]
        BY <2>3, <4>1
      <4> QED
        BY <2>3, <3>1, <4>1, <4>2
    <3>2. CASE m # k /\ m # 0
      <4>1. m \in 0 .. k - 1 /\ m - 1 \in 0 .. k - 1
        BY <3>2
      <4>2. h[m] = e[m] /\ h[m - 1] = e[m - 1]
        BY <2>3, <4>1
      <4>3. e[m] = step(e, m)
        BY <2>4, <4>1
      <4> QED
        BY <3>2, <4>2, <4>3
    <3>3. CASE m # k /\ m = 0
      <4>1. m \in 0 .. k - 1
        BY <3>3
      <4>2. h[m] = e[m] /\ e[m] = step(e, m)
        BY <2>3, <2>4, <4>1
      <4> QED
        BY <3>3, <4>2
    <3> QED
      BY <3>1, <3>2, <3>3
  <2>7. h = [m \in 0 .. k |-> step(h, m)]
    <3> HIDE DEF step
    <3> QED
      BY <2>5, <2>6
  <2>8. PathEnds(h, order, k)
    BY <2>7 DEF PathEnds, next
  <2> QED
    BY <2>8
<1> HIDE DEF T
<1>3. T \in SUBSET (0 .. n)
  BY DEF T
<1>4. T = 0 .. n
  BY <1>1, <1>2, <1>3, UpTo
<1> QED
  BY <1>4 DEF T

\* The end of a path of k steps has at least k below it, and no gate has as many as there are.
LEMMA RankedIsAcyclic ==
    ASSUME IsFiniteSet(Gates), NEW order, NEW r, IsRank(r, Gates, order)
    PROVE  IsAcyclic(order)
<1> DEFINE n == Cardinality(Gates)
           ends == CHOOSE e : PathEnds(e, order, n)
           next(S) == {g \in Gates : \E f \in S : <<f, g>> \in order}
           step(m) == IF m = 0 THEN Gates ELSE next(ends[m - 1])
<1>1. n \in Nat
  BY FS_CardinalityType
<1>2. EndsOfPaths(order) = ends
  BY DEF EndsOfPaths, PathEnds
<1>3. \A g \in Gates : r[g] \in 0 .. n - 1
  BY DEF IsRank
<1> HIDE DEF n
<1>4. PathEnds(ends, order, n)
  BY <1>1, PathEndsExist
<1> HIDE DEF ends
<1>5. \A m \in 0 .. n : ends[m] = step(m)
  <2>1. ends = [m \in 0 .. n |-> step(m)]
    BY <1>4 DEF PathEnds
  <2> HIDE DEF step
  <2> QED
    BY <2>1
<1> DEFINE T == {k \in 0 .. n : \A g \in ends[k] : g \in Gates /\ k <= r[g]}
<1>6. 0 \in T
  <2>1. 0 \in 0 .. n
    BY <1>1
  <2>2. ends[0] = step(0)
    BY <1>5, <2>1
  <2>3. step(0) = Gates
    OBVIOUS
  <2> HIDE DEF step
  <2>4. ends[0] = Gates
    BY <2>2, <2>3
  <2> QED
    BY <1>1, <1>3, <2>1, <2>4
<1>7. ASSUME NEW k \in 1 .. n, k - 1 \in T
      PROVE  k \in T
  <2>1. k \in 0 .. n /\ k # 0 /\ k \in Nat
    OBVIOUS
  <2>2. ends[k] = next(ends[k - 1])
    BY <1>5, <2>1
  <2>3. ASSUME NEW g \in ends[k]
        PROVE  g \in Gates /\ k <= r[g]
    <3>1. PICK f \in ends[k - 1] : g \in Gates /\ <<f, g>> \in order
      BY <2>2, <2>3
    <3>2. f \in Gates /\ k - 1 <= r[f]
      BY <1>7, <3>1
    <3>3. r[f] < r[g] /\ r[f] \in 0 .. n - 1 /\ r[g] \in 0 .. n - 1
      BY <1>3, <3>1, <3>2 DEF IsRank
    <3> QED
      BY <1>1, <2>1, <3>1, <3>2, <3>3
  <2> QED
    BY <2>1, <2>3
<1>8. T \in SUBSET (0 .. n)
  OBVIOUS
<1> HIDE DEF T
<1>9. T = 0 .. n
  BY <1>1, <1>6, <1>7, <1>8, UpTo
<1>10. n \in T
  BY <1>1, <1>9
<1>11. ASSUME NEW g \in ends[n]
       PROVE  FALSE
  <2>1. g \in Gates /\ n <= r[g]
    BY <1>10 DEF T
  <2>2. r[g] \in 0 .. n - 1
    BY <1>3, <2>1
  <2> QED
    BY <1>1, <2>1, <2>2
<1>12. ends[n] = {}
  BY <1>11
<1> QED
  BY <1>2, <1>12 DEF IsAcyclic, n

\* However far back along the order it is looked for, no gate ends before the time it takes
\* or later than the schedule says.
LEMMA EarliestIsBounded ==
    ASSUME IsFiniteSet(Gates), NEW order, NEW P, KeepsOrder(P, order)
    PROVE  \A g \in Gates : /\ EarliestEnd(order)[g] \in Nat
                            /\ EarliestEnd(order)[g] <= P[g].finish
<1> DEFINE n == Cardinality(Gates)
           end == CHOOSE e : Unrolled(e, order, n)
           step(m) == IF m = 0 THEN [g \in Gates |-> g.time] ELSE Later(end[m - 1], order)
<1>1. n \in Nat
  BY FS_CardinalityType
<1>2. EarliestEnd(order) = end[n]
  BY EarliestMeaning
<1> HIDE DEF n
<1>3. Unrolled(end, order, n)
  BY <1>1, UnrollingExists
<1> HIDE DEF end
<1>4. \A m \in 0 .. n : end[m] = step(m)
  <2>1. end = [m \in 0 .. n |-> step(m)]
    BY <1>3 DEF Unrolled
  <2> HIDE DEF step
  <2> QED
    BY <2>1
<1>5. \A g \in Gates : P[g].finish \in Nat /\ g.time \in Nat /\ g.time <= P[g].finish
  BY DEF KeepsOrder, Positions
<1> DEFINE T == {k \in 0 .. n : \A g \in Gates : end[k][g] \in Nat /\ end[k][g] <= P[g].finish}
<1>6. 0 \in T
  <2>1. 0 \in 0 .. n /\ end[0] = [g \in Gates |-> g.time]
    BY <1>1, <1>4
  <2>2. \A g \in Gates : end[0][g] = g.time
    BY <2>1
  <2> QED
    BY <1>5, <2>1, <2>2
<1>7. ASSUME NEW k \in 1 .. n, k - 1 \in T
      PROVE  k \in T
  <2>1. k \in 0 .. n /\ k # 0 /\ k \in Nat
    OBVIOUS
  <2>2. end[k] = Later(end[k - 1], order)
    BY <1>4, <2>1
  <2>3. ASSUME NEW g \in Gates
        PROVE  end[k][g] \in Nat /\ end[k][g] <= P[g].finish
    <3> DEFINE before == Preds(g, Gates, order)
               latest == LatestOf(end[k - 1], before)
    <3>1. \A f \in before : f \in Gates /\ <<f, g>> \in order
      BY DEF Preds
    <3>2. IsFiniteSet(before)
      BY FS_Subset DEF Preds
    <3>3. end[k][g] = g.time + latest
      BY <2>2 DEF Later
    <3> HIDE DEF before
    <3>4. \A f \in before : end[k - 1][f] \in Nat /\ end[k - 1][f] <= P[f].finish
      BY <1>7, <3>1
    <3>5. latest \in Nat /\ (latest = 0 \/ \E f \in before : latest = end[k - 1][f])
      BY <3>2, <3>4, LatestMeaning
    <3> HIDE DEF latest
    <3>6. CASE latest = 0
      BY <1>5, <3>3, <3>6
    <3>7. CASE \E f \in before : latest = end[k - 1][f]
      <4>1. PICK f \in before : latest = end[k - 1][f]
        BY <3>7
      <4>2. P[f].finish + g.time <= P[g].finish /\ P[f].finish \in Nat
        BY <1>5, <3>1, <4>1 DEF KeepsOrder, Follows
      <4>3. latest <= P[f].finish
        BY <3>4, <4>1
      <4> QED
        BY <1>5, <3>3, <3>5, <4>2, <4>3
    <3> QED
      BY <3>5, <3>6, <3>7
  <2> QED
    BY <2>1, <2>3
<1>8. T \in SUBSET (0 .. n)
  OBVIOUS
<1> HIDE DEF T
<1>9. T = 0 .. n
  BY <1>1, <1>6, <1>7, <1>8, UpTo
<1>10. n \in T
  BY <1>1, <1>9
<1> QED
  BY <1>2, <1>10 DEF T

-----------------------------------------------------------------------------
(* How qubits are in a schedule.                                            *)

\* The gates of a wire s come one after the other.
Rises(P, s) == \A i \in 1 .. Len(s) - 1 : Follows(P[s[i]], P[s[i + 1]], s[i + 1].time)

BusyFrom(m) == IF m.start = MinValue THEN Zero ELSE m.start

\* A qubit without a gate is not busy; the gates of any other are within its busy time.
FillsTime(P, s, m) ==
    /\ m.end = Zero <=> s = << >>
    /\ s # << >> => /\ BeginsAfter(P[s[1]], BusyFrom(m), s[1].time)
                    /\ EndsBy(P[s[Len(s)]], m.end)

\* Before its first gate with a partner a qubit o has no start, and its gates wait.
Waits(P, s, o) == \A i \in 1 .. Len(s) :
    s[i].on = {o} /\ P[s[i]].at = Zero /\ P[s[i]].place > 0

\* The wire s of the object o with the metrics m.
QubitFits(P, s, m, o) ==
    /\ Rises(P, s) /\ FillsTime(P, s, m)
    /\ \A i \in 1 .. Len(s) : P[s[i]].finish <= m.end.depth
    /\ m.start \in Times \/ (m.start = MinValue /\ Waits(P, s, o))

\* A gate on one qubit that waits comes after those that wait.
WaitingAt(P, s, m, time) ==
    [at |-> Zero, place |-> IF s = << >> THEN 1 ELSE P[s[Len(s)]].place + 1,
     finish |-> m.end.depth + time]

\* Every other gate is where its qubits are available again.
FixedAt(t, time) == [at |-> AdvanceBy(t, time), place |-> 0, finish |-> t.depth + time]

\* The first gate with a partner moves those that wait to the start.
MovedTo(p, start) == [at |-> start, place |-> p.place, finish |-> p.finish + start.depth]

\* What is after a time, and how late that is.
LEMMA AdvanceMeaning ==
    ASSUME NEW t \in Times, NEW time \in Nat
    PROVE  /\ AdvanceBy(t, time) \in Times /\ Before(t, AdvanceBy(t, time))
           /\ AdvanceBy(t, time).depth = t.depth + time
           /\ AdvanceBy(t, time) # Zero /\ Before(Zero, AdvanceBy(t, time))
           /\ AtMost(Zero, t) /\ t.depth \in Nat
<1>1. PICK d \in Nat, z \in Nat : t = [depth |-> d, zeros |-> z]
  BY DEF Times
<1>2. Zero = [depth |-> 0, zeros |-> 0]
  BY DEF Zero, Time
<1>3. CASE time = 0
  <2>1. AdvanceBy(t, time) = [depth |-> d, zeros |-> z + 1]
    BY <1>1, <1>3 DEF AdvanceBy, Time
  <2> QED
    BY <1>1, <1>2, <1>3, <2>1 DEF Times, Before, AtMost
<1>4. CASE time # 0
  <2>1. AdvanceBy(t, time) = [depth |-> d + time, zeros |-> 0]
    BY <1>1, <1>4 DEF AdvanceBy, Time
  <2> QED
    BY <1>1, <1>2, <1>4, <2>1 DEF Times, Before, AtMost
<1> QED
  BY <1>3, <1>4

\* A busy time that is moved to end at t begins in time.
LEMMA SubtractMeaning ==
    ASSUME NEW t \in Times, NEW e \in Times, AtMost(e, t)
    PROVE  /\ Subtract(t, e) \in Times /\ AtMost(Subtract(t, e), t)
           /\ Subtract(t, e).depth + e.depth = t.depth
           /\ e.depth \in Nat /\ t.depth \in Nat /\ Subtract(t, e).depth \in Nat
<1>1. PICK d \in Nat, z \in Nat : t = [depth |-> d, zeros |-> z]
  BY DEF Times
<1>2. PICK f \in Nat, y \in Nat : e = [depth |-> f, zeros |-> y]
  BY DEF Times
<1>3. f < d \/ (f = d /\ y <= z)
  BY <1>1, <1>2 DEF AtMost, Before
<1>4. CASE d = f
  <2>1. Subtract(t, e) = [depth |-> 0, zeros |-> z - y]
    BY <1>1, <1>2, <1>4 DEF Subtract, Time
  <2>2. z - y \in Nat
    BY <1>3, <1>4
  <2> QED
    BY <1>1, <1>2, <1>3, <1>4, <2>1, <2>2 DEF Times, Before, AtMost
<1>5. CASE d # f
  <2>1. Subtract(t, e) = [depth |-> d - f, zeros |-> 0]
    BY <1>1, <1>2, <1>5 DEF Subtract, Time
  <2>2. d - f \in Nat
    BY <1>3, <1>5
  <2> QED
    BY <1>1, <1>2, <1>3, <1>5, <2>1, <2>2 DEF Times, Before, AtMost
<1> QED
  BY <1>4, <1>5

\* A wire with a gate more.
LEMMA LongerWire ==
    ASSUME NEW s \in Seq(GateRecords), NEW g \in GateRecords
    PROVE  LET s2 == Append(s, g) IN
           /\ Len(s) \in Nat /\ Len(s2) = Len(s) + 1 /\ s2 # << >> /\ s2[Len(s2)] = g
           /\ \A i \in 1 .. Len(s) : s2[i] = s[i]
           /\ s = << >> <=> Len(s) = 0
<1>1. Len(s) \in Nat /\ (s = << >> <=> Len(s) = 0)
  BY LenProperties, EmptySeq
<1>2. /\ Append(s, g) \in Seq(GateRecords) /\ Len(Append(s, g)) = Len(s) + 1
      /\ Append(s, g)[Len(s) + 1] = g /\ \A i \in 1 .. Len(s) : Append(s, g)[i] = s[i]
  BY AppendProperties
<1> QED
  BY <1>1, <1>2, EmptySeq

\* Gates that rise, and one after the last.
LEMMA RisesLonger ==
    ASSUME NEW P, NEW s \in Seq(GateRecords), NEW g \in GateRecords, Rises(P, s),
           s # << >> => Follows(P[s[Len(s)]], P[g], g.time)
    PROVE  Rises(P, Append(s, g))
<1> DEFINE s2 == Append(s, g)
           n == Len(s)
<1>1. /\ n \in Nat /\ Len(s2) = n + 1 /\ s2[n + 1] = g
      /\ \A i \in 1 .. n : s2[i] = s[i]
      /\ s = << >> <=> n = 0
  BY LongerWire
<1> HIDE DEF s2
<1>2. ASSUME NEW i \in 1 .. Len(s2) - 1
      PROVE  Follows(P[s2[i]], P[s2[i + 1]], s2[i + 1].time)
  <2>1. CASE i = n
    <3>1. s2[i] = s[n] /\ s2[i + 1] = g /\ s # << >>
      BY <1>1, <2>1
    <3> QED
      BY <3>1
  <2>2. CASE i # n
    <3>1. i \in 1 .. n - 1 /\ i \in 1 .. n /\ i + 1 \in 1 .. n
      BY <1>1, <2>2
    <3>2. s2[i] = s[i] /\ s2[i + 1] = s[i + 1]
      BY <1>1, <3>1
    <3> QED
      BY <3>1, <3>2 DEF Rises
  <2> QED
    BY <2>1, <2>2
<1> QED
  BY <1>2 DEF Rises, s2

\* Where gates are that a schedule can have.
Placed(P, g) == P[g] \in Positions /\ g.time <= P[g].finish

AllPlaced(P, s) == \A i \in 1 .. Len(s) : Placed(P, s[i])

LEMMA LongerPlaced ==
    ASSUME NEW P, NEW s \in Seq(GateRecords), NEW g \in GateRecords, AllPlaced(P, s), Placed(P, g)
    PROVE  AllPlaced(P, Append(s, g))
<1> DEFINE s2 == Append(s, g)
           n == Len(s)
<1>1. /\ n \in Nat /\ Len(s2) = n + 1 /\ s2[n + 1] = g
      /\ \A i \in 1 .. n : s2[i] = s[i]
  BY LongerWire
<1> HIDE DEF s2
<1>2. ASSUME NEW i \in 1 .. Len(s2)
      PROVE  Placed(P, s2[i])
  <2>1. CASE i = n + 1
    BY <1>1, <2>1
  <2>2. CASE i # n + 1
    <3>1. i \in 1 .. n
      BY <1>1, <2>2
    <3> QED
      BY <1>1, <3>1 DEF AllPlaced
  <2> QED
    BY <2>1, <2>2
<1> QED
  BY <1>2 DEF AllPlaced, s2

\* No gate of a longer wire ends later than its last.
LEMMA LongerEnds ==
    ASSUME NEW P, NEW s \in Seq(GateRecords), NEW g \in GateRecords, NEW d,
           \A i \in 1 .. Len(s) : P[s[i]].finish <= d, P[g].finish <= d
    PROVE  \A i \in 1 .. Len(Append(s, g)) : P[Append(s, g)[i]].finish <= d
<1> DEFINE s2 == Append(s, g)
           n == Len(s)
<1>1. /\ n \in Nat /\ Len(s2) = n + 1 /\ s2[n + 1] = g
      /\ \A i \in 1 .. n : s2[i] = s[i]
  BY LongerWire
<1> HIDE DEF s2
<1>2. ASSUME NEW i \in 1 .. Len(s2)
      PROVE  P[s2[i]].finish <= d
  <2>1. CASE i = n + 1
    BY <1>1, <2>1
  <2>2. CASE i # n + 1
    <3>1. i \in 1 .. n
      BY <1>1, <2>2
    <3> QED
      BY <1>1, <3>1
  <2> QED
    BY <2>1, <2>2
<1> QED
  BY <1>2 DEF s2

\* A gate g from t on of a qubit that is fixed in time; its other gates stay where they are.
AddsFixed(P, P2, s, m, t, g, m2) ==
    /\ m.start # MinValue /\ AtMost(m.end, t)
    /\ m2.start = m.start /\ m2.end = AdvanceBy(t, g.time)
    /\ P2[g] = FixedAt(t, g.time) /\ \A i \in 1 .. Len(s) : P2[s[i]] = P[s[i]]

LEMMA FixedFits ==
    ASSUME NEW P, NEW P2, NEW s \in Seq(GateRecords), NEW o, NEW m \in [start : Starts, end : Times],
           QubitFits(P, s, m, o), AllPlaced(P, s), Before(m.start, m.end),
           NEW t \in Times, NEW g \in GateRecords, NEW m2, AddsFixed(P, P2, s, m, t, g, m2)
    PROVE  QubitFits(P2, Append(s, g), m2, o) /\ AllPlaced(P2, Append(s, g))
<1> USE DEF AddsFixed
<1> DEFINE s2 == Append(s, g)
           n == Len(s)
           time == g.time
           e == AdvanceBy(t, time)
<1>1. /\ n \in Nat /\ Len(s2) = n + 1 /\ s2[n + 1] = g /\ s2 # << >>
      /\ \A i \in 1 .. n : s2[i] = s[i]
      /\ s = << >> <=> n = 0
  BY LongerWire
<1>2. time \in Nat /\ m.end \in Times /\ m.start \in Times /\ m2.start = m.start /\ m2.end = e
  BY DEF GateRecords, QubitFits
<1>3. /\ e \in Times /\ Before(t, e) /\ e.depth = t.depth + time /\ e # Zero /\ t.depth \in Nat
      /\ m.end.depth \in Nat /\ m.start.depth \in Nat
  BY <1>2, AdvanceMeaning DEF Times
<1>4. /\ t \in Starts /\ e \in Starts /\ m.end \in Starts /\ m.start \in Starts
  BY <1>2, <1>3, TimesAreStarts
<1>5. /\ AtMost(m.end, t) /\ m.end.depth <= t.depth /\ Before(m.end, e)
      /\ Before(m.start, t) /\ m.start.depth <= t.depth /\ Before(m.start, e)
  BY <1>3, <1>4, TimesCompare
<1>6. P2[g].at = e /\ P2[g].place = 0 /\ P2[g].finish = t.depth + time /\ Placed(P2, g)
  <2>1. P2[g] = [at |-> e, place |-> 0, finish |-> t.depth + time]
    BY DEF FixedAt
  <2> HIDE DEF e
  <2> QED
    BY <1>2, <1>3, <2>1 DEF Positions, Placed
<1> HIDE DEF s2, e, time
<1>7. AllPlaced(P2, s) /\ Rises(P2, s)
  <2>1. \A i \in 1 .. n : P2[s[i]] = P[s[i]]
    OBVIOUS
  <2>2. \A i \in 1 .. n - 1 : i \in 1 .. n /\ i + 1 \in 1 .. n
    BY <1>1
  <2> QED
    BY <2>1, <2>2 DEF AllPlaced, Placed, Rises, QubitFits
<1>8. ASSUME s # << >>
      PROVE  /\ n \in 1 .. n /\ 1 \in 1 .. n /\ P2[s[n]] = P[s[n]] /\ P2[s[1]] = P[s[1]]
             /\ s2[1] = s[1] /\ s2[n] = s[n]
             /\ P[s[n]] \in Positions /\ EndsBy(P[s[n]], m.end)
             /\ BeginsAfter(P[s[1]], m.start, s[1].time)
             /\ P[s[n]].finish <= m.end.depth
  <2>1. n \in 1 .. n /\ 1 \in 1 .. n
    BY <1>1, <1>8
  <2>2. EndsBy(P[s[n]], m.end) /\ BeginsAfter(P[s[1]], BusyFrom(m), s[1].time)
    BY <1>8 DEF QubitFits, FillsTime
  <2> QED
    BY <1>1, <2>1, <2>2 DEF BusyFrom, AllPlaced, Placed, QubitFits
<1>9. s # << >> => Follows(P2[s[n]], P2[g], time)
  <2> SUFFICES ASSUME s # << >> PROVE Follows(P2[s[n]], P2[g], time)
    OBVIOUS
  <2>1. P[s[n]].at \in Starts /\ P[s[n]].finish \in Nat /\ P[s[n]].finish <= m.end.depth
    BY <1>8, TimesAreStarts DEF Positions
  <2>2. AtMost(P[s[n]].at, m.end)
    BY <1>4, <1>8, <2>1, TimesCompare DEF EndsBy
  <2>3. Before(P[s[n]].at, e)
    BY <1>4, <1>5, <2>1, <2>2, TimesCompare
  <2>4. P[s[n]].finish + time <= t.depth + time
    BY <1>2, <1>3, <1>5, <2>1
  <2> QED
    BY <1>6, <1>8, <2>3, <2>4 DEF Follows, Goes
<1>10. Rises(P2, s2) /\ AllPlaced(P2, s2)
  BY <1>6, <1>7, <1>9, RisesLonger, LongerPlaced DEF s2, time
<1>11. \A i \in 1 .. Len(s2) : P2[s2[i]].finish <= m2.end.depth
  <2>1. ASSUME NEW i \in 1 .. n
        PROVE  P2[s[i]].finish <= m2.end.depth
    <3>1. P[s[i]].finish <= m.end.depth /\ P[s[i]].finish \in Nat
      BY DEF QubitFits, AllPlaced, Placed, Positions
    <3> QED
      BY <1>2, <1>3, <1>5, <3>1
  <2>2. P2[g].finish <= m2.end.depth
    BY <1>2, <1>3, <1>6
  <2> QED
    BY <2>1, <2>2, LongerEnds DEF s2
<1>12. FillsTime(P2, s2, m2)
  <2>1. BusyFrom(m2) = m.start
    BY <1>2 DEF BusyFrom
  <2>2. BeginsAfter(P2[s2[1]], m.start, s2[1].time)
    <3>1. CASE s = << >>
      <4>1. s2[1] = g /\ Before(m.start, P2[g].at)
        BY <1>1, <1>5, <1>6, <3>1
      <4>2. m.start.depth + time <= P2[g].finish
        BY <1>2, <1>3, <1>5, <1>6
      <4> QED
        BY <4>1, <4>2 DEF BeginsAfter, time
    <3>2. CASE s # << >>
      BY <1>8, <3>2
    <3> QED
      BY <3>1, <3>2
  <2>3. EndsBy(P2[s2[Len(s2)]], m2.end)
    <3>1. s2[Len(s2)] = g
      BY <1>1
    <3>2. P2[g].finish <= e.depth
      BY <1>2, <1>3, <1>6
    <3> QED
      BY <1>2, <1>6, <3>1, <3>2 DEF EndsBy
  <2> QED
    BY <1>1, <1>2, <1>3, <2>1, <2>2, <2>3 DEF FillsTime
<1>13. QubitFits(P2, s2, m2, o)
  BY <1>2, <1>10, <1>11, <1>12 DEF QubitFits
<1> QED
  BY <1>10, <1>13 DEF s2

\* A gate on one qubit that waits for its first gate with a partner.
LEMMA WaitingFits ==
    ASSUME NEW P, NEW P2, NEW s \in Seq(GateRecords), NEW o, NEW m \in [start : Starts, end : Times],
           QubitFits(P, s, m, o), AllPlaced(P, s), m.start = MinValue,
           \A i \in 1 .. Len(s) : P2[s[i]] = P[s[i]],
           NEW g \in GateRecords, g.on = {o}, P2[g] = WaitingAt(P, s, m, g.time),
           NEW m2, m2 = [start |-> MinValue, end |-> AdvanceBy(m.end, g.time)]
    PROVE  QubitFits(P2, Append(s, g), m2, o) /\ AllPlaced(P2, Append(s, g))
<1> DEFINE s2 == Append(s, g)
           n == Len(s)
           time == g.time
           e == AdvanceBy(m.end, time)
<1>1. /\ n \in Nat /\ Len(s2) = n + 1 /\ s2[n + 1] = g /\ s2 # << >>
      /\ \A i \in 1 .. n : s2[i] = s[i]
      /\ s = << >> <=> n = 0
  BY LongerWire
<1>2. /\ time \in Nat /\ m.end \in Times /\ m2.start = MinValue /\ m2.end = e
      /\ MinValue \notin Times /\ Zero \in Times /\ Zero.depth = 0
  BY DEF GateRecords, MinValue, Zero, Time, Times
<1>3. /\ e \in Times /\ e.depth = m.end.depth + time /\ e # Zero /\ m.end.depth \in Nat
      /\ Before(Zero, e)
  BY <1>2, AdvanceMeaning
<1>4. Waits(P, s, o)
  BY <1>2 DEF QubitFits
<1>5. ASSUME s # << >>
      PROVE  /\ n \in 1 .. n /\ 1 \in 1 .. n /\ P2[s[n]] = P[s[n]] /\ P2[s[1]] = P[s[1]]
             /\ s2[1] = s[1] /\ s2[n] = s[n]
             /\ P[s[n]] \in Positions /\ P[s[n]].finish <= m.end.depth
             /\ P[s[n]].at = Zero /\ P[s[n]].place \in Nat
             /\ BeginsAfter(P[s[1]], Zero, s[1].time)
  <2>1. n \in 1 .. n /\ 1 \in 1 .. n
    BY <1>1, <1>5
  <2>2. BeginsAfter(P[s[1]], BusyFrom(m), s[1].time)
    BY <1>5 DEF QubitFits, FillsTime
  <2>3. P[s[n]] \in Positions /\ P[s[n]].finish <= m.end.depth /\ P[s[n]].at = Zero
    BY <1>4, <2>1 DEF QubitFits, AllPlaced, Placed, Waits
  <2>4. P[s[n]].place \in Nat
    BY <2>3 DEF Positions
  <2> QED
    BY <1>1, <2>1, <2>2, <2>3, <2>4 DEF BusyFrom
<1>6. /\ P2[g].at = Zero /\ P2[g].place > 0 /\ P2[g].finish = m.end.depth + time
      /\ s # << >> => P2[g].place = P[s[n]].place + 1
      /\ Placed(P2, g)
  <2> DEFINE place == IF s = << >> THEN 1 ELSE P[s[Len(s)]].place + 1
  <2>1. P2[g] = [at |-> Zero, place |-> place, finish |-> m.end.depth + time]
    BY DEF WaitingAt
  <2>2. place \in Nat /\ place > 0 /\ (s # << >> => place = P[s[n]].place + 1)
    BY <1>5
  <2> HIDE DEF place
  <2> QED
    BY <1>2, <1>3, <2>1, <2>2 DEF Positions, Placed
<1> HIDE DEF s2, e, time
<1>7. AllPlaced(P2, s) /\ Rises(P2, s)
  <2>1. \A i \in 1 .. n : P2[s[i]] = P[s[i]]
    OBVIOUS
  <2>2. \A i \in 1 .. n - 1 : i \in 1 .. n /\ i + 1 \in 1 .. n
    BY <1>1
  <2> QED
    BY <2>1, <2>2 DEF AllPlaced, Placed, Rises, QubitFits
<1>8. s # << >> => Follows(P2[s[n]], P2[g], time)
  <2> SUFFICES ASSUME s # << >> PROVE Follows(P2[s[n]], P2[g], time)
    OBVIOUS
  <2>1. P[s[n]].finish \in Nat
    BY <1>5 DEF Positions
  <2>2. P[s[n]].finish + time <= m.end.depth + time /\ P[s[n]].place < P2[g].place
    BY <1>2, <1>3, <1>5, <1>6, <2>1
  <2> QED
    BY <1>5, <1>6, <2>2 DEF Follows, Goes
<1>9. Rises(P2, s2) /\ AllPlaced(P2, s2)
  BY <1>6, <1>7, <1>8, RisesLonger, LongerPlaced DEF s2, time
<1>10. \A i \in 1 .. Len(s2) : P2[s2[i]].finish <= m2.end.depth
  <2>1. ASSUME NEW i \in 1 .. n
        PROVE  P2[s[i]].finish <= m2.end.depth
    <3>1. P[s[i]].finish <= m.end.depth /\ P[s[i]].finish \in Nat
      BY DEF QubitFits, AllPlaced, Placed, Positions
    <3> QED
      BY <1>2, <1>3, <3>1
  <2>2. P2[g].finish <= m2.end.depth
    BY <1>2, <1>3, <1>6
  <2> QED
    BY <2>1, <2>2, LongerEnds DEF s2
<1>11. FillsTime(P2, s2, m2)
  <2>1. BusyFrom(m2) = Zero
    BY <1>2 DEF BusyFrom
  <2>2. BeginsAfter(P2[s2[1]], Zero, s2[1].time)
    <3>1. CASE s = << >>
      <4>1. s2[1] = g /\ P2[g].at = Zero /\ P2[g].place > 0
        BY <1>1, <1>6, <3>1
      <4>2. Zero.depth + time <= P2[g].finish
        BY <1>2, <1>3, <1>6
      <4> QED
        BY <4>1, <4>2 DEF BeginsAfter, time
    <3>2. CASE s # << >>
      BY <1>5, <3>2
    <3> QED
      BY <3>1, <3>2
  <2>3. EndsBy(P2[s2[Len(s2)]], m2.end)
    <3>1. s2[Len(s2)] = g
      BY <1>1
    <3>2. P2[g].finish <= e.depth
      BY <1>2, <1>3, <1>6
    <3> QED
      BY <1>2, <1>3, <1>6, <3>1, <3>2 DEF EndsBy
  <2> QED
    BY <1>1, <1>2, <1>3, <2>1, <2>2, <2>3 DEF FillsTime
<1>12. Waits(P2, s2, o)
  <2>1. ASSUME NEW i \in 1 .. Len(s2)
        PROVE  s2[i].on = {o} /\ P2[s2[i]].at = Zero /\ P2[s2[i]].place > 0
    <3>1. CASE i = n + 1
      BY <1>1, <1>6, <3>1
    <3>2. CASE i # n + 1
      <4>1. i \in 1 .. n
        BY <1>1, <3>2
      <4> QED
        BY <1>1, <1>4, <4>1 DEF Waits
    <3> QED
      BY <3>1, <3>2
  <2> QED
    BY <2>1 DEF Waits
<1>13. QubitFits(P2, s2, m2, o)
  BY <1>2, <1>9, <1>10, <1>11, <1>12 DEF QubitFits
<1> QED
  BY <1>9, <1>13 DEF s2

\* What is moved stays in its order.
LEMMA MovedFollows ==
    ASSUME NEW p \in Positions, NEW q \in Positions, p.at = Zero, q.at = Zero, NEW start \in Times,
           NEW time \in Nat, Follows(p, q, time)
    PROVE  Follows(MovedTo(p, start), MovedTo(q, start), time)
<1>1. start.depth \in Nat /\ p.finish \in Nat /\ q.finish \in Nat
  BY DEF Times, Positions
<1>2. ~ Before(Zero, Zero)
  BY TimesAreStarts, TimesCompare
<1>3. p.place < q.place /\ p.finish + time <= q.finish
  BY <1>2 DEF Follows, Goes
<1>4. p.finish + start.depth + time <= q.finish + start.depth
  BY <1>1, <1>3
<1> QED
  BY <1>3, <1>4 DEF MovedTo, Follows, Goes

\* The first gate of a qubit with a partner.
LEMMA MovedFits ==
    ASSUME NEW P, NEW P2, NEW s \in Seq(GateRecords), NEW o, NEW m \in [start : Starts, end : Times],
           QubitFits(P, s, m, o), AllPlaced(P, s), m.start = MinValue,
           NEW t \in Times, AtMost(m.end, t),
           \A i \in 1 .. Len(s) : P2[s[i]] = MovedTo(P[s[i]], Subtract(t, m.end)),
           NEW g \in GateRecords, P2[g] = FixedAt(t, g.time),
           NEW m2, m2 = [start |-> Subtract(t, m.end), end |-> AdvanceBy(t, g.time)]
    PROVE  QubitFits(P2, Append(s, g), m2, o) /\ AllPlaced(P2, Append(s, g))
<1> DEFINE s2 == Append(s, g)
           n == Len(s)
           time == g.time
           e == AdvanceBy(t, time)
           start == Subtract(t, m.end)
<1>1. /\ n \in Nat /\ Len(s2) = n + 1 /\ s2[n + 1] = g /\ s2 # << >>
      /\ \A i \in 1 .. n : s2[i] = s[i]
      /\ s = << >> <=> n = 0
  BY LongerWire
<1>2. /\ time \in Nat /\ m.end \in Times /\ m2.start = start /\ m2.end = e
      /\ MinValue \notin Times /\ Zero.depth = 0
  BY DEF GateRecords, MinValue, Zero, Time, Times
<1>3. /\ e \in Times /\ Before(t, e) /\ e.depth = t.depth + time /\ e # Zero /\ t.depth \in Nat
      /\ start \in Times /\ AtMost(start, t) /\ start.depth + m.end.depth = t.depth
      /\ m.end.depth \in Nat /\ start.depth \in Nat
  BY <1>2, AdvanceMeaning, SubtractMeaning
<1>4. t \in Starts /\ e \in Starts /\ start \in Starts
  BY <1>3, TimesAreStarts
<1>5. Before(start, e) /\ start.depth <= t.depth
  BY <1>3, <1>4, TimesCompare
<1>6. P2[g].at = e /\ P2[g].place = 0 /\ P2[g].finish = t.depth + time /\ Placed(P2, g)
  <2>1. P2[g] = [at |-> e, place |-> 0, finish |-> t.depth + time]
    BY DEF FixedAt
  <2> HIDE DEF e
  <2> QED
    BY <1>2, <1>3, <2>1 DEF Positions, Placed
<1> HIDE DEF s2, e, time, start
<1>7. ASSUME NEW i \in 1 .. n
      PROVE  /\ P2[s[i]] = MovedTo(P[s[i]], start) /\ P[s[i]] \in Positions /\ s[i].time \in Nat
             /\ P[s[i]].at = Zero /\ P[s[i]].place > 0
             /\ P2[s[i]].at = start /\ P2[s[i]].place > 0
             /\ P2[s[i]].finish = P[s[i]].finish + start.depth
             /\ P2[s[i]].finish \in Nat /\ P2[s[i]].finish <= t.depth
             /\ Placed(P2, s[i])
  <2>1. P[s[i]] \in Positions /\ s[i].time <= P[s[i]].finish /\ P[s[i]].finish <= m.end.depth
    BY DEF AllPlaced, Placed, QubitFits
  <2>2. P[s[i]].at = Zero /\ P[s[i]].place > 0
    BY <1>2 DEF QubitFits, Waits
  <2>3. s[i].time \in Nat
    <3>1. s[i] \in GateRecords
      BY ElementOfSeq
    <3> QED
      BY <3>1 DEF GateRecords
  <2>4. P2[s[i]] = [at |-> start, place |-> P[s[i]].place, finish |-> P[s[i]].finish + start.depth]
    BY DEF MovedTo, start
  <2>5. P[s[i]].place \in Nat /\ P[s[i]].finish \in Nat
    BY <2>1 DEF Positions
  <2>6. /\ P[s[i]].finish + start.depth \in Nat /\ P[s[i]].finish + start.depth <= t.depth
        /\ s[i].time <= P[s[i]].finish + start.depth
    BY <1>3, <2>1, <2>3, <2>5
  <2> QED
    BY <1>3, <2>1, <2>2, <2>3, <2>4, <2>5, <2>6 DEF Positions, Placed, MovedTo
<1>8. AllPlaced(P2, s)
  BY <1>7 DEF AllPlaced
<1>9. Rises(P2, s)
  <2>1. ASSUME NEW i \in 1 .. n - 1
        PROVE  Follows(P2[s[i]], P2[s[i + 1]], s[i + 1].time)
    <3>1. i \in 1 .. n /\ i + 1 \in 1 .. n
      BY <1>1
    <3>2. Follows(P[s[i]], P[s[i + 1]], s[i + 1].time)
      BY DEF QubitFits, Rises
    <3> DEFINE p == P[s[i]]
               q == P[s[i + 1]]
    <3>3. p \in Positions /\ p.at = Zero /\ P2[s[i]] = MovedTo(p, start)
      BY <1>7, <3>1
    <3>4. /\ q \in Positions /\ q.at = Zero /\ P2[s[i + 1]] = MovedTo(q, start)
          /\ s[i + 1].time \in Nat
      BY <1>7, <3>1
    <3>5. start \in Times /\ Follows(p, q, s[i + 1].time)
      BY <1>3, <3>2
    <3> HIDE DEF p, q
    <3>6. Follows(MovedTo(p, start), MovedTo(q, start), s[i + 1].time)
      BY <3>3, <3>4, <3>5, MovedFollows
    <3> QED
      BY <3>3, <3>4, <3>6
  <2> QED
    BY <2>1 DEF Rises
<1>10. s # << >> => Follows(P2[s[n]], P2[g], time)
  <2> SUFFICES ASSUME s # << >> PROVE Follows(P2[s[n]], P2[g], time)
    OBVIOUS
  <2>1. n \in 1 .. n
    BY <1>1
  <2>2. P2[s[n]].at = start /\ P2[s[n]].finish \in Nat /\ P2[s[n]].finish <= t.depth
    BY <1>7, <2>1
  <2>3. P2[s[n]].finish + time <= t.depth + time
    BY <1>2, <1>3, <2>2
  <2> QED
    BY <1>5, <1>6, <2>2, <2>3 DEF Follows, Goes
<1>11. Rises(P2, s2) /\ AllPlaced(P2, s2)
  BY <1>6, <1>8, <1>9, <1>10, RisesLonger, LongerPlaced DEF s2, time
<1>12. \A i \in 1 .. Len(s2) : P2[s2[i]].finish <= m2.end.depth
  <2>1. ASSUME NEW i \in 1 .. n
        PROVE  P2[s[i]].finish <= m2.end.depth
    <3>1. P2[s[i]].finish \in Nat /\ P2[s[i]].finish <= t.depth
      BY <1>7
    <3> QED
      BY <1>2, <1>3, <3>1
  <2>2. P2[g].finish <= m2.end.depth
    BY <1>2, <1>3, <1>6
  <2> QED
    BY <2>1, <2>2, LongerEnds DEF s2
<1>13. FillsTime(P2, s2, m2)
  <2>1. BusyFrom(m2) = start
    BY <1>2, <1>3 DEF BusyFrom
  <2>2. BeginsAfter(P2[s2[1]], start, s2[1].time)
    <3>1. CASE s = << >>
      <4>1. s2[1] = g /\ Before(start, P2[g].at)
        BY <1>1, <1>5, <1>6, <3>1
      <4>2. start.depth + time <= P2[g].finish
        BY <1>2, <1>3, <1>5, <1>6
      <4> QED
        BY <4>1, <4>2 DEF BeginsAfter, time
    <3>2. CASE s # << >>
      <4>1. 1 \in 1 .. n /\ s2[1] = s[1]
        BY <1>1, <3>2
      <4>2. BeginsAfter(P[s[1]], Zero, s[1].time)
        BY <3>2 DEF QubitFits, FillsTime, BusyFrom
      <4>3. s[1].time <= P[s[1]].finish
        BY <4>1 DEF AllPlaced, Placed
      <4>4. /\ P2[s[1]].at = start /\ P2[s[1]].place > 0
            /\ P2[s[1]].finish = P[s[1]].finish + start.depth
            /\ s[1].time \in Nat /\ P[s[1]] \in Positions
        BY <1>7, <4>1
      <4>5. P[s[1]].finish \in Nat
        BY <4>4 DEF Positions
      <4>6. start.depth + s[1].time <= P2[s[1]].finish
        BY <1>3, <4>3, <4>4, <4>5
      <4> QED
        BY <4>1, <4>4, <4>6 DEF BeginsAfter
    <3> QED
      BY <3>1, <3>2
  <2>3. EndsBy(P2[s2[Len(s2)]], m2.end)
    <3>1. s2[Len(s2)] = g
      BY <1>1
    <3>2. P2[g].finish <= e.depth
      BY <1>2, <1>3, <1>6
    <3> QED
      BY <1>2, <1>6, <3>1, <3>2 DEF EndsBy
  <2> QED
    BY <1>1, <1>2, <1>3, <2>1, <2>2, <2>3 DEF FillsTime
<1>14. QubitFits(P2, s2, m2, o)
  BY <1>2, <1>3, <1>11, <1>12, <1>13 DEF QubitFits
<1> QED
  BY <1>11, <1>14 DEF s2

-----------------------------------------------------------------------------
(* Schedules of the program's gates.                                        *)

\* What was released before q began or after it ended has its gates there.
SlotFits(P, q) ==
    LET wire == wires[q.object] IN
    /\ q.object \in DOMAIN wires \ DOMAIN metrics
    /\ wire # << >>
    /\ BeginsAfter(P[wire[1]], q.start, wire[1].time)
    /\ EndsBy(P[wire[Len(wire)]], q.end)

Slots(P) == {q \in BusyRecords : SlotFits(P, q)}

\* The depth n is within the lanes.
Covers(all, n) == \E l \in DOMAIN all : n <= Last(all[l]).end.depth

\* The depth n is within what is reported.
Kept(n) ==
    \/ n = 0
    \/ \E o \in DOMAIN metrics : n <= metrics[o].end.depth
    \/ Covers(lanes, n)
    \/ \E j \in 1 .. Len(depthCalls) : n <= depthCalls[j].returned

WiresFit(P) == \A w \in DOMAIN wires : Rises(P, wires[w]) /\ AllPlaced(P, wires[w])

QubitsFit(P) == \A o \in DOMAIN metrics : QubitFits(P, wires[o], metrics[o], o)

LanesFit(P) == \A l \in DOMAIN lanes : lanes[l] \in Seq(Slots(P))

GatesKept(P) == \A g \in Gates : Kept(P[g].finish)

ScheduleFits(P) == WiresFit(P) /\ QubitsFit(P) /\ LanesFit(P) /\ GatesKept(P)

GatesAreOn == \A w \in DOMAIN wires : \A i \in 1 .. Len(wires[w]) : w \in wires[w][i].on

LanesSpan(all) == \A l \in DOMAIN all : all[l][1].start.depth <= Last(all[l]).end.depth

\* With OptimizeDepth there is a schedule that has room for what was released, and none of
\* its gates is later than what is reported.
ScheduleInv == OptimizeDepth => GatesAreOn /\ LanesSpan(lanes) /\ \E P : ScheduleFits(P)

\* Steps without a gate: qubits that are new are on new wires, others may be given up.
GatesAlone ==
    /\ configuration' = configuration
    /\ DOMAIN wires \subseteq DOMAIN wires' /\ \A w \in DOMAIN wires : wires'[w] = wires[w]
    /\ \A w \in DOMAIN wires' : w \in DOMAIN wires \/ wires'[w] = << >>
    /\ \A o \in DOMAIN metrics' :
        \/ o \in DOMAIN metrics /\ metrics'[o] = metrics[o]
        \/ o \notin DOMAIN wires /\ metrics'[o] = NewTracingData

LEMMA LongerSeq ==
    ASSUME NEW S, NEW T, S \subseteq T, NEW s \in Seq(S)
    PROVE  s \in Seq(T)
OBVIOUS

LEMMA AloneKeepsSchedule ==
    ASSUME ObjectInv, ObjectInv', TimeInv, OptimizeDepth, GatesAreOn, NEW P, WiresFit(P),
           QubitsFit(P), GatesAlone
    PROVE  /\ Gates' = Gates /\ GatesAreOn' /\ WiresFit(P)' /\ QubitsFit(P)'
           /\ Slots(P) \subseteq Slots(P)'
           /\ \A o \in DOMAIN metrics \ DOMAIN metrics' :
                metrics[o].end # Zero => Busy(o) \in Slots(P)'
<1>1. /\ configuration' = configuration
      /\ DOMAIN wires \subseteq DOMAIN wires' /\ \A w \in DOMAIN wires : wires'[w] = wires[w]
      /\ \A w \in DOMAIN wires' : w \in DOMAIN wires \/ wires'[w] = << >>
      /\ \A o \in DOMAIN metrics' :
            \/ o \in DOMAIN metrics /\ metrics'[o] = metrics[o]
            \/ o \notin DOMAIN wires /\ metrics'[o] = NewTracingData
  BY DEF GatesAlone
<1>2. /\ wires \in [DOMAIN wires -> Seq(GateRecords)]
      /\ wires' \in [DOMAIN wires' -> Seq(GateRecords)]
      /\ \A o \in DOMAIN metrics : o \in DOMAIN wires /\ o \in QubitObjects
      /\ \A o \in DOMAIN metrics' : o \in DOMAIN wires'
  <2>1. OptimizeDepth'
    BY <1>1 DEF OptimizeDepth
  <2> QED
    BY <2>1 DEF ObjectInv, Wire
<1>3. Gates' = Gates
  <2> DEFINE W == wires
             W2 == wires'
  <2>1. /\ W \in [DOMAIN W -> Seq(GateRecords)] /\ W2 \in [DOMAIN W2 -> Seq(GateRecords)]
        /\ DOMAIN W \subseteq DOMAIN W2 /\ \A w \in DOMAIN W : W2[w] = W[w]
        /\ \A w \in DOMAIN W2 : w \in DOMAIN W \/ W2[w] = << >>
    BY <1>1, <1>2
  <2> HIDE DEF W, W2
  <2>2. GatesOf(W2) = GatesOf(W) /\ OrderOf(W2) = OrderOf(W)
    BY <2>1, WiresAdded
  <2> QED
    BY <2>2 DEF W, W2, Gates, GatesOf
<1>4. Len(<< >>) = 0 /\ \A i : i \in 1 .. 0 \/ i \in 1 .. 0 - 1 => FALSE
  OBVIOUS
<1>5. Rises(P, << >>) /\ AllPlaced(P, << >>)
  BY <1>4 DEF Rises, AllPlaced
<1>6. WiresFit(P)' /\ GatesAreOn'
  <2>1. ASSUME NEW w \in DOMAIN wires'
        PROVE  /\ Rises(P, wires'[w]) /\ AllPlaced(P, wires'[w])
               /\ \A i \in 1 .. Len(wires'[w]) : w \in wires'[w][i].on
    <3>1. CASE w \in DOMAIN wires
      BY <1>1, <3>1 DEF WiresFit, GatesAreOn
    <3>2. CASE w \notin DOMAIN wires
      BY <1>1, <1>4, <1>5, <3>2
    <3> QED
      BY <3>1, <3>2
  <2> QED
    BY <2>1 DEF WiresFit, GatesAreOn
<1>7. QubitsFit(P)'
  <2>1. ASSUME NEW o \in DOMAIN metrics'
        PROVE  QubitFits(P, wires'[o], metrics'[o], o)
    <3>1. CASE o \in DOMAIN metrics /\ metrics'[o] = metrics[o]
      BY <1>1, <1>2, <3>1 DEF QubitsFit
    <3>2. CASE o \notin DOMAIN wires /\ metrics'[o] = NewTracingData
      <4>1. wires'[o] = << >>
        BY <1>1, <1>2, <3>2
      <4>2. NewTracingData.start = MinValue /\ NewTracingData.end = Zero
        BY DEF NewTracingData
      <4>3. FillsTime(P, << >>, NewTracingData)
        BY <4>2 DEF FillsTime
      <4>4. Waits(P, << >>, o)
        BY <1>4 DEF Waits
      <4> QED
        BY <1>4, <1>5, <3>2, <4>1, <4>2, <4>3, <4>4 DEF QubitFits
    <3> QED
      BY <1>1, <3>1, <3>2
  <2> QED
    BY <2>1 DEF QubitsFit
<1>8. ASSUME NEW q \in BusyRecords, SlotFits(P, q)
      PROVE  SlotFits(P, q)'
  <2>1. q.object \in DOMAIN wires \ DOMAIN metrics
    BY <1>8 DEF SlotFits
  <2>2. wires'[q.object] = wires[q.object] /\ q.object \in DOMAIN wires' \ DOMAIN metrics'
    BY <1>1, <2>1
  <2> QED
    BY <1>8, <2>2 DEF SlotFits
<1>9. Slots(P) \subseteq Slots(P)'
  BY <1>8 DEF Slots, BusyRecords, QubitObjects, Starts, Times
<1>10. ASSUME NEW o \in DOMAIN metrics \ DOMAIN metrics', metrics[o].end # Zero
       PROVE  Busy(o) \in Slots(P)'
  <2>1. QubitFits(P, wires[o], metrics[o], o)
    BY DEF QubitsFit
  <2>2. Busy(o) \in BusyRecords
    <3>1. metrics[o].end \in Times /\ metrics[o].start \in Starts /\ Zero \in Starts
      BY DEF TimeInv, Zero, Time, Starts
    <3> QED
      BY <1>2, <3>1 DEF Busy, BusyRecords
  <2>3. PICK q \in BusyRecords : q = Busy(o)
    BY <2>2
  <2>4. q.object = o /\ q.start = BusyFrom(metrics[o]) /\ q.end = metrics[o].end
    BY <2>3 DEF Busy, BusyFrom
  <2>5. o \in DOMAIN wires' \ DOMAIN metrics' /\ wires'[o] = wires[o]
    BY <1>1, <1>2
  <2>6. SlotFits(P, q)'
    BY <1>10, <2>1, <2>4, <2>5 DEF SlotFits, QubitFits, FillsTime
  <2>7. q \in Slots(P)'
    BY <2>6 DEF Slots, BusyRecords, QubitObjects, Starts, Times
  <2> QED
    BY <2>3, <2>7
<1> QED
  BY <1>3, <1>6, <1>7, <1>9, <1>10

-----------------------------------------------------------------------------
(* Steps that leave the lanes alone.                                        *)

LEMMA GateIsPlaced ==
    ASSUME ObjectInv, NEW P, WiresFit(P), NEW g \in Gates
    PROVE  Placed(P, g) /\ P[g].finish \in Nat
<1>1. PICK w \in DOMAIN wires : g \in Range(wires[w])
  BY DEF Gates
<1>2. PICK i \in DOMAIN wires[w] : g = wires[w][i]
  BY <1>1 DEF Range
<1>3. DOMAIN wires[w] = 1 .. Len(wires[w])
  <2>1. wires[w] \in Seq(GateRecords)
    BY DEF ObjectInv
  <2> QED
    BY <2>1, LenProperties
<1>4. AllPlaced(P, wires[w])
  BY DEF WiresFit
<1>5. Placed(P, g)
  BY <1>2, <1>3, <1>4 DEF AllPlaced
<1> QED
  BY <1>5 DEF Placed, Positions

\* What calls have returned is not forgotten.
ReturnsKept ==
    \A j \in 1 .. Len(depthCalls) : \E i \in 1 .. Len(depthCalls') :
        /\ depthCalls[j].returned \in Nat /\ depthCalls'[i].returned \in Nat
        /\ depthCalls[j].returned <= depthCalls'[i].returned

\* A depth that a qubit or a record has stays.
LEMMA KeptStays ==
    ASSUME TimeInv, ReturnsKept, \A n \in Nat : Covers(lanes, n) => Covers(lanes', n),
           \A o \in DOMAIN metrics : \/ o \in DOMAIN metrics' /\ metrics'[o] = metrics[o]
                                     \/ \E k \in Nat : metrics[o].end.depth <= k /\ Kept(k)',
           TimeInv', \A i \in 1 .. Len(depthCalls') : depthCalls'[i].returned \in Nat,
           NEW n \in Nat, Kept(n),
           \A l \in DOMAIN lanes' : Last(lanes'[l]).end.depth \in Nat
    PROVE  Kept(n)'
<1>1. CASE n = 0
  BY <1>1 DEF Kept
<1>2. CASE Covers(lanes, n)
  BY <1>2 DEF Kept
<1>3. CASE \E j \in 1 .. Len(depthCalls) : n <= depthCalls[j].returned
  <2>1. PICK j \in 1 .. Len(depthCalls) : n <= depthCalls[j].returned
    BY <1>3
  <2>2. PICK i \in 1 .. Len(depthCalls') :
            /\ depthCalls[j].returned \in Nat /\ depthCalls'[i].returned \in Nat
            /\ depthCalls[j].returned <= depthCalls'[i].returned
    BY DEF ReturnsKept
  <2>3. n <= depthCalls'[i].returned
    BY <2>1, <2>2
  <2> QED
    BY <2>3 DEF Kept
<1>4. CASE \E o \in DOMAIN metrics : n <= metrics[o].end.depth
  <2>1. PICK o \in DOMAIN metrics : n <= metrics[o].end.depth
    BY <1>4
  <2>2. CASE o \in DOMAIN metrics' /\ metrics'[o] = metrics[o]
    BY <2>1, <2>2 DEF Kept
  <2>3. CASE \E k \in Nat : metrics[o].end.depth <= k /\ Kept(k)'
    <3>1. PICK k \in Nat : metrics[o].end.depth <= k /\ Kept(k)'
      BY <2>3
    <3>2. n <= k
      <4>1. metrics[o].end.depth \in Nat
        BY DEF TimeInv, Times
      <4> QED
        BY <2>1, <3>1, <4>1
    <3>3. CASE k = 0
      <4>1. n = 0
        BY <3>2, <3>3
      <4> QED
        BY <1>1, <4>1
    <3>4. CASE \E p \in DOMAIN metrics' : k <= metrics'[p].end.depth
      <4>1. PICK p \in DOMAIN metrics' : k <= metrics'[p].end.depth
        BY <3>4
      <4>2. metrics'[p].end.depth \in Nat
        BY DEF TimeInv, Times
      <4>3. n <= metrics'[p].end.depth
        BY <3>2, <4>1, <4>2
      <4> QED
        BY <4>3 DEF Kept
    <3>5. CASE Covers(lanes', k)
      <4>1. PICK l \in DOMAIN lanes' : k <= Last(lanes'[l]).end.depth
        BY <3>5 DEF Covers
      <4>2. n <= Last(lanes'[l]).end.depth
        BY <3>2, <4>1
      <4> QED
        BY <4>2 DEF Kept, Covers
    <3>6. CASE \E i \in 1 .. Len(depthCalls') : k <= depthCalls'[i].returned
      <4>1. PICK i \in 1 .. Len(depthCalls') : k <= depthCalls'[i].returned
        BY <3>6
      <4>2. n <= depthCalls'[i].returned
        BY <3>2, <4>1
      <4> QED
        BY <4>2 DEF Kept
    <3> QED
      BY <3>1, <3>3, <3>4, <3>5, <3>6 DEF Kept
  <2> QED
    BY <2>2, <2>3
<1> QED
  BY <1>1, <1>2, <1>3, <1>4 DEF Kept

\* Lanes end in time.
LEMMA LanesEnd ==
    ASSUME LaneInv, OptimizeDepth
    PROVE  \A l \in DOMAIN lanes : /\ IsLane(lanes[l]) /\ Last(lanes[l]) \in BusyRecords
                                   /\ Last(lanes[l]).end \in Times
                                   /\ Last(lanes[l]).end.depth \in Nat
<1>1. LayoutInv(Layout) /\ Layout.lanes = lanes
  BY DEF LaneInv, Layout
<1> TAKE l \in DOMAIN lanes
<1>2. IsLane(lanes[l])
  BY <1>1 DEF LayoutInv
<1>3. Last(lanes[l]) \in BusyRecords
  <2>1. lanes[l] \in Seq(BusyRecords) /\ Len(lanes[l]) > 0
    BY <1>2 DEF IsLane
  <2>2. Len(lanes[l]) \in 1 .. Len(lanes[l])
    BY <2>1
  <2> QED
    BY <2>1, <2>2, ElementOfSeq DEF Last
<1> QED
  BY <1>2, <1>3 DEF BusyRecords, Times

\* When the lanes stay, it remains to show that what was kept is.
LEMMA StayingKeepsSchedule ==
    ASSUME ObjectInv, ObjectInv', TimeInv, OptimizeDepth, ScheduleInv, GatesAlone,
           lanes' = lanes, \A n \in Nat : Kept(n) => Kept(n)'
    PROVE  ScheduleInv'
<1>1. PICK P : ScheduleFits(P)
  BY DEF ScheduleInv
<1>2. /\ Gates' = Gates /\ GatesAreOn' /\ WiresFit(P)' /\ QubitsFit(P)'
      /\ Slots(P) \subseteq Slots(P)'
  BY <1>1, AloneKeepsSchedule DEF ScheduleInv, ScheduleFits
<1>3. LanesFit(P)'
  <2>1. ASSUME NEW S, Slots(P) \subseteq S, NEW l \in DOMAIN lanes
        PROVE  lanes[l] \in Seq(S)
    <3>1. lanes[l] \in Seq(Slots(P))
      BY <1>1 DEF ScheduleFits, LanesFit
    <3> QED
      BY <2>1, <3>1, LongerSeq
  <2>2. \A l \in DOMAIN lanes : lanes[l] \in Seq(Slots(P)')
    BY <1>2, <2>1
  <2> QED
    BY <2>2 DEF LanesFit
<1>4. GatesKept(P)'
  <2>1. ASSUME NEW g \in Gates
        PROVE  P[g].finish \in Nat /\ Kept(P[g].finish)
    BY <1>1, GateIsPlaced DEF ScheduleFits, GatesKept
  <2> QED
    BY <1>2, <2>1 DEF GatesKept
<1>5. LanesSpan(lanes)'
  BY DEF ScheduleInv, LanesSpan
<1> QED
  BY <1>2, <1>3, <1>4, <1>5 DEF ScheduleInv, ScheduleFits

\* The invariants that the schedules rest on.
TraceInv == Inv /\ LaneInv /\ PathInv

LEMMA ReturnsAreNumbers ==
    ASSUME PathInv
    PROVE  \A j \in 1 .. Len(depthCalls) : depthCalls[j].returned \in Nat
BY DEF PathInv, RecordsFit, RecordFits

\* When only records change.
LEMMA RecordingKeepsSchedule ==
    ASSUME TraceInv, TraceInv', OptimizeDepth, ScheduleInv, ReturnsKept, lanes' = lanes,
           metrics' = metrics, wires' = wires, configuration' = configuration
    PROVE  ScheduleInv'
<1>1. GatesAlone
  BY DEF GatesAlone
<1>2. TimeInv /\ TimeInv' /\ ObjectInv /\ ObjectInv' /\ LaneInv
  BY DEF TraceInv, Inv, StateInv
<1>3. /\ \A n \in Nat : Covers(lanes, n) => Covers(lanes', n)
      /\ \A i \in 1 .. Len(depthCalls') : depthCalls'[i].returned \in Nat
      /\ \A l \in DOMAIN lanes' : Last(lanes'[l]).end.depth \in Nat
  <2>1. \A i \in 1 .. Len(depthCalls') : depthCalls'[i].returned \in Nat
    BY DEF TraceInv, PathInv, RecordsFit, RecordFits
  <2> QED
    BY <1>2, <2>1, LanesEnd
<1>4. \A o \in DOMAIN metrics : o \in DOMAIN metrics' /\ metrics'[o] = metrics[o]
  OBVIOUS
<1>5. ASSUME NEW n \in Nat, Kept(n)
      PROVE  Kept(n)'
  BY <1>2, <1>3, <1>4, <1>5, KeptStays
<1> QED
  BY <1>1, <1>2, <1>5, StayingKeepsSchedule

LEMMA StartKeepsSchedule ==
    ASSUME TraceInv, TraceInv', OptimizeDepth, ScheduleInv, NEW inputs, OpensCall(inputs),
           IF Recorded(Top) THEN DepthStart(inputs) ELSE UNCHANGED depthVars
    PROVE  ScheduleInv'
<1>1. metrics' = metrics /\ wires' = wires /\ configuration' = configuration /\ lanes' = lanes
  BY DEF OpensCall, ObjectsStay, DepthStart, depthVars
<1>2. \A j \in 1 .. Len(depthCalls) : depthCalls[j].returned \in Nat
  BY ReturnsAreNumbers DEF TraceInv
<1>3. Len(depthCalls) \in Nat
  BY CallsHaveFrames DEF TraceInv, Inv
<1>4. \A j \in 1 .. Len(depthCalls) : j \in 1 .. Len(depthCalls') /\ depthCalls'[j] = depthCalls[j]
  <2>1. CASE ~ Recorded(Top)
    BY <2>1 DEF depthVars
  <2>2. CASE Recorded(Top)
    <3> DEFINE d == CallRecord(inputs, MinAvailableTime(inputs), MaxAvailableTime(inputs))
               S == Range(depthCalls) \cup {d}
    <3>1. depthCalls' = Append(depthCalls, d)
      BY <2>2 DEF DepthStart
    <3>2. depthCalls \in Seq(S) /\ d \in S
      <4>1. depthCalls \in Seq(Range(depthCalls))
        BY DEF TraceInv, Inv, CallInv
      <4> QED
        BY <4>1
    <3> HIDE DEF S, d
    <3>3. /\ Len(depthCalls') = Len(depthCalls) + 1
          /\ \A j \in 1 .. Len(depthCalls) : depthCalls'[j] = depthCalls[j]
      BY <3>1, <3>2, AppendProperties
    <3> QED
      BY <1>3, <3>3
  <2> QED
    BY <2>1, <2>2
<1>5. ReturnsKept
  <2>1. ASSUME NEW j \in 1 .. Len(depthCalls)
        PROVE  /\ depthCalls[j].returned \in Nat /\ depthCalls'[j].returned \in Nat
               /\ depthCalls[j].returned <= depthCalls'[j].returned /\ j \in 1 .. Len(depthCalls')
    BY <1>2, <1>4
  <2> QED
    BY <2>1 DEF ReturnsKept
<1> QED
  BY <1>1, <1>5, RecordingKeepsSchedule

LEMMA EndKeepsSchedule ==
    ASSUME TraceInv, TraceInv', OptimizeDepth, ScheduleInv, EndOfCall, ClosesCall
    PROVE  ScheduleInv'
<1>1. metrics' = metrics /\ wires' = wires /\ configuration' = configuration /\ lanes' = lanes
  BY DEF ClosesCall, ObjectsStay, EndOfCall, DepthEnd, depthVars
<1>2. IF Recorded(Top - 1) THEN DepthEnd ELSE UNCHANGED depthVars
  BY DEF EndOfCall
<1>3. PICK E, r : EndsFit(E, r) /\ CallsCover(E) /\ RecordsFit(E)
  BY DEF TraceInv, PathInv
<1>4. EndsRecords(E)
  BY <1>2, <1>3, EndReports DEF TraceInv
<1>5. ReturnsKept
  <2> DEFINE n == Len(depthCalls')
  <2>1. ASSUME NEW j \in 1 .. Len(depthCalls)
        PROVE  \E i \in 1 .. n :
                    /\ depthCalls[j].returned \in Nat /\ depthCalls'[i].returned \in Nat
                    /\ depthCalls[j].returned <= depthCalls'[i].returned
    <3> DEFINE i == IF j <= n THEN j ELSE n
    <3>1. i \in 1 .. n /\ Reports(E, depthCalls[j], depthCalls'[i])
      BY <1>4 DEF EndsRecords
    <3> HIDE DEF i, n
    <3>2. depthCalls[j].returned \in Nat
      BY <1>3 DEF RecordsFit, RecordFits
    <3> QED
      BY <3>1, <3>2 DEF Reports, RecordFits
  <2> QED
    BY <2>1 DEF ReturnsKept
<1> QED
  BY <1>1, <1>5, RecordingKeepsSchedule

LEMMA QuietKeepsSchedule ==
    ASSUME TraceInv, TraceInv', OptimizeDepth, ScheduleInv,
           UNCHANGED <<configuration, depthVars, wires>>
    PROVE  ScheduleInv'
<1>1. /\ configuration' = configuration /\ metrics' = metrics /\ lanes' = lanes
      /\ wires' = wires /\ depthCalls' = depthCalls
  BY DEF depthVars
<1>2. \A j \in 1 .. Len(depthCalls) : depthCalls[j].returned \in Nat
  BY ReturnsAreNumbers DEF TraceInv
<1>3. ReturnsKept
  <2>1. \A j \in 1 .. Len(depthCalls) :
            /\ depthCalls[j].returned \in Nat /\ depthCalls'[j].returned \in Nat
            /\ depthCalls[j].returned <= depthCalls'[j].returned /\ j \in 1 .. Len(depthCalls')
    BY <1>1, <1>2
  <2> QED
    BY <2>1 DEF ReturnsKept
<1> QED
  BY <1>1, <1>3, RecordingKeepsSchedule

LEMMA OpenKeepsSchedule ==
    ASSUME TraceInv, TraceInv', OptimizeDepth, ScheduleInv,
           NEW kind, NEW ids, NEW lent, OpensBlock(kind, ids, lent),
           depthCalls' = depthCalls, lanes' = lanes
    PROVE  ScheduleInv'
<1> DEFINE new == Created(ids)
<1>1. /\ DOMAIN metrics' = DOMAIN metrics \cup new
      /\ \A o \in new : metrics'[o] = NewTracingData
      /\ \A o \in DOMAIN metrics : metrics'[o] = metrics[o]
  BY OpeningKeepsState DEF TraceInv, Inv
<1>2. configuration' = configuration /\ wires' = Wired(new) /\ ids \in SUBSET Nat
  BY DEF OpensBlock
<1>3. TimeInv /\ TimeInv' /\ ObjectInv /\ ObjectInv' /\ LaneInv
  BY DEF TraceInv, Inv, StateInv
<1>4. new \cap DOMAIN wires = {}
  BY <1>2, <1>3, CreatedMeaning DEF Numbered
<1> HIDE DEF new
<1>5. GatesAlone
  <2>1. /\ DOMAIN wires \subseteq DOMAIN wires' /\ \A w \in DOMAIN wires : wires'[w] = wires[w]
        /\ \A w \in DOMAIN wires' : w \in DOMAIN wires \/ wires'[w] = << >>
    BY <1>2 DEF Wired
  <2>2. \A o \in DOMAIN metrics' :
            \/ o \in DOMAIN metrics /\ metrics'[o] = metrics[o]
            \/ o \notin DOMAIN wires /\ metrics'[o] = NewTracingData
    BY <1>1, <1>4
  <2> QED
    BY <1>2, <2>1, <2>2 DEF GatesAlone
<1>6. \A j \in 1 .. Len(depthCalls) : depthCalls[j].returned \in Nat
  BY ReturnsAreNumbers DEF TraceInv
<1>7. ReturnsKept
  <2>1. \A j \in 1 .. Len(depthCalls) :
            /\ depthCalls[j].returned \in Nat /\ depthCalls'[j].returned \in Nat
            /\ depthCalls[j].returned <= depthCalls'[j].returned /\ j \in 1 .. Len(depthCalls')
    BY <1>6
  <2> QED
    BY <2>1 DEF ReturnsKept
<1>8. /\ \A n \in Nat : Covers(lanes, n) => Covers(lanes', n)
      /\ \A i \in 1 .. Len(depthCalls') : depthCalls'[i].returned \in Nat
      /\ \A l \in DOMAIN lanes' : Last(lanes'[l]).end.depth \in Nat
  BY <1>3, <1>6, LanesEnd
<1>9. \A o \in DOMAIN metrics : o \in DOMAIN metrics' /\ metrics'[o] = metrics[o]
  BY <1>1
<1>10. ASSUME NEW n \in Nat, Kept(n)
       PROVE  Kept(n)'
  BY <1>3, <1>7, <1>8, <1>9, <1>10, KeptStays
<1> QED
  BY <1>3, <1>5, <1>10, StayingKeepsSchedule

\* What is returned is kept in the record of its call.
LEMMA ReturnKeepsSchedule ==
    ASSUME TraceInv, TraceInv', OptimizeDepth, ScheduleInv, ClosesBlock("borrow"),
           DepthReturn(Last(frames[Top].blocks).objects)
    PROVE  ScheduleInv'
<1> DEFINE objects == Last(frames[Top].blocks).objects
           m == MaxAvailableTime(objects)
           n == Len(depthCalls)
           c == depthCalls[n]
           d == [c EXCEPT !.returned = Max({@, m})]
<1>1. /\ objects \subseteq DOMAIN metrics /\ DOMAIN metrics' = DOMAIN metrics \ objects
      /\ \A o \in DOMAIN metrics' : metrics'[o] = metrics[o]
  BY ClosingKeepsState DEF TraceInv, Inv
<1>2. /\ frames[Top].blocks # << >> /\ configuration' = configuration /\ wires' = wires
      /\ lanes' = lanes
  BY DEF ClosesBlock, HasBlock, DepthReturn
<1>3. IsFiniteSet(objects)
  BY <1>2, LastBlockMeaning DEF TraceInv, Inv
<1>4. TimeInv /\ TimeInv' /\ ObjectInv /\ ObjectInv' /\ LaneInv
  BY DEF TraceInv, Inv, StateInv
<1>5. /\ n \in Nat /\ n > 0 /\ DOMAIN depthCalls = 1 .. n
  BY CallsHaveFrames DEF TraceInv, Inv
<1>6. depthCalls' = [depthCalls EXCEPT ![n] = d]
  BY DEF DepthReturn
<1> HIDE DEF objects
<1>7. PICK E, r : EndsFit(E, r) /\ CallsCover(E) /\ RecordsFit(E)
  BY DEF TraceInv, PathInv
<1>8. m \in Nat /\ Bounded(E, m) /\ \A o \in objects : AvailableAt(o) <= m
  BY <1>1, <1>3, <1>4, <1>7, MaxAvailableFits
<1>9. RecordFits(E, c)
  <2>1. n \in 1 .. n
    BY <1>5
  <2> QED
    BY <1>7, <2>1 DEF RecordsFit
<1>10. /\ c.returned \in Nat /\ d.returned \in Nat
       /\ c.returned <= d.returned /\ m <= d.returned
  <2>1. c.returned \in Nat /\ Bounded(E, c.returned) /\ "returned" \in DOMAIN c
    BY <1>9 DEF RecordFits
  <2>2. d.returned = Max({c.returned, m})
    BY <2>1
  <2> HIDE DEF c, m, d
  <2> QED
    BY <1>8, <2>1, <2>2, LaterOfTwo
<1> HIDE DEF c, m, d
<1>11. /\ Len(depthCalls') = n /\ depthCalls'[n] = d /\ n \in 1 .. n
       /\ \A j \in 1 .. n : j # n => depthCalls'[j] = depthCalls[j]
  <2>1. depthCalls \in Seq(Range(depthCalls))
    BY DEF TraceInv, Inv, CallInv
  <2>2. DOMAIN depthCalls' = 1 .. n /\ n \in 1 .. n
    BY <1>5, <1>6
  <2> HIDE DEF n
  <2>3. depthCalls'[n] = d /\ \A j \in 1 .. n : j # n => depthCalls'[j] = depthCalls[j]
    BY <1>5, <1>6, <2>2
  <2>4. Len(depthCalls') = n
    <3> DEFINE S == Range(depthCalls) \cup {d}
    <3>1. depthCalls \in Seq(S) /\ d \in S /\ n = Len(depthCalls)
      BY <2>1 DEF n
    <3> HIDE DEF S
    <3>2. depthCalls' \in Seq(S) /\ Len(depthCalls') = Len(depthCalls)
      BY <1>6, <2>2, <3>1
    <3> QED
      BY <3>1, <3>2
  <2> QED
    BY <2>2, <2>3, <2>4
<1>12. \A j \in 1 .. n : depthCalls[j].returned \in Nat
  BY ReturnsAreNumbers DEF TraceInv
<1>13. ASSUME NEW j \in 1 .. n
       PROVE  /\ depthCalls[j].returned \in Nat /\ depthCalls'[j].returned \in Nat
              /\ depthCalls[j].returned <= depthCalls'[j].returned
  <2>1. CASE j = n
    BY <1>10, <1>11, <2>1 DEF c
  <2>2. CASE j # n
    BY <1>11, <1>12, <2>2
  <2> QED
    BY <2>1, <2>2
<1>14. ReturnsKept /\ \A i \in 1 .. Len(depthCalls') : depthCalls'[i].returned \in Nat
  BY <1>11, <1>13 DEF ReturnsKept
<1>15. /\ \A k \in Nat : Covers(lanes, k) => Covers(lanes', k)
       /\ \A l \in DOMAIN lanes' : Last(lanes'[l]).end.depth \in Nat
  BY <1>2, <1>4, LanesEnd
<1>16. ASSUME NEW o \in DOMAIN metrics
       PROVE  \/ o \in DOMAIN metrics' /\ metrics'[o] = metrics[o]
              \/ \E k \in Nat : metrics[o].end.depth <= k /\ Kept(k)'
  <2>1. CASE o \notin objects
    BY <1>1, <2>1
  <2>2. CASE o \in objects
    <3>1. metrics[o].end.depth <= m
      BY <1>8, <2>2 DEF AvailableAt
    <3>2. ASSUME NEW k \in Nat, k = m
          PROVE  metrics[o].end.depth <= k /\ Kept(k)'
      <4>1. k <= depthCalls'[n].returned
        BY <1>10, <1>11, <3>2
      <4> QED
        BY <1>11, <3>1, <3>2, <4>1 DEF Kept
    <3> QED
      BY <1>8, <3>2
  <2> QED
    BY <2>1, <2>2
<1>17. ASSUME NEW k \in Nat, Kept(k)
       PROVE  Kept(k)'
  BY <1>4, <1>14, <1>15, <1>16, <1>17, KeptStays
<1>18. GatesAlone
  BY <1>1, <1>2 DEF GatesAlone
<1> QED
  BY <1>2, <1>4, <1>17, <1>18, StayingKeepsSchedule

-----------------------------------------------------------------------------
(* A release.                                                               *)

\* A qubit q is put after the qubits of a lane, before them, or on a lane of its own.
PutsOn(all, q, all2) == \E l :
    /\ DOMAIN all2 = DOMAIN all \cup {l}
    /\ \A k \in DOMAIN all \ {l} : all2[k] = all[k]
    /\ \/ l \in DOMAIN all /\ AtMost(Last(all[l]).end, q.start) /\ all2[l] = Append(all[l], q)
       \/ l \in DOMAIN all /\ AtMost(q.end, all[l][1].start) /\ all2[l] = <<q>> \o all[l]
       \/ l \notin DOMAIN all /\ all2[l] = <<q>>

LEMMA AfterPutsOn ==
    ASSUME NEW lay, LayoutInv(lay), NEW q \in BusyRecords,
           NEW e \in DOMAIN lay.ends, AtMost(e, q.start)
    PROVE  PutsOn(lay.lanes, q, AfterExisting(lay, q, e).lanes)
<1> DEFINE all == lay.lanes
           l == Removed(lay.ends, e)
           all2 == [all EXCEPT ![l] = Append(@, q)]
           at == LaneEnds(all)
           rest == [x \in DOMAIN at \ {l} |-> at[x]]
<1>1. AfterExisting(lay, q, e).lanes = all2
  <2> DEFINE s == lay.starts
             m == lay.maxQubitId
             E == lay.ends
             E2 == Moved(E, e, q.end)
  <2>1. lay = [starts |-> s, ends |-> E, maxQubitId |-> m, lanes |-> all]
    BY DEF LayoutInv
  <2>2. AfterExisting(lay, q, e) = [lay EXCEPT !.ends = E2, !.lanes = all2]
    BY <2>1 DEF AfterExisting
  <2> HIDE DEF s, m, E, E2, all, all2
  <2> QED
    BY <2>1, <2>2
<1>2. DOMAIN rest = DOMAIN at \ {l} /\ \A x \in DOMAIN rest : rest[x] = at[x]
  OBVIOUS
<1>3. PoolOf(lay.ends, at)
  BY DEF LayoutInv
<1> HIDE DEF rest, at
<1>4. l \in DOMAIN at /\ at[l] = e
  BY <1>2, <1>3, PoolTake
<1>5. l \in DOMAIN all /\ Last(all[l]).end = e
  BY <1>4 DEF at, LaneEnds
<1> HIDE DEF l, all
<1>6. /\ DOMAIN all2 = DOMAIN all \cup {l} /\ all2[l] = Append(all[l], q)
      /\ \A k \in DOMAIN all \ {l} : all2[k] = all[k]
  BY <1>5
<1> HIDE DEF all2
<1>7. PutsOn(all, q, all2)
  BY <1>5, <1>6 DEF PutsOn
<1> QED
  BY <1>1, <1>7 DEF all

LEMMA BeforePutsOn ==
    ASSUME NEW lay, LayoutInv(lay), NEW q \in BusyRecords,
           NEW e \in DOMAIN lay.starts, AtMost(q.end, e)
    PROVE  PutsOn(lay.lanes, q, BeforeExisting(lay, q, e).lanes)
<1> DEFINE all == lay.lanes
           l == Removed(lay.starts, e)
           all2 == [all EXCEPT ![l] = <<q>> \o @]
           at == LaneStarts(all)
           rest == [x \in DOMAIN at \ {l} |-> at[x]]
<1>1. BeforeExisting(lay, q, e).lanes = all2
  <2> DEFINE s == lay.starts
             m == lay.maxQubitId
             E == lay.ends
             s2 == Moved(s, e, q.start)
  <2>1. lay = [starts |-> s, ends |-> E, maxQubitId |-> m, lanes |-> all]
    BY DEF LayoutInv
  <2>2. BeforeExisting(lay, q, e) = [lay EXCEPT !.starts = s2, !.lanes = all2]
    BY <2>1 DEF BeforeExisting
  <2> HIDE DEF s, m, E, s2, all, all2
  <2> QED
    BY <2>1, <2>2
<1>2. DOMAIN rest = DOMAIN at \ {l} /\ \A x \in DOMAIN rest : rest[x] = at[x]
  OBVIOUS
<1>3. PoolOf(lay.starts, at)
  BY DEF LayoutInv
<1> HIDE DEF rest, at
<1>4. l \in DOMAIN at /\ at[l] = e
  BY <1>2, <1>3, PoolTake
<1>5. l \in DOMAIN all /\ all[l][1].start = e
  BY <1>4 DEF at, LaneStarts
<1> HIDE DEF l, all
<1>6. /\ DOMAIN all2 = DOMAIN all \cup {l} /\ all2[l] = <<q>> \o all[l]
      /\ \A k \in DOMAIN all \ {l} : all2[k] = all[k]
  BY <1>5
<1> HIDE DEF all2
<1>7. PutsOn(all, q, all2)
  BY <1>5, <1>6 DEF PutsOn
<1> QED
  BY <1>1, <1>7 DEF all

LEMMA NewPutsOn ==
    ASSUME NEW lay, LayoutInv(lay), NEW q \in BusyRecords
    PROVE  PutsOn(lay.lanes, q, OnNewLane(lay, q).lanes)
<1> DEFINE all == lay.lanes
           m == lay.maxQubitId
           all2 == [l \in DOMAIN all \cup {m} |-> IF l = m THEN <<q>> ELSE all[l]]
<1>1. m \in Int /\ DOMAIN all = -1 .. m - 1
  BY DEF LayoutInv
<1>2. OnNewLane(lay, q).lanes = all2
  BY DEF OnNewLane
<1>3. m \notin DOMAIN all
  BY <1>1
<1> HIDE DEF m, all
<1>4. /\ DOMAIN all2 = DOMAIN all \cup {m} /\ all2[m] = <<q>>
      /\ \A k \in DOMAIN all \ {m} : all2[k] = all[k]
  BY <1>3
<1> HIDE DEF all2
<1>5. PutsOn(all, q, all2)
  BY <1>3, <1>4 DEF PutsOn
<1> QED
  BY <1>2, <1>5 DEF all

LEMMA PlacePutsOn ==
    ASSUME NEW lay, LayoutInv(lay), NEW q \in BusyRecords, q.end # Zero
    PROVE  PutsOn(lay.lanes, q, Place(lay, q).lanes)
<1> DEFINE ends == FindLower(lay.ends, q.start)
           starts == FindUpper(lay.starts, q.end)
<1>1. \A e \in ends : e \in DOMAIN lay.ends /\ AtMost(e, q.start)
  BY DEF FindLower, LowerBounds
<1>2. \A s \in starts : s \in DOMAIN lay.starts /\ AtMost(q.end, s)
  BY DEF FindUpper, UpperBounds
<1>3. Place(lay, q) = PlaceBetween(lay, q, ends, starts)
  BY DEF Place
<1> HIDE DEF ends, starts
<1>4. CASE ends # {} /\ (starts = {} \/ \E e \in ends, s \in starts : Shorter(q, e, s))
  <2> DEFINE e == CHOOSE e \in ends : TRUE
  <2>1. e \in ends
    BY <1>4
  <2>2. PlaceBetween(lay, q, ends, starts) = AfterExisting(lay, q, e)
    BY <1>4 DEF PlaceBetween
  <2> HIDE DEF e
  <2>3. PutsOn(lay.lanes, q, AfterExisting(lay, q, e).lanes)
    BY <1>1, <2>1, AfterPutsOn
  <2> QED
    BY <1>3, <2>2, <2>3
<1>5. CASE ~ (ends # {} /\ (starts = {} \/ \E e \in ends, s \in starts : Shorter(q, e, s))) /\ starts # {}
  <2> DEFINE s == CHOOSE s \in starts : TRUE
  <2>1. s \in starts
    BY <1>5
  <2>2. PlaceBetween(lay, q, ends, starts) = BeforeExisting(lay, q, s)
    BY <1>5 DEF PlaceBetween
  <2> HIDE DEF s
  <2>3. PutsOn(lay.lanes, q, BeforeExisting(lay, q, s).lanes)
    BY <1>2, <2>1, BeforePutsOn
  <2> QED
    BY <1>3, <2>2, <2>3
<1>6. CASE ends = {} /\ starts = {}
  <2>1. PlaceBetween(lay, q, ends, starts) = OnNewLane(lay, q)
    BY <1>6 DEF PlaceBetween
  <2> QED
    BY <1>3, <2>1, NewPutsOn
<1> QED
  BY <1>4, <1>5, <1>6

\* Lanes of qubits in S, none of which ends before it starts.
LanesIn(all, S) == /\ \A l \in DOMAIN all : IsLane(all[l]) /\ all[l] \in Seq(S)
                   /\ LanesSpan(all)

\* The ends of a lane.
LEMMA LaneBounds ==
    ASSUME NEW lane, IsLane(lane)
    PROVE  /\ lane[1] \in BusyRecords /\ Last(lane) \in BusyRecords
           /\ lane[1].start \in Starts /\ lane[1].start.depth \in Int
           /\ Last(lane).end \in Starts /\ Last(lane).end.depth \in Nat
<1>1. lane \in Seq(BusyRecords) /\ Len(lane) \in Nat /\ Len(lane) > 0
  BY DEF IsLane
<1>2. 1 \in 1 .. Len(lane) /\ Len(lane) \in 1 .. Len(lane)
  BY <1>1
<1>3. lane[1] \in BusyRecords /\ lane[Len(lane)] \in BusyRecords
  BY <1>1, <1>2, ElementOfSeq
<1> QED
  BY <1>3, TimesAreStarts DEF Last, BusyRecords, Starts, Times

LEMMA PutsOnKeeps ==
    ASSUME NEW all, NEW S \in SUBSET BusyRecords, LanesIn(all, S), NEW q \in S,
           q.start.depth <= q.end.depth, NEW all2, PutsOn(all, q, all2)
    PROVE  /\ LanesIn(all2, S) /\ Covers(all2, q.end.depth)
           /\ \A n \in Nat : Covers(all, n) => Covers(all2, n)
<1>1. PICK l : /\ DOMAIN all2 = DOMAIN all \cup {l}
               /\ \A k \in DOMAIN all \ {l} : all2[k] = all[k]
               /\ \/ /\ l \in DOMAIN all /\ AtMost(Last(all[l]).end, q.start)
                     /\ all2[l] = Append(all[l], q)
                  \/ /\ l \in DOMAIN all /\ AtMost(q.end, all[l][1].start)
                     /\ all2[l] = <<q>> \o all[l]
                  \/ l \notin DOMAIN all /\ all2[l] = <<q>>
  BY DEF PutsOn
<1>2. /\ q \in BusyRecords /\ q.start \in Starts /\ q.end \in Starts
      /\ q.start.depth \in Int /\ q.end.depth \in Nat
  BY TimesAreStarts DEF BusyRecords, Starts, Times
<1>3. \A k \in DOMAIN all : /\ IsLane(all[k]) /\ all[k] \in Seq(S)
                            /\ all[k][1].start.depth <= Last(all[k]).end.depth
                            /\ all[k][1].start \in Starts /\ all[k][1].start.depth \in Int
                            /\ Last(all[k]).end \in Starts /\ Last(all[k]).end.depth \in Nat
  BY LaneBounds DEF LanesIn, LanesSpan
<1>4. /\ IsLane(all2[l]) /\ all2[l] \in Seq(S)
      /\ all2[l][1].start.depth <= Last(all2[l]).end.depth
      /\ q.end.depth <= Last(all2[l]).end.depth
      /\ l \in DOMAIN all => Last(all[l]).end.depth <= Last(all2[l]).end.depth
      /\ Last(all2[l]).end.depth \in Nat
  <2>1. CASE /\ l \in DOMAIN all /\ AtMost(Last(all[l]).end, q.start)
             /\ all2[l] = Append(all[l], q)
    <3>1. IsLane(all2[l]) /\ all2[l][1] = all[l][1] /\ Last(all2[l]) = q
      BY <1>2, <1>3, <2>1, LaneAfter
    <3>2. Append(all[l], q) \in Seq(S)
      BY <1>3, <2>1
    <3>3. Last(all[l]).end.depth <= q.start.depth
      BY <1>2, <1>3, <2>1, TimesCompare
    <3>4. Last(all[l]).end.depth <= q.end.depth
      BY <1>2, <1>3, <2>1, <3>3
    <3>5. all[l][1].start.depth <= q.end.depth
      BY <1>2, <1>3, <2>1, <3>4
    <3> QED
      BY <1>2, <2>1, <3>1, <3>2, <3>4, <3>5
  <2>2. CASE /\ l \in DOMAIN all /\ AtMost(q.end, all[l][1].start)
             /\ all2[l] = <<q>> \o all[l]
    <3>1. IsLane(all2[l]) /\ all2[l][1] = q /\ Last(all2[l]) = Last(all[l])
      BY <1>2, <1>3, <2>2, LaneBefore
    <3>2. <<q>> \o all[l] \in Seq(S)
      <4>1. <<q>> \in Seq(S) /\ all[l] \in Seq(S)
        BY <1>3, <2>2
      <4> QED
        BY <4>1, ConcatProperties
    <3>3. q.end.depth <= all[l][1].start.depth
      BY <1>2, <1>3, <2>2, TimesCompare
    <3>4. q.end.depth <= Last(all[l]).end.depth
      BY <1>2, <1>3, <2>2, <3>3
    <3>5. q.start.depth <= Last(all[l]).end.depth
      BY <1>2, <1>3, <2>2, <3>4
    <3>6. Last(all[l]).end.depth \in Nat /\ Last(all[l]).end.depth <= Last(all[l]).end.depth
      BY <1>3, <2>2
    <3> QED
      BY <2>2, <3>1, <3>2, <3>4, <3>5, <3>6
  <2>3. CASE l \notin DOMAIN all /\ all2[l] = <<q>>
    <3>1. IsLane(all2[l]) /\ all2[l][1] = q /\ Last(all2[l]) = q
      BY <1>2, <2>3, LaneOfOne
    <3>2. <<q>> \in Seq(S)
      OBVIOUS
    <3> QED
      BY <1>2, <2>3, <3>1, <3>2
  <2> QED
    BY <1>1, <2>1, <2>2, <2>3
<1>5. LanesIn(all2, S)
  <2>1. ASSUME NEW k \in DOMAIN all2
        PROVE  /\ IsLane(all2[k]) /\ all2[k] \in Seq(S)
               /\ all2[k][1].start.depth <= Last(all2[k]).end.depth
    <3>1. CASE k = l
      BY <1>4, <3>1
    <3>2. CASE k # l
      <4>1. k \in DOMAIN all /\ all2[k] = all[k]
        BY <1>1, <3>2
      <4> QED
        BY <1>3, <4>1
    <3> QED
      BY <3>1, <3>2
  <2> QED
    BY <2>1 DEF LanesIn, LanesSpan
<1>6. Covers(all2, q.end.depth)
  BY <1>1, <1>4 DEF Covers
<1>7. ASSUME NEW n \in Nat, Covers(all, n)
      PROVE  Covers(all2, n)
  <2>1. PICK k \in DOMAIN all : n <= Last(all[k]).end.depth
    BY <1>7 DEF Covers
  <2>2. CASE k = l
    <3>1. n <= Last(all2[l]).end.depth
      BY <1>3, <1>4, <2>1, <2>2
    <3> QED
      BY <1>1, <3>1 DEF Covers
  <2>3. CASE k # l
    BY <1>1, <2>1, <2>3 DEF Covers
  <2> QED
    BY <2>2, <2>3
<1> QED
  BY <1>5, <1>6, <1>7

\* Qubits that are given their lanes one after the other.
LEMMA PlacedKeepsSpans ==
    ASSUME LayoutInv(Layout), NEW n \in Nat, NEW qubits, NEW S \in SUBSET BusyRecords,
           LanesIn(lanes, S),
           \A i \in 1 .. n : /\ qubits[i] \in BusyRecords
                             /\ qubits[i].end # Zero => qubits[i] \in S
                             /\ qubits[i].start.depth <= qubits[i].end.depth
    PROVE  LET all == PlacedFirst(qubits, n).lanes IN
           /\ LanesIn(all, S)
           /\ \A m \in Nat : Covers(lanes, m) => Covers(all, m)
           /\ \A i \in 1 .. n : qubits[i].end # Zero => Covers(all, qubits[i].end.depth)
<1> DEFINE placed == CHOOSE g : Placing(g, qubits, n)
           step(f, m) == IF m = 0 THEN Layout ELSE Place(f[m - 1], qubits[m])
           Good(all, k) == /\ LanesIn(all, S)
                           /\ \A m \in Nat : Covers(lanes, m) => Covers(all, m)
                           /\ \A i \in 1 .. k : qubits[i].end # Zero =>
                                Covers(all, qubits[i].end.depth)
<1>1. PlacedFirst(qubits, n) = placed[n]
  BY DEF PlacedFirst, Placing
<1>2. Placing(placed, qubits, n)
  BY PlacingExists
<1> HIDE DEF placed
<1>3. \A m \in 0 .. n : placed[m] = step(placed, m)
  <2>1. placed = [m \in 0 .. n |-> step(placed, m)]
    BY <1>2 DEF Placing
  <2> HIDE DEF step
  <2> QED
    BY <2>1
<1> DEFINE T == {k \in 0 .. n : LayoutInv(placed[k]) /\ Good(placed[k].lanes, k)}
<1>4. 0 \in T
  <2>1. 0 \in 0 .. n /\ 1 .. 0 = {}
    OBVIOUS
  <2>2. placed[0] = Layout /\ Layout.lanes = lanes
    BY <1>3, <2>1 DEF Layout
  <2>3. Good(lanes, 0)
    BY <2>1
  <2> HIDE DEF Good
  <2> QED
    BY <2>1, <2>2, <2>3
<1>5. ASSUME NEW k \in 1 .. n, k - 1 \in T
      PROVE  k \in T
  <2>1. k \in 0 .. n /\ k # 0 /\ k - 1 \in Nat
    OBVIOUS
  <2>2. placed[k] = Place(placed[k - 1], qubits[k])
    BY <1>3, <2>1
  <2>3. LayoutInv(placed[k - 1]) /\ qubits[k] \in BusyRecords /\ Good(placed[k - 1].lanes, k - 1)
    BY <1>5
  <2>4. LayoutInv(placed[k])
    BY <2>2, <2>3, PlaceKeepsLayout
  <2>5. CASE qubits[k].end = Zero
    <3>1. placed[k] = placed[k - 1]
      BY <2>2, <2>5 DEF Place
    <3>2. \A i \in 1 .. k : qubits[i].end # Zero => i \in 1 .. k - 1
      BY <2>1, <2>5
    <3>3. Good(placed[k].lanes, k)
      BY <2>3, <3>1, <3>2
    <3> QED
      BY <2>1, <2>4, <3>3
  <2>6. CASE qubits[k].end # Zero
    <3> DEFINE all == placed[k - 1].lanes
               all2 == placed[k].lanes
               q == qubits[k]
    <3>1. PutsOn(all, q, all2)
      BY <2>2, <2>3, <2>6, PlacePutsOn
    <3>2. LanesIn(all, S) /\ q \in S /\ q.start.depth <= q.end.depth
      BY <2>3, <2>6
    <3>3. /\ \A m \in Nat : Covers(lanes, m) => Covers(all, m)
          /\ \A i \in 1 .. k - 1 : qubits[i].end # Zero => Covers(all, qubits[i].end.depth)
      BY <2>3
    <3> HIDE DEF all, all2
    <3>4. /\ LanesIn(all2, S) /\ Covers(all2, q.end.depth)
          /\ \A m \in Nat : Covers(all, m) => Covers(all2, m)
      BY <3>1, <3>2, PutsOnKeeps
    <3>5. ASSUME NEW i \in 1 .. k, qubits[i].end # Zero
          PROVE  Covers(all2, qubits[i].end.depth)
      <4>1. CASE i = k
        BY <3>4, <4>1
      <4>2. CASE i # k
        <5>1. i \in 1 .. k - 1 /\ i \in 1 .. n
          BY <4>2
        <5>2. qubits[i].end.depth \in Nat
          BY <5>1 DEF BusyRecords, Times
        <5> QED
          BY <3>3, <3>4, <3>5, <5>1, <5>2
      <4> QED
        BY <4>1, <4>2
    <3>6. Good(all2, k)
      BY <3>3, <3>4, <3>5
    <3> QED
      BY <2>1, <2>4, <3>6 DEF all2
  <2> QED
    BY <2>5, <2>6
<1>6. T \in SUBSET (0 .. n)
  OBVIOUS
<1> HIDE DEF T
<1>7. T = 0 .. n
  BY <1>4, <1>5, <1>6, UpTo
<1>8. n \in T
  BY <1>7
<1>9. Good(placed[n].lanes, n)
  BY <1>8 DEF T
<1> QED
  BY <1>1, <1>9

\* The qubits of a release are those that are given lanes.
LEMMA SortedHasAll ==
    ASSUME NEW objects, IsFiniteSet(objects), NEW qubits \in Sorted(objects)
    PROVE  /\ Len(qubits) \in Nat
           /\ \A i \in 1 .. Len(qubits) : \E o \in objects : qubits[i] = Busy(o)
           /\ \A o \in objects : \E i \in 1 .. Len(qubits) : qubits[i] = Busy(o)
<1> DEFINE S == {Busy(o) : o \in objects}
           c == Cardinality(S)
           f == [o \in objects |-> Busy(o)]
<1>1. f \in Surjection(objects, S)
  BY DEF Surjection
<1>2. qubits \in SetToSeqs(S)
  BY DEF Sorted
<1>3. \A x \in S : \E o \in objects : x = Busy(o)
  OBVIOUS
<1>4. \A o \in objects : Busy(o) \in S
  OBVIOUS
<1> HIDE DEF f, S
<1>5. IsFiniteSet(S) /\ c \in Nat
  BY <1>1, FS_Surjection, FS_CardinalityType
<1>6. qubits \in [1 .. c -> S] /\ \A i, j \in 1 .. c : i # j => qubits[i] # qubits[j]
  BY <1>2 DEF SetToSeqs, IsInjective
<1> HIDE DEF c
<1>7. qubits \in Injection(1 .. c, S)
  BY <1>6 DEF Injection, IsInjective
<1>8. IsFiniteSet(1 .. c) /\ Cardinality(1 .. c) = c
  <2>1. IsFiniteSet(1 .. c) /\ Cardinality(1 .. c) = IF 1 > c THEN 0 ELSE c - 1 + 1
    BY <1>5, FS_Interval
  <2> QED
    BY <1>5, <2>1
<1>9. qubits \in Surjection(1 .. c, S)
  <2>1. Cardinality(1 .. c) = Cardinality(S) <=> qubits \in Surjection(1 .. c, S)
    BY <1>5, <1>7, <1>8, FS_Injection
  <2> QED
    BY <1>8, <2>1 DEF c
<1>10. Len(qubits) = c
  <2>1. qubits \in Seq(S)
    BY <1>5, <1>6
  <2> QED
    BY <1>5, <1>6, <2>1, LenProperties
<1>11. \A x \in S : \E i \in 1 .. c : qubits[i] = x
  BY <1>9 DEF Surjection
<1> QED
  BY <1>3, <1>4, <1>5, <1>6, <1>10, <1>11

\* How a qubit is busy.
LEMMA BusyIsRecord ==
    ASSUME TimeInv, DOMAIN metrics \subseteq QubitObjects, NEW o \in DOMAIN metrics
    PROVE  /\ Busy(o) \in BusyRecords /\ Busy(o).end = metrics[o].end
           /\ Busy(o).start.depth <= Busy(o).end.depth
<1> DEFINE m == metrics[o]
<1>1. m.start \in Starts /\ m.end \in Times /\ Before(m.start, m.end) /\ o \in QubitObjects
  BY DEF TimeInv
<1>2. Busy(o) = [object |-> o, end |-> m.end, start |-> BusyFrom(m)]
  BY DEF Busy, BusyFrom
<1> HIDE DEF m
<1>3. BusyFrom(m) \in Starts /\ BusyFrom(m).depth <= m.end.depth
  <2>1. CASE m.start = MinValue
    <3>1. BusyFrom(m) = Zero /\ Zero \in Times /\ Zero.depth = 0
      BY <2>1 DEF BusyFrom, Zero, Time, Times
    <3>2. m.end.depth \in Nat
      BY <1>1 DEF Times
    <3> QED
      BY <3>1, <3>2, TimesAreStarts
  <2>2. CASE m.start # MinValue
    <3>1. BusyFrom(m) = m.start
      BY <2>2 DEF BusyFrom
    <3>2. m.end \in Starts
      BY <1>1, TimesAreStarts
    <3> QED
      BY <1>1, <3>1, <3>2, TimesCompare
  <2> QED
    BY <2>1, <2>2
<1>4. Busy(o) \in BusyRecords
  BY <1>1, <1>2, <1>3 DEF BusyRecords
<1> QED
  BY <1>2, <1>3, <1>4 DEF m

LEMMA ReleaseKeepsSchedule ==
    ASSUME TraceInv, TraceInv', OptimizeDepth, ScheduleInv, ClosesBlock("use"),
           DepthRelease(Last(frames[Top].blocks).objects)
    PROVE  ScheduleInv'
<1> DEFINE objects == Last(frames[Top].blocks).objects
           n == Len(depthCalls)
           c == depthCalls[n]
           d == [c EXCEPT !.released = Max({@, MaxAvailableTime(objects)})]
<1>1. /\ objects \subseteq DOMAIN metrics /\ DOMAIN metrics' = DOMAIN metrics \ objects
      /\ \A o \in DOMAIN metrics' : metrics'[o] = metrics[o]
  BY ClosingKeepsState DEF TraceInv, Inv
<1>2. frames[Top].blocks # << >> /\ configuration' = configuration /\ wires' = wires
  BY DEF ClosesBlock, HasBlock
<1>3. IsFiniteSet(objects)
  BY <1>2, LastBlockMeaning DEF TraceInv, Inv
<1>4. /\ TimeInv /\ TimeInv' /\ ObjectInv /\ ObjectInv' /\ LaneInv /\ LaneInv'
      /\ DOMAIN metrics \subseteq QubitObjects /\ LayoutInv(Layout)
  BY DEF TraceInv, Inv, StateInv, ObjectInv, LaneInv
<1>5. /\ n \in Nat /\ n > 0 /\ DOMAIN depthCalls = 1 .. n
  BY CallsHaveFrames DEF TraceInv, Inv
<1>6. depthCalls' = [depthCalls EXCEPT ![n] = d]
  BY DEF DepthRelease
<1>7. PICK qubits \in Sorted(objects) : lanes' = PlacedFirst(qubits, Len(qubits)).lanes
  BY DEF DepthRelease
<1> HIDE DEF objects
<1>8. GatesAlone
  BY <1>1, <1>2 DEF GatesAlone
<1>9. PICK P : ScheduleFits(P)
  BY DEF ScheduleInv
<1>10. /\ Gates' = Gates /\ GatesAreOn' /\ WiresFit(P)' /\ QubitsFit(P)'
       /\ Slots(P) \subseteq Slots(P)'
       /\ \A o \in objects : metrics[o].end # Zero => Busy(o) \in Slots(P)'
  <2>1. /\ Gates' = Gates /\ GatesAreOn' /\ WiresFit(P)' /\ QubitsFit(P)'
        /\ Slots(P) \subseteq Slots(P)'
        /\ \A o \in DOMAIN metrics \ DOMAIN metrics' :
             metrics[o].end # Zero => Busy(o) \in Slots(P)'
    BY <1>4, <1>8, <1>9, AloneKeepsSchedule DEF ScheduleInv, ScheduleFits
  <2>2. objects = DOMAIN metrics \ DOMAIN metrics'
    BY <1>1
  <2> QED
    BY <2>1, <2>2
<1>11. PICK S : S = Slots(P)'
  OBVIOUS
<1>12. S \in SUBSET BusyRecords /\ LanesIn(lanes, S)
  <2>1. S \in SUBSET BusyRecords
    BY <1>11 DEF Slots, BusyRecords, QubitObjects, Starts, Times
  <2>2. ASSUME NEW l \in DOMAIN lanes
        PROVE  IsLane(lanes[l]) /\ lanes[l] \in Seq(S)
    <3>1. lanes[l] \in Seq(Slots(P)) /\ Slots(P) \subseteq S
      BY <1>9, <1>10, <1>11 DEF ScheduleFits, LanesFit
    <3>2. lanes[l] \in Seq(S)
      BY <3>1, LongerSeq
    <3> QED
      BY <1>4, <3>2, LanesEnd
  <2> QED
    BY <2>1, <2>2 DEF LanesIn, ScheduleInv
<1>13. /\ Len(qubits) \in Nat
       /\ \A i \in 1 .. Len(qubits) : \E o \in objects : qubits[i] = Busy(o)
       /\ \A o \in objects : \E i \in 1 .. Len(qubits) : qubits[i] = Busy(o)
  BY <1>3, <1>7, SortedHasAll
<1>14. ASSUME NEW i \in 1 .. Len(qubits)
       PROVE  /\ qubits[i] \in BusyRecords
              /\ qubits[i].end # Zero => qubits[i] \in S
              /\ qubits[i].start.depth <= qubits[i].end.depth
  <2>1. PICK o \in objects : qubits[i] = Busy(o)
    BY <1>13
  <2>2. /\ Busy(o) \in BusyRecords /\ Busy(o).end = metrics[o].end
        /\ Busy(o).start.depth <= Busy(o).end.depth
    BY <1>1, <1>4, BusyIsRecord
  <2> QED
    BY <1>10, <1>11, <2>1, <2>2
<1>15. /\ LanesIn(lanes', S)
       /\ \A m \in Nat : Covers(lanes, m) => Covers(lanes', m)
       /\ \A i \in 1 .. Len(qubits) : qubits[i].end # Zero => Covers(lanes', qubits[i].end.depth)
  <2> DEFINE k == Len(qubits)
             all == PlacedFirst(qubits, k).lanes
  <2>1. /\ k \in Nat
        /\ \A i \in 1 .. k : /\ qubits[i] \in BusyRecords
                             /\ qubits[i].end # Zero => qubits[i] \in S
                             /\ qubits[i].start.depth <= qubits[i].end.depth
    BY <1>13, <1>14
  <2>2. lanes' = all
    BY <1>7
  <2> HIDE DEF k
  <2>3. /\ LanesIn(all, S)
        /\ \A m \in Nat : Covers(lanes, m) => Covers(all, m)
        /\ \A i \in 1 .. k : qubits[i].end # Zero => Covers(all, qubits[i].end.depth)
    BY <1>4, <1>12, <2>1, PlacedKeepsSpans
  <2> QED
    BY <2>2, <2>3 DEF k
<1>16. LanesFit(P)' /\ LanesSpan(lanes)'
  <2>1. \A l \in DOMAIN lanes' : lanes'[l] \in Seq(S)
    BY <1>15 DEF LanesIn
  <2>2. LanesSpan(lanes')
    BY <1>15 DEF LanesIn
  <2> QED
    BY <1>11, <2>1, <2>2 DEF LanesFit, LanesSpan
<1>17. \A j \in 1 .. n : depthCalls[j].returned \in Nat
  BY ReturnsAreNumbers DEF TraceInv
<1>18. /\ ReturnsKept /\ \A i \in 1 .. Len(depthCalls') : depthCalls'[i].returned \in Nat
  <2>1. \A i \in 1 .. Len(depthCalls') : depthCalls'[i].returned \in Nat
    BY DEF TraceInv, PathInv, RecordsFit, RecordFits
  <2>2. DOMAIN depthCalls' = 1 .. n /\ n \in 1 .. n
    BY <1>5, <1>6
  <2>3. Len(depthCalls') = n
    <3> DEFINE T == Range(depthCalls) \cup {d}
    <3>1. depthCalls \in Seq(Range(depthCalls))
      BY DEF TraceInv, Inv, CallInv
    <3>2. depthCalls \in Seq(T) /\ d \in T
      BY <3>1
    <3> HIDE DEF T, d
    <3>3. depthCalls' \in Seq(T) /\ Len(depthCalls') = Len(depthCalls)
      BY <1>6, <2>2, <3>2
    <3> QED
      BY <3>3
  <2>4. ASSUME NEW j \in 1 .. n
        PROVE  depthCalls'[j].returned = depthCalls[j].returned
    <3>1. CASE j = n
      <4>1. d.returned = c.returned
        OBVIOUS
      <4>2. depthCalls'[n] = d
        BY <1>5, <1>6, <2>2
      <4> QED
        BY <3>1, <4>1, <4>2
    <3>2. CASE j # n
      <4>1. depthCalls'[j] = depthCalls[j]
        BY <1>5, <1>6, <3>2
      <4> QED
        BY <4>1
    <3> QED
      BY <3>1, <3>2
  <2>5. ASSUME NEW j \in 1 .. n
        PROVE  /\ depthCalls[j].returned \in Nat /\ depthCalls'[j].returned \in Nat
               /\ depthCalls[j].returned <= depthCalls'[j].returned
    BY <1>17, <2>4
  <2> QED
    BY <2>1, <2>3, <2>5 DEF ReturnsKept
<1>19. \A l \in DOMAIN lanes' : Last(lanes'[l]).end.depth \in Nat
  <2>1. \A l \in DOMAIN lanes' : IsLane(lanes'[l])
    BY <1>15 DEF LanesIn
  <2> QED
    BY <2>1, LaneBounds
<1>20. ASSUME NEW o \in DOMAIN metrics
       PROVE  \/ o \in DOMAIN metrics' /\ metrics'[o] = metrics[o]
              \/ \E k \in Nat : metrics[o].end.depth <= k /\ Kept(k)'
  <2>1. CASE o \notin objects
    BY <1>1, <2>1
  <2>2. CASE o \in objects /\ metrics[o].end = Zero
    <3>1. metrics[o].end.depth <= 0
      BY <2>2 DEF Zero, Time
    <3>2. Kept(0)'
      BY DEF Kept
    <3> QED
      BY <3>1, <3>2
  <2>3. CASE o \in objects /\ metrics[o].end # Zero
    <3>1. PICK i \in 1 .. Len(qubits) : qubits[i] = Busy(o)
      BY <1>13, <2>3
    <3>2. qubits[i].end = metrics[o].end /\ metrics[o].end \in Times
      BY <1>4, <3>1, BusyIsRecord DEF TimeInv
    <3>3. Covers(lanes', metrics[o].end.depth)
      BY <1>15, <2>3, <3>2
    <3>4. metrics[o].end.depth \in Nat
      BY <3>2 DEF Times
    <3>5. PICK k \in Nat : k = metrics[o].end.depth
      BY <3>4
    <3>6. Covers(lanes', k)
      BY <3>3, <3>5
    <3>7. Kept(k)'
      BY <3>6 DEF Kept, Covers
    <3> QED
      BY <3>5, <3>7
  <2> QED
    BY <2>1, <2>2, <2>3
<1>21. ASSUME NEW k \in Nat, Kept(k)
       PROVE  Kept(k)'
  BY <1>4, <1>15, <1>18, <1>19, <1>20, <1>21, KeptStays
<1>22. GatesKept(P)'
  <2>1. ASSUME NEW g \in Gates
        PROVE  P[g].finish \in Nat /\ Kept(P[g].finish)
    BY <1>4, <1>9, GateIsPlaced DEF ScheduleFits, GatesKept
  <2> QED
    BY <1>10, <1>21, <2>1 DEF GatesKept
<1> QED
  BY <1>10, <1>16, <1>22 DEF ScheduleInv, ScheduleFits

-----------------------------------------------------------------------------
(* A gate.                                                                  *)

\* The gate g is the last one now on the wires of its qubits.
GivesGate(objects, g) ==
    /\ g \in GateRecords /\ g.on = objects /\ g \notin Gates /\ Gates' = Gates \cup {g}
    /\ objects \subseteq DOMAIN wires /\ DOMAIN wires' = DOMAIN wires
    /\ \A w \in objects : wires'[w] = Append(wires[w], g)
    /\ \A w \in DOMAIN wires \ objects : wires'[w] = wires[w]

LEMMA GateIsGiven ==
    ASSUME ObjectInv, OptimizeDepth, NumbersFit(Gates), NEW objects \in SUBSET DOMAIN metrics,
           objects # {}, NEW time \in Nat, wires' = WithGate(WiresFor(objects), time)
    PROVE  \E g : GivesGate(objects, g) /\ g.time = time
<1> DEFINE g == NewGate(objects, time)
<1>1. WiresFor(objects) = objects
  BY DEF WiresFor, Wire
<1>2. /\ wires \in [DOMAIN wires -> Seq(GateRecords)] /\ DOMAIN wires \subseteq Wires
      /\ objects \in SUBSET DOMAIN wires /\ objects \in SUBSET Wires
  BY DEF ObjectInv, Wire
<1>3. Gates = GatesOf(wires) /\ Gates' = GatesOf(wires') /\ IsFiniteSet(Gates)
  BY GatesAreGatesOf, GatesAreFinite DEF Gates, GatesOf
<1>4. g \in GateRecords /\ g.on = objects /\ g.time = time /\ g \notin Gates
  <2>1. g \in GateRecords
    BY <1>2, NewGateIsRecord
  <2>2. /\ g.on = objects /\ g.time = time
        /\ g.number = Cardinality({h \in Gates : h.on = objects}) + 1
    BY DEF NewGate
  <2> HIDE DEF g
  <2>3. g.number = Cardinality({h \in Gates : h.on = g.on}) + 1
    BY <2>2
  <2> QED
    BY <1>3, <2>1, <2>2, <2>3, NumberOfNewGate
<1>5. /\ WithNewGate(wires, wires', objects, g) /\ DOMAIN wires' = DOMAIN wires
      /\ \A w \in objects : wires'[w] = Append(wires[w], g)
      /\ \A w \in DOMAIN wires \ objects : wires'[w] = wires[w]
  BY <1>1, <1>2 DEF WithGate, WithNewGate
<1> HIDE DEF g
<1>6. GatesOf(wires') = GatesOf(wires) \cup {g}
  <2> DEFINE W == wires
             W2 == wires'
  <2>1. /\ W \in [DOMAIN W -> Seq(GateRecords)] /\ objects \in SUBSET DOMAIN W /\ objects # {}
        /\ g \in GateRecords /\ g \notin GatesOf(W) /\ WithNewGate(W, W2, objects, g)
    BY <1>2, <1>3, <1>4, <1>5
  <2> HIDE DEF W, W2
  <2>2. GoesAfter(W, W2, objects, g)
    BY <2>1, GateAdded
  <2> QED
    BY <2>2 DEF W, W2, GoesAfter
<1>7. GivesGate(objects, g)
  BY <1>2, <1>3, <1>4, <1>5, <1>6 DEF GivesGate
<1> QED
  BY <1>4, <1>7

\* What a gate may do to the metrics of its qubits.
GateMeets(objects) ==
    /\ configuration' = configuration /\ lanes' = lanes /\ depthCalls' = depthCalls
    /\ objects \subseteq DOMAIN metrics /\ DOMAIN metrics' = DOMAIN metrics
    /\ \A o \in DOMAIN metrics \ objects : metrics'[o] = metrics[o]
    /\ \A o \in objects : metrics[o].end.depth <= metrics'[o].end.depth

\* A schedule that leaves the gates on other qubits where they were.
LEMMA GateKeepsSchedule ==
    ASSUME TraceInv, TraceInv', OptimizeDepth, ScheduleInv, NEW objects, GateMeets(objects),
           NEW g, GivesGate(objects, g), NEW P, ScheduleFits(P), NEW P2,
           \A w \in DOMAIN wires \ objects : \A i \in 1 .. Len(wires[w]) :
                P2[wires[w][i]] = P[wires[w][i]],
           \A o \in objects : QubitFits(P2, wires'[o], metrics'[o], o) /\ AllPlaced(P2, wires'[o])
    PROVE  ScheduleInv'
<1>1. /\ TimeInv /\ TimeInv' /\ ObjectInv /\ ObjectInv' /\ LaneInv
      /\ wires \in [DOMAIN wires -> Seq(GateRecords)]
      /\ wires' \in [DOMAIN wires' -> Seq(GateRecords)]
  BY DEF TraceInv, Inv, StateInv, ObjectInv
<1>2. /\ configuration' = configuration /\ lanes' = lanes /\ depthCalls' = depthCalls
      /\ objects \subseteq DOMAIN metrics /\ DOMAIN metrics' = DOMAIN metrics
      /\ \A o \in DOMAIN metrics \ objects : metrics'[o] = metrics[o]
      /\ \A o \in objects : metrics[o].end.depth <= metrics'[o].end.depth
  BY DEF GateMeets
<1>3. /\ g \in GateRecords /\ g.on = objects /\ Gates' = Gates \cup {g}
      /\ DOMAIN wires' = DOMAIN wires /\ objects \subseteq DOMAIN wires
      /\ \A w \in objects : wires'[w] = Append(wires[w], g)
      /\ \A w \in DOMAIN wires \ objects : wires'[w] = wires[w]
  BY DEF GivesGate
<1>4. GatesAreOn /\ LanesSpan(lanes)
  BY DEF ScheduleInv
<1>5. WiresFit(P) /\ QubitsFit(P) /\ LanesFit(P) /\ GatesKept(P)
  BY DEF ScheduleFits
<1>6. ASSUME NEW w \in DOMAIN wires \ objects
      PROVE  /\ wires'[w] = wires[w] /\ Len(wires[w]) \in Nat
             /\ \A i \in 1 .. Len(wires[w]) : P2[wires[w][i]] = P[wires[w][i]]
  BY <1>1, <1>3, LenProperties
<1>7. GatesAreOn'
  <2>1. ASSUME NEW w \in DOMAIN wires, NEW i \in 1 .. Len(wires'[w])
        PROVE  w \in wires'[w][i].on
    <3>1. CASE w \in objects
      <4> DEFINE s == wires[w]
                 s2 == Append(s, g)
      <4>1. wires'[w] = s2 /\ s \in Seq(GateRecords) /\ \A j \in 1 .. Len(s) : w \in s[j].on
        BY <1>1, <1>3, <1>4, <3>1 DEF GatesAreOn
      <4> HIDE DEF s
      <4>2. /\ Len(s) \in Nat /\ Len(s2) = Len(s) + 1 /\ s2[Len(s2)] = g
            /\ \A j \in 1 .. Len(s) : s2[j] = s[j]
        BY <1>3, <4>1, LongerWire
      <4> HIDE DEF s2
      <4>3. i \in 1 .. Len(s) \/ i = Len(s2)
        BY <4>1, <4>2
      <4> QED
        BY <1>3, <3>1, <4>1, <4>2, <4>3
    <3>2. CASE w \notin objects
      BY <1>3, <1>4, <3>2 DEF GatesAreOn
    <3> QED
      BY <3>1, <3>2
  <2> QED
    BY <1>3, <2>1 DEF GatesAreOn
<1>8. WiresFit(P2)'
  <2>1. ASSUME NEW w \in DOMAIN wires
        PROVE  Rises(P2, wires'[w]) /\ AllPlaced(P2, wires'[w])
    <3>1. CASE w \in objects
      BY <3>1 DEF QubitFits
    <3>2. CASE w \notin objects
      <4>1. Rises(P, wires[w]) /\ AllPlaced(P, wires[w])
        BY <1>5 DEF WiresFit
      <4>2. \A i \in 1 .. Len(wires[w]) - 1 : i \in 1 .. Len(wires[w]) /\ i + 1 \in 1 .. Len(wires[w])
        BY <1>6, <3>2
      <4>3. Rises(P2, wires[w])
        BY <1>6, <3>2, <4>1, <4>2 DEF Rises
      <4>4. AllPlaced(P2, wires[w])
        BY <1>6, <3>2, <4>1 DEF AllPlaced, Placed
      <4> QED
        BY <1>6, <3>2, <4>3, <4>4
    <3> QED
      BY <3>1, <3>2
  <2> QED
    BY <1>3, <2>1 DEF WiresFit
<1>9. QubitsFit(P2)'
  <2>1. ASSUME NEW o \in DOMAIN metrics
        PROVE  QubitFits(P2, wires'[o], metrics'[o], o)
    <3>1. CASE o \in objects
      BY <3>1
    <3>2. CASE o \notin objects
      <4> DEFINE s == wires[o]
                 m == metrics[o]
      <4>1. o \in DOMAIN wires \ objects
        BY <1>1, <3>2 DEF ObjectInv, Wire
      <4>2. QubitFits(P, s, m, o)
        BY <1>5 DEF QubitsFit
      <4>3. Rises(P2, wires'[o])
        BY <1>3, <1>8, <4>1 DEF WiresFit
      <4>4. /\ wires'[o] = s /\ metrics'[o] = m /\ Len(s) \in Nat
            /\ \A i \in 1 .. Len(s) : P2[s[i]] = P[s[i]]
            /\ s \in Seq(GateRecords)
        BY <1>1, <1>2, <1>6, <3>2, <4>1
      <4> HIDE DEF s, m
      <4>5. s # << >> => 1 \in 1 .. Len(s) /\ Len(s) \in 1 .. Len(s)
        BY <4>4, EmptySeq
      <4>6. FillsTime(P2, s, m)
        BY <4>2, <4>4, <4>5 DEF QubitFits, FillsTime
      <4>7. Waits(P, s, o) => Waits(P2, s, o)
        BY <4>4 DEF Waits
      <4>8. \A i \in 1 .. Len(s) : P2[s[i]].finish <= m.end.depth
        BY <4>2, <4>4 DEF QubitFits
      <4> QED
        BY <4>2, <4>3, <4>4, <4>6, <4>7, <4>8 DEF QubitFits
    <3> QED
      BY <3>1, <3>2
  <2> QED
    BY <1>2, <2>1 DEF QubitsFit
<1>10. LanesFit(P2)'
  <2>1. ASSUME NEW q \in BusyRecords, SlotFits(P, q)
        PROVE  SlotFits(P2, q)'
    <3> DEFINE s == wires[q.object]
    <3>1. q.object \in DOMAIN wires \ DOMAIN metrics /\ s # << >>
      BY <2>1 DEF SlotFits
    <3>2. q.object \in DOMAIN wires \ objects /\ q.object \in DOMAIN wires' \ DOMAIN metrics'
      BY <1>2, <1>3, <3>1
    <3>3. /\ wires'[q.object] = s /\ Len(s) \in Nat
          /\ \A i \in 1 .. Len(s) : P2[s[i]] = P[s[i]]
          /\ s \in Seq(GateRecords)
      BY <1>1, <1>6, <3>2
    <3>4. BeginsAfter(P[s[1]], q.start, s[1].time) /\ EndsBy(P[s[Len(s)]], q.end)
      BY <2>1 DEF SlotFits
    <3> HIDE DEF s
    <3>5. 1 \in 1 .. Len(s) /\ Len(s) \in 1 .. Len(s)
      BY <3>1, <3>3, EmptySeq
    <3>6. BeginsAfter(P2[s[1]], q.start, s[1].time) /\ EndsBy(P2[s[Len(s)]], q.end)
      BY <3>3, <3>4, <3>5
    <3> QED
      BY <3>1, <3>2, <3>3, <3>6 DEF SlotFits
  <2>2. PICK S : S = Slots(P2)'
    OBVIOUS
  <2>3. Slots(P) \subseteq S
    BY <2>1, <2>2 DEF Slots, BusyRecords, QubitObjects, Starts, Times
  <2>4. ASSUME NEW l \in DOMAIN lanes
        PROVE  lanes[l] \in Seq(S)
    <3>1. lanes[l] \in Seq(Slots(P))
      BY <1>5 DEF LanesFit
    <3> QED
      BY <2>3, <3>1, LongerSeq
  <2> QED
    BY <1>2, <2>2, <2>4 DEF LanesFit
<1>11. \A n \in Nat : Kept(n) => Kept(n)'
  <2>1. \A j \in 1 .. Len(depthCalls) : depthCalls[j].returned \in Nat
    BY ReturnsAreNumbers DEF TraceInv
  <2>2. ReturnsKept /\ \A i \in 1 .. Len(depthCalls') : depthCalls'[i].returned \in Nat
    <3>1. \A j \in 1 .. Len(depthCalls) :
            /\ depthCalls[j].returned \in Nat /\ depthCalls'[j].returned \in Nat
            /\ depthCalls[j].returned <= depthCalls'[j].returned /\ j \in 1 .. Len(depthCalls')
      BY <1>2, <2>1
    <3> QED
      BY <1>2, <3>1 DEF ReturnsKept
  <2>3. /\ \A k \in Nat : Covers(lanes, k) => Covers(lanes', k)
        /\ \A l \in DOMAIN lanes' : Last(lanes'[l]).end.depth \in Nat
    BY <1>1, <1>2, LanesEnd
  <2>4. ASSUME NEW o \in DOMAIN metrics
        PROVE  \/ o \in DOMAIN metrics' /\ metrics'[o] = metrics[o]
               \/ \E k \in Nat : metrics[o].end.depth <= k /\ Kept(k)'
    <3>1. CASE o \notin objects
      BY <1>2, <3>1
    <3>2. CASE o \in objects
      <4>1. metrics'[o].end.depth \in Nat /\ o \in DOMAIN metrics'
        BY <1>1, <1>2 DEF TimeInv, Times
      <4>2. PICK k \in Nat : k = metrics'[o].end.depth
        BY <4>1
      <4>3. k <= metrics'[o].end.depth
        BY <4>2
      <4>4. Kept(k)'
        BY <4>1, <4>3 DEF Kept
      <4> QED
        BY <1>2, <3>2, <4>2, <4>4
    <3> QED
      BY <3>1, <3>2
  <2>5. ASSUME NEW n \in Nat, Kept(n)
        PROVE  Kept(n)'
    BY <1>1, <2>2, <2>3, <2>4, <2>5, KeptStays
  <2> QED
    BY <2>5
<1>12. GatesKept(P2)'
  <2>1. ASSUME NEW h \in Gates'
        PROVE  Kept(P2[h].finish)'
    <3>1. PICK w \in DOMAIN wires : h \in Range(wires'[w])
      BY <1>3 DEF Gates
    <3>2. PICK i \in 1 .. Len(wires'[w]) : h = wires'[w][i]
      <4>1. DOMAIN wires'[w] = 1 .. Len(wires'[w])
        BY <1>1, <1>3, LenProperties
      <4> QED
        BY <3>1, <4>1 DEF Range
    <3>3. CASE w \in objects
      <4>1. P2[h].finish <= metrics'[w].end.depth /\ w \in DOMAIN metrics'
        BY <1>2, <3>2, <3>3 DEF QubitFits
      <4> QED
        BY <4>1 DEF Kept
    <3>4. CASE w \notin objects
      <4>1. h = wires[w][i] /\ i \in 1 .. Len(wires[w]) /\ P2[h] = P[h]
        BY <1>6, <3>2, <3>4
      <4>2. h \in Gates
        <5>1. i \in DOMAIN wires[w]
          BY <1>1, <4>1, LenProperties
        <5> QED
          BY <4>1, <5>1 DEF Gates, Range
      <4>3. Kept(P[h].finish) /\ P[h].finish \in Nat
        BY <1>1, <1>5, <4>2, GateIsPlaced DEF GatesKept
      <4>4. PICK n \in Nat : n = P[h].finish
        BY <4>3
      <4>5. Kept(n)'
        BY <1>11, <4>3, <4>4
      <4>6. P2[h].finish = n
        BY <4>1, <4>4
      <4> QED
        BY <4>5, <4>6 DEF Kept
    <3> QED
      BY <3>3, <3>4
  <2> QED
    BY <2>1 DEF GatesKept
<1>13. LanesSpan(lanes)'
  BY <1>2, <1>4 DEF LanesSpan
<1>14. ScheduleFits(P2)'
  BY <1>8, <1>9, <1>10, <1>12 DEF ScheduleFits
<1> QED
  BY <1>7, <1>13, <1>14 DEF ScheduleInv

LEMMA OnWireIsGate ==
    ASSUME ObjectInv, NEW w \in DOMAIN wires, NEW i \in 1 .. Len(wires[w])
    PROVE  wires[w][i] \in Gates
<1>1. wires[w] \in Seq(GateRecords)
  BY DEF ObjectInv
<1>2. i \in DOMAIN wires[w]
  BY <1>1, LenProperties
<1> QED
  BY <1>2 DEF Gates, Range

\* A gate on one qubit: it waits if those before it do.
LEMMA SingleKeepsSchedule ==
    ASSUME TraceInv, TraceInv', OptimizeDepth, ScheduleInv, NEW o \in DOMAIN metrics,
           NEW time \in Nat, NEW g, GivesGate({o}, g), g.time = time,
           metrics' = SingleGate(o, time), configuration' = configuration,
           lanes' = lanes, depthCalls' = depthCalls
    PROVE  ScheduleInv'
<1> DEFINE m == metrics[o]
           m2 == metrics'[o]
           s == wires[o]
<1>1. /\ TimeInv /\ ObjectInv /\ o \in DOMAIN wires
      /\ metrics \in [DOMAIN metrics -> [start : Starts, end : Times]]
      /\ s \in Seq(GateRecords)
  BY DEF TraceInv, Inv, StateInv, ObjectInv, TimeInv, Wire
<1>2. m \in [start : Starts, end : Times] /\ Before(m.start, m.end) /\ m.end \in Times
  BY <1>1 DEF TimeInv
<1>3. /\ DOMAIN metrics' = DOMAIN metrics
      /\ m2 = [start |-> m.start, end |-> AdvanceBy(m.end, time)]
      /\ \A p \in DOMAIN metrics \ {o} : metrics'[p] = metrics[p]
  BY <1>1 DEF SingleGate
<1>4. PICK P : ScheduleFits(P)
  BY DEF ScheduleInv
<1>5. QubitFits(P, s, m, o) /\ AllPlaced(P, s)
  BY <1>1, <1>4 DEF ScheduleFits, QubitsFit, WiresFit
<1>6. /\ g \in GateRecords /\ g.on = {o} /\ g \notin Gates
      /\ wires'[o] = Append(s, g)
  BY DEF GivesGate
<1>7. AdvanceBy(m.end, time).depth = m.end.depth + time /\ m.end.depth \in Nat
  BY <1>2, AdvanceMeaning
<1>8. GateMeets({o})
  <2>1. metrics[o].end.depth <= metrics'[o].end.depth
    BY <1>3, <1>7
  <2> QED
    BY <1>3, <2>1 DEF GateMeets
<1> DEFINE p == IF m.start = MinValue THEN WaitingAt(P, s, m, time) ELSE FixedAt(m.end, time)
           P2 == [h \in Gates \cup {g} |-> IF h = g THEN p ELSE P[h]]
<1>9. P2[g] = p /\ \A h \in Gates : P2[h] = P[h]
  BY <1>6
<1>10. \A w \in DOMAIN wires : \A i \in 1 .. Len(wires[w]) : P2[wires[w][i]] = P[wires[w][i]]
  BY <1>1, <1>9, OnWireIsGate
<1> HIDE DEF P2
<1>11. \A i \in 1 .. Len(s) : P2[s[i]] = P[s[i]]
  BY <1>1, <1>10
<1>12. QubitFits(P2, wires'[o], m2, o) /\ AllPlaced(P2, wires'[o])
  <2> HIDE DEF s, m, m2
  <2>1. CASE m.start = MinValue
    <3>1. P2[g] = WaitingAt(P, s, m, g.time)
      BY <1>9, <2>1
    <3>2. m2 = [start |-> MinValue, end |-> AdvanceBy(m.end, g.time)]
      BY <1>3, <2>1
    <3>3. QubitFits(P2, Append(s, g), m2, o) /\ AllPlaced(P2, Append(s, g))
      BY <1>1, <1>2, <1>5, <1>6, <1>11, <2>1, <3>1, <3>2, WaitingFits
    <3> QED
      BY <1>6, <3>3
  <2>2. CASE m.start # MinValue
    <3>1. P2[g] = FixedAt(m.end, g.time)
      BY <1>9, <2>2
    <3>2. m2.start = m.start /\ m2.end = AdvanceBy(m.end, g.time)
      BY <1>3
    <3>3. AtMost(m.end, m.end)
      BY <1>2, TimesAreStarts, TimesCompare
    <3>4. AddsFixed(P, P2, s, m, m.end, g, m2)
      BY <1>11, <2>2, <3>1, <3>2, <3>3 DEF AddsFixed
    <3>5. QubitFits(P2, Append(s, g), m2, o) /\ AllPlaced(P2, Append(s, g))
      BY <1>1, <1>2, <1>5, <1>6, <3>4, FixedFits
    <3> QED
      BY <1>6, <3>5
  <2> QED
    BY <2>1, <2>2
<1>13. \A w \in DOMAIN wires \ {o} : \A i \in 1 .. Len(wires[w]) : P2[wires[w][i]] = P[wires[w][i]]
  BY <1>10
<1>14. \A q \in {o} : QubitFits(P2, wires'[q], metrics'[q], q) /\ AllPlaced(P2, wires'[q])
  BY <1>12
<1> QED
  BY <1>4, <1>8, <1>13, <1>14, GateKeepsSchedule

\* A gate on several qubits: those that waited move to where it is.
LEMMA MultiKeepsSchedule ==
    ASSUME TraceInv, TraceInv', OptimizeDepth, ScheduleInv,
           NEW objects \in SUBSET DOMAIN metrics, IsFiniteSet(objects),
           NEW time \in Nat, NEW g, GivesGate(objects, g), g.time = time,
           metrics' = MultiGate(objects, time), configuration' = configuration,
           lanes' = lanes, depthCalls' = depthCalls
    PROVE  ScheduleInv'
<1> DEFINE t == LatestEnd(objects)
<1>1. /\ TimeInv /\ ObjectInv /\ objects \subseteq DOMAIN wires
      /\ metrics \in [DOMAIN metrics -> [start : Starts, end : Times]]
      /\ wires \in [DOMAIN wires -> Seq(GateRecords)]
  BY DEF TraceInv, Inv, StateInv, ObjectInv, TimeInv, Wire
<1>2. \A o \in DOMAIN metrics : /\ metrics[o] \in [start : Starts, end : Times]
                                /\ Before(metrics[o].start, metrics[o].end)
                                /\ metrics[o].end \in Times
  BY <1>1 DEF TimeInv
<1>3. t \in Times /\ \A o \in objects : AtMost(metrics[o].end, t)
  BY <1>1, LatestEndMeaning
<1>4. /\ DOMAIN metrics' = DOMAIN metrics
      /\ \A o \in objects : metrics'[o] = [start |-> FixedStart(metrics[o], t),
                                           end |-> AdvanceBy(t, time)]
      /\ \A o \in DOMAIN metrics \ objects : metrics'[o] = metrics[o]
  BY DEF MultiGate, Advanced
<1> HIDE DEF t
<1>5. PICK P : ScheduleFits(P)
  BY DEF ScheduleInv
<1>6. \A o \in objects : QubitFits(P, wires[o], metrics[o], o) /\ AllPlaced(P, wires[o])
  BY <1>1, <1>5 DEF ScheduleFits, QubitsFit, WiresFit
<1>7. /\ g \in GateRecords /\ g.on = objects /\ g \notin Gates
      /\ \A o \in objects : wires'[o] = Append(wires[o], g)
  BY DEF GivesGate
<1>8. GateMeets(objects)
  <2>1. ASSUME NEW o \in objects
        PROVE  metrics[o].end.depth <= metrics'[o].end.depth
    <3>1. AdvanceBy(t, time).depth = t.depth + time /\ t.depth \in Nat
      BY <1>3, AdvanceMeaning
    <3>2. metrics[o].end.depth <= t.depth /\ metrics[o].end.depth \in Nat
      <4>1. metrics[o].end \in Times /\ AtMost(metrics[o].end, t)
        BY <1>2, <1>3
      <4> QED
        BY <1>3, <4>1, SubtractMeaning, TimesAreStarts, TimesCompare
    <3>3. metrics'[o].end = AdvanceBy(t, time)
      <4>1. metrics'[o] = [start |-> FixedStart(metrics[o], t), end |-> AdvanceBy(t, time)]
        BY <1>4
      <4> QED
        BY <4>1
    <3> QED
      BY <3>1, <3>2, <3>3
  <2> QED
    BY <1>4, <2>1 DEF GateMeets
<1> DEFINE Waited(h) == \E o \in objects : h.on = {o} /\ metrics[o].start = MinValue
           only(h) == CHOOSE o : h.on = {o}
           P2 == [h \in Gates \cup {g} |->
                    IF h = g THEN FixedAt(t, time)
                    ELSE IF Waited(h) THEN MovedTo(P[h], Subtract(t, metrics[only(h)].end))
                         ELSE P[h]]
<1>9. /\ P2[g] = FixedAt(t, g.time)
      /\ \A h \in Gates : Waited(h) => P2[h] = MovedTo(P[h], Subtract(t, metrics[only(h)].end))
      /\ \A h \in Gates : ~ Waited(h) => P2[h] = P[h]
  BY <1>7
<1> HIDE DEF P2
<1>10. \A w \in DOMAIN wires : \A i \in 1 .. Len(wires[w]) :
            wires[w][i] \in Gates /\ w \in wires[w][i].on
  BY <1>1, OnWireIsGate DEF ScheduleInv, GatesAreOn
<1>11. ASSUME NEW w \in DOMAIN wires, NEW i \in 1 .. Len(wires[w]),
              ~ (w \in objects /\ metrics[w].start = MinValue)
       PROVE  P2[wires[w][i]] = P[wires[w][i]]
  <2>1. ~ Waited(wires[w][i])
    BY <1>10, <1>11
  <2> QED
    BY <1>9, <1>10, <2>1
<1>12. ASSUME NEW o \in objects
       PROVE  QubitFits(P2, wires'[o], metrics'[o], o) /\ AllPlaced(P2, wires'[o])
  <2> DEFINE s == wires[o]
             m == metrics[o]
             m2 == metrics'[o]
  <2>1. /\ QubitFits(P, s, m, o) /\ AllPlaced(P, s) /\ s \in Seq(GateRecords)
        /\ m \in [start : Starts, end : Times] /\ Before(m.start, m.end) /\ AtMost(m.end, t)
        /\ m2 = [start |-> FixedStart(m, t), end |-> AdvanceBy(t, g.time)]
        /\ wires'[o] = Append(s, g)
    BY <1>1, <1>2, <1>3, <1>4, <1>6, <1>7
  <2>2. CASE m.start # MinValue
    <3>1. \A i \in 1 .. Len(s) : P2[s[i]] = P[s[i]]
      BY <1>1, <1>11, <2>2
    <3>2. m2.start = m.start /\ m2.end = AdvanceBy(t, g.time)
      BY <2>1, <2>2 DEF FixedStart
    <3>3. P2[g] = FixedAt(t, g.time) /\ t \in Times /\ g \in GateRecords
      BY <1>3, <1>7, <1>9
    <3>4. /\ QubitFits(P, s, m, o) /\ AllPlaced(P, s) /\ s \in Seq(GateRecords)
          /\ m \in [start : Starts, end : Times] /\ Before(m.start, m.end) /\ AtMost(m.end, t)
      BY <2>1
    <3> HIDE DEF s, m, m2
    <3>5. AddsFixed(P, P2, s, m, t, g, m2)
      BY <2>2, <3>1, <3>2, <3>3, <3>4 DEF AddsFixed
    <3>6. QubitFits(P2, Append(s, g), m2, o) /\ AllPlaced(P2, Append(s, g))
      BY <3>3, <3>4, <3>5, FixedFits
    <3> QED
      BY <2>1, <3>6 DEF m2
  <2>3. CASE m.start = MinValue
    <3>1. ASSUME NEW i \in 1 .. Len(s)
          PROVE  P2[s[i]] = MovedTo(P[s[i]], Subtract(t, m.end))
      <4>1. Waits(P, s, o)
        <5>1. MinValue \notin Times
          BY DEF MinValue, Times, Time
        <5> QED
          BY <2>1, <2>3, <5>1 DEF QubitFits
      <4>2. s[i].on = {o} /\ s[i] \in Gates
        BY <1>1, <1>10, <4>1 DEF Waits
      <4>3. Waited(s[i]) /\ only(s[i]) = o
        BY <2>3, <4>2
      <4> QED
        BY <1>9, <4>2, <4>3
    <3>2. m2 = [start |-> Subtract(t, m.end), end |-> AdvanceBy(t, g.time)]
      BY <2>1, <2>3 DEF FixedStart
    <3> HIDE DEF s, m, m2
    <3>3. QubitFits(P2, Append(s, g), m2, o) /\ AllPlaced(P2, Append(s, g))
      BY <1>3, <1>7, <1>9, <2>1, <2>3, <3>1, <3>2, MovedFits
    <3> QED
      BY <2>1, <3>3 DEF m2
  <2> QED
    BY <2>2, <2>3
<1>13. \A w \in DOMAIN wires \ objects : \A i \in 1 .. Len(wires[w]) :
            P2[wires[w][i]] = P[wires[w][i]]
  BY <1>11
<1> QED
  BY <1>5, <1>8, <1>12, <1>13, GateKeepsSchedule

LEMMA PrimitiveKeepsSchedule ==
    ASSUME TraceInv, TraceInv', OptimizeDepth, ScheduleInv, NEW n,
           NEW objects \in kSubset(n, Reach), NEW time \in Nat,
           DoPrimitiveOperation(objects, time), configuration' = configuration
    PROVE  ScheduleInv'
<1>1. TimeInv /\ ObjectInv /\ NumbersFit(Gates) /\ StateInv
  BY DEF TraceInv, Inv, StateInv, PathInv
<1>2. /\ wires' = WithGate(WiresFor(objects), time) /\ depthCalls' = depthCalls /\ lanes' = lanes
      /\ metrics' = IF Cardinality(objects) = 1
                    THEN SingleGate(CHOOSE o \in objects : TRUE, time)
                    ELSE MultiGate(objects, time)
  BY DEF DoPrimitiveOperation, WiresFor, DepthGate
<1>3. objects \in SUBSET DOMAIN metrics /\ IsFiniteSet(objects)
  <2>1. objects \in SUBSET Reach
    BY DEF kSubset
  <2> QED
    BY <1>1, <2>1, ReachIsLive, FS_Subset
<1>4. CASE objects = {}
  <2>1. Cardinality(objects) # 1
    BY <1>4, FS_EmptySet
  <2>2. metrics' = metrics
    BY <1>1, <1>2, <1>4, <2>1 DEF MultiGate, TimeInv
  <2>3. wires' = wires
    BY <1>1, <1>2, <1>4 DEF WiresFor, WithGate, ObjectInv
  <2>4. ReturnsKept
    <3>1. \A j \in 1 .. Len(depthCalls) : depthCalls[j].returned \in Nat
      BY ReturnsAreNumbers DEF TraceInv
    <3>2. \A j \in 1 .. Len(depthCalls) :
            /\ depthCalls[j].returned \in Nat /\ depthCalls'[j].returned \in Nat
            /\ depthCalls[j].returned <= depthCalls'[j].returned /\ j \in 1 .. Len(depthCalls')
      BY <1>2, <3>1
    <3> QED
      BY <3>2 DEF ReturnsKept
  <2> QED
    BY <1>2, <2>2, <2>3, <2>4, RecordingKeepsSchedule
<1>5. CASE objects # {}
  <2>1. PICK g : GivesGate(objects, g) /\ g.time = time
    BY <1>1, <1>2, <1>3, <1>5, GateIsGiven
  <2>2. CASE Cardinality(objects) = 1
    <3>1. PICK o : objects = {o}
      BY <1>3, <2>2, FS_Singleton
    <3>2. (CHOOSE q \in objects : TRUE) = o /\ o \in DOMAIN metrics
      BY <1>3, <3>1
    <3>3. metrics' = SingleGate(o, time)
      BY <1>2, <2>2, <3>2
    <3>4. GivesGate({o}, g)
      BY <2>1, <3>1
    <3> QED
      BY <1>2, <2>1, <3>2, <3>3, <3>4, SingleKeepsSchedule
  <2>3. CASE Cardinality(objects) # 1
    <3>1. metrics' = MultiGate(objects, time)
      BY <1>2, <2>3
    <3> QED
      BY <1>2, <1>3, <2>1, <3>1, MultiKeepsSchedule
  <2> QED
    BY <2>2, <2>3
<1> QED
  BY <1>4, <1>5

-----------------------------------------------------------------------------
(* Every run.                                                               *)

LEMMA InitialSchedule ==
    ASSUME Init
    PROVE  ScheduleInv
<1>1. DOMAIN wires = {} /\ DOMAIN metrics = {} /\ DOMAIN lanes = {}
  BY DEF Init, DepthInit
<1>2. Gates = {}
  BY <1>1 DEF Gates
<1>3. GatesAreOn /\ LanesSpan(lanes)
  BY <1>1 DEF GatesAreOn, LanesSpan
<1>4. ScheduleFits(<< >>)
  BY <1>1, <1>2 DEF ScheduleFits, WiresFit, QubitsFit, LanesFit, GatesKept
<1> QED
  BY <1>3, <1>4 DEF ScheduleInv

LEMMA BlocksKeepSchedule ==
    ASSUME TraceInv, TraceInv', OptimizeDepth, ScheduleInv, configuration' = configuration,
           NEW n \in Nat, Allocate(n) \/ Borrow(n) \/ Release \/ Return
    PROVE  ScheduleInv'
<1>1. Inv
  BY DEF TraceInv
<1>2. CASE Allocate(n)
  <2>1. PICK ids \in NewIds(n) : OpensBlock("use", ids, 0) /\ DepthAllocate(Created(ids))
    BY <1>1, <1>2, AllocateOpens
  <2> QED
    BY <2>1, OpenKeepsSchedule DEF DepthAllocate
<1>3. CASE Borrow(n)
  <2>1. PICK lent, new : LendsIds(n, lent, new)
    BY <1>1, <1>3, BorrowOpens
  <2>2. /\ OpensBlock("borrow", lent \cup new, Cardinality(lent))
        /\ DepthBorrow(Created(lent \cup new))
    BY <2>1 DEF LendsIds
  <2> QED
    BY <2>2, OpenKeepsSchedule DEF DepthBorrow
<1>4. CASE Release
  <2>1. ClosesBlock("use") /\ DepthRelease(Last(frames[Top].blocks).objects)
    BY <1>1, <1>4, ReleaseCloses DEF Release
  <2> QED
    BY <2>1, ReleaseKeepsSchedule
<1>5. CASE Return
  <2>1. ClosesBlock("borrow") /\ DepthReturn(Last(frames[Top].blocks).objects)
    BY <1>1, <1>5, ReturnCloses DEF Return
  <2> QED
    BY <2>1, ReturnKeepsSchedule
<1> QED
  BY <1>2, <1>3, <1>4, <1>5

LEMMA OthersKeepSchedule ==
    ASSUME TraceInv, TraceInv', OptimizeDepth, ScheduleInv, configuration' = configuration,
           \/ Gate \/ Measure \/ AssertProb \/ ForceMeasure
           \/ OnOperationStart \/ OnOperationEnd \/ OnFail \/ Unwind
    PROVE  ScheduleInv'
<1>1. CASE Gate
  <2>1. PICK kind \in configuration.GateTimes : \E objects \in kSubset(kind[1], Reach) :
            DoPrimitiveOperation(objects, kind[2])
    BY <1>1 DEF Gate
  <2>2. kind[2] \in Nat
    <3>1. configuration \in Configurations
      BY DEF TraceInv, Inv, StateInv, TypeInv
    <3> QED
      BY <3>1, ConstantsAssumption
  <2> QED
    BY <2>1, <2>2, PrimitiveKeepsSchedule
<1>2. CASE Measure
  <2>1. PICK n \in {1, 2} : \E objects \in kSubset(n, Reach) :
            DoPrimitiveOperation(objects, MeasureTime)
    BY <1>2 DEF Measure
  <2>2. MeasureTime \in Nat
    BY ConstantsAssumption
  <2> QED
    BY <2>1, <2>2, PrimitiveKeepsSchedule
<1>3. CASE AssertProb \/ ForceMeasure \/ OnFail
  <2>1. UNCHANGED <<configuration, depthVars, wires>>
    BY <1>3 DEF AssertProb, ForceMeasure, OnFail
  <2> QED
    BY <2>1, QuietKeepsSchedule
<1>4. CASE OnOperationStart
  <2>1. PICK inputs \in SUBSET Reach :
            /\ ~ failing /\ frames' = Append(frames, Frame(inputs))
            /\ IF Recorded(Top) THEN DepthStart(inputs) /\ WidthStart(Cardinality(inputs))
               ELSE UNCHANGED <<depthVars, widthVars>>
            /\ UNCHANGED <<held, fresh, failing, wires>>
    BY <1>4 DEF OnOperationStart
  <2>2. IF Recorded(Top) THEN DepthStart(inputs) ELSE UNCHANGED depthVars
    BY <2>1
  <2>3. metrics' = metrics
    BY <2>2 DEF DepthStart, depthVars
  <2>4. OpensCall(inputs)
    BY <2>1, <2>3 DEF OpensCall, ObjectsStay
  <2> QED
    BY <2>2, <2>4, StartKeepsSchedule
<1>5. CASE OnOperationEnd
  BY <1>5, OperationEndCloses, EndKeepsSchedule DEF TraceInv
<1>6. CASE Unwind
  BY <1>6, UnwindCloses, EndKeepsSchedule DEF TraceInv
<1> QED
  BY <1>1, <1>2, <1>3, <1>4, <1>5, <1>6

LEMMA StepKeepsSchedule ==
    ASSUME TraceInv, TraceInv', ScheduleInv, [Next]_vars
    PROVE  ScheduleInv'
<1>1. configuration' = configuration
  BY DEF Next, vars
<1>2. CASE OptimizeDepth
  <2>1. CASE UNCHANGED vars
    <3>1. UNCHANGED <<configuration, depthVars, wires>>
      BY <2>1 DEF vars
    <3> QED
      BY <1>2, <3>1, QuietKeepsSchedule
  <2>2. CASE \E n \in Nat : Allocate(n) \/ Borrow(n) \/ Release \/ Return
    BY <1>1, <1>2, <2>2, BlocksKeepSchedule
  <2>3. CASE \/ Gate \/ Measure \/ AssertProb \/ ForceMeasure
             \/ OnOperationStart \/ OnOperationEnd \/ OnFail \/ Unwind
    BY <1>1, <1>2, <2>3, OthersKeepSchedule
  <2>4. 0 \in Nat /\ \A k : k \in 1 .. configuration.MaxRequest \/ k \in 1 .. configuration.MaxBorrow => k \in Nat
    OBVIOUS
  <2> QED
    BY <2>1, <2>2, <2>3, <2>4 DEF Next
<1>3. CASE ~ OptimizeDepth
  BY <1>1, <1>3 DEF ScheduleInv, OptimizeDepth
<1> QED
  BY <1>2, <1>3

\* The circuit is as deep as any of what its depth is the largest of.
LEMMA DepthMeaning ==
    ASSUME TraceInv, OptimizeDepth
    PROVE  CircuitDepth \in Nat /\ \A n \in Nat : Kept(n) => n <= CircuitDepth
<1> DEFINE ends == {t.depth : t \in DOMAIN endTimes}
           busy == {metrics[o].end.depth : o \in DOMAIN metrics}
           returns == {call.returned : call \in Range(depthCalls)}
           S == ends \cup busy \cup returns \cup {0}
<1>1. /\ TimeInv /\ LaneInv /\ LayoutInv(Layout) /\ IsFiniteSet(DOMAIN metrics)
      /\ maxQubitId \in Int /\ DOMAIN lanes = -1 .. maxQubitId - 1
      /\ PoolOf(endTimes, LaneEnds(lanes))
  BY DEF TraceInv, Inv, StateInv, ObjectInv, LaneInv, LayoutInv, Layout
<1>2. /\ DOMAIN endTimes = {Last(lanes[l]).end : l \in DOMAIN lanes}
      /\ \A l \in DOMAIN lanes : Last(lanes[l]).end.depth \in Nat
  <2>1. DOMAIN endTimes = {LaneEnds(lanes)[l] : l \in DOMAIN LaneEnds(lanes)}
    BY <1>1 DEF PoolOf
  <2> QED
    BY <1>1, <2>1, LanesEnd DEF LaneEnds
<1>3. ends \in SUBSET Nat /\ IsFiniteSet(ends)
  <2>1. IsFiniteSet(DOMAIN lanes)
    <3> DEFINE a == -1
               b == maxQubitId - 1
    <3>1. a \in Int /\ b \in Int /\ DOMAIN lanes = a .. b
      BY <1>1
    <3> HIDE DEF a, b
    <3> QED
      BY <3>1, FS_Interval
  <2> DEFINE f == [l \in DOMAIN lanes |-> Last(lanes[l]).end.depth]
  <2>2. f \in Surjection(DOMAIN lanes, ends)
    BY <1>2 DEF Surjection
  <2> HIDE DEF f
  <2>3. IsFiniteSet(ends)
    BY <2>1, <2>2, FS_Surjection
  <2> QED
    BY <1>2, <2>3
<1>4. busy \in SUBSET Nat /\ IsFiniteSet(busy)
  <2> DEFINE f == [o \in DOMAIN metrics |-> metrics[o].end.depth]
  <2>1. f \in Surjection(DOMAIN metrics, busy)
    BY DEF Surjection
  <2>2. \A o \in DOMAIN metrics : metrics[o].end.depth \in Nat
    BY <1>1 DEF TimeInv, Times
  <2> HIDE DEF f
  <2> QED
    BY <1>1, <2>1, <2>2, FS_Surjection
<1>5. /\ Len(depthCalls) \in Nat /\ DOMAIN depthCalls = 1 .. Len(depthCalls)
      /\ \A j \in 1 .. Len(depthCalls) : depthCalls[j].returned \in Nat
  BY CallsHaveFrames, ReturnsAreNumbers DEF TraceInv, Inv
<1>6. returns \in SUBSET Nat /\ IsFiniteSet(returns)
  <2> DEFINE n == Len(depthCalls)
             f == [j \in 1 .. n |-> depthCalls[j].returned]
  <2>1. f \in Surjection(1 .. n, returns)
    BY <1>5 DEF Surjection, Range
  <2>2. returns \in SUBSET Nat
    BY <1>5 DEF Range
  <2>3. n \in Int /\ 1 \in Int
    BY <1>5
  <2> HIDE DEF f, n
  <2>4. IsFiniteSet(1 .. n)
    BY <2>3, FS_Interval
  <2> QED
    BY <2>1, <2>2, <2>4, FS_Surjection
<1>7. \A j \in 1 .. Len(depthCalls) : depthCalls[j].returned \in returns
  BY <1>5 DEF Range
<1>8. \A l \in DOMAIN lanes : Last(lanes[l]).end.depth \in ends
  BY <1>2
<1>9. \A o \in DOMAIN metrics : metrics[o].end.depth \in busy
  OBVIOUS
<1>10. CircuitDepth = Max(S)
  BY DEF CircuitDepth
<1> HIDE DEF ends, busy, returns
<1>11. S \in SUBSET Nat /\ IsFiniteSet(S) /\ S # {}
  <2>1. IsFiniteSet({0})
    BY FS_Singleton
  <2>2. IsFiniteSet(ends \cup busy)
    BY <1>3, <1>4, FS_Union
  <2>3. IsFiniteSet(ends \cup busy \cup returns)
    BY <1>6, <2>2, FS_Union
  <2>4. IsFiniteSet(S)
    BY <2>1, <2>3, FS_Union
  <2>5. S \in SUBSET Nat /\ S # {}
    BY <1>3, <1>4, <1>6
  <2> QED
    BY <2>4, <2>5
<1>12. /\ \A o \in DOMAIN metrics : metrics[o].end.depth \in S
       /\ \A l \in DOMAIN lanes : Last(lanes[l]).end.depth \in S
       /\ \A j \in 1 .. Len(depthCalls) : depthCalls[j].returned \in S
       /\ 0 \in S
  BY <1>7, <1>8, <1>9
<1> HIDE DEF S
<1>13. CircuitDepth \in Nat /\ \A n \in S : n \in Nat /\ n <= CircuitDepth
  BY <1>10, <1>11, MaxMeaning
<1>14. ASSUME NEW n \in Nat, Kept(n)
       PROVE  n <= CircuitDepth
  <2>1. PICK m \in S : n <= m
    BY <1>12, <1>14 DEF Kept, Covers
  <2>2. m \in Nat /\ m <= CircuitDepth
    BY <1>13
  <2> QED
    BY <1>13, <2>1, <2>2
<1> QED
  BY <1>13, <1>14

\* The lanes add an order that the schedule keeps too.
LEMMA ScheduleKeepsOrder ==
    ASSUME TraceInv, OptimizeDepth, ScheduleInv, NEW P, ScheduleFits(P)
    PROVE  KeepsOrder(P, WireOrder \cup LaneOrder)
<1>1. /\ ObjectInv /\ TimeInv /\ LaneInv
      /\ wires \in [DOMAIN wires -> Seq(GateRecords)]
  BY DEF TraceInv, Inv, StateInv, ObjectInv
<1>2. WiresFit(P) /\ LanesFit(P)
  BY DEF ScheduleFits
<1>3. Gates = GatesOf(wires) /\ WireOrder = OrderOf(wires) /\ Gates \subseteq GateRecords
  BY <1>1, GatesAreGatesOf, WiresMeaning
<1>4. \A g \in Gates : P[g] \in Positions /\ g.time \in Nat /\ g.time <= P[g].finish
  BY <1>1, <1>2, <1>3, GateIsPlaced DEF Placed, GateRecords
<1>5. ASSUME NEW f \in Gates, NEW g \in Gates, <<f, g>> \in WireOrder
      PROVE  Follows(P[f], P[g], g.time)
  <2>1. PICK w \in DOMAIN wires : \E i \in 1 .. Len(wires[w]) - 1 :
            f = wires[w][i] /\ g = wires[w][i + 1]
    <3> DEFINE W == wires
    <3>1. W \in [DOMAIN W -> Seq(GateRecords)] /\ <<f, g>> \in OrderOf(W)
      BY <1>1, <1>3, <1>5
    <3> HIDE DEF W
    <3>2. \E w \in DOMAIN W : \E i \in 1 .. Len(W[w]) - 1 : f = W[w][i] /\ g = W[w][i + 1]
      BY <3>1, WiresMeaning DEF GatesAre
    <3> QED
      BY <3>2 DEF W
  <2>2. Rises(P, wires[w])
    BY <1>2 DEF WiresFit
  <2> QED
    BY <2>1, <2>2 DEF Rises
<1>6. ASSUME NEW f \in Gates, NEW g \in Gates, <<f, g>> \in LaneOrder
      PROVE  Follows(P[f], P[g], g.time)
  <2>1. PICK l \in DOMAIN lanes : \E i \in 1 .. Len(lanes[l]) - 1 :
            <<f, g>> = <<Last(wires[lanes[l][i].object]), wires[lanes[l][i + 1].object][1]>>
    BY <1>6 DEF LaneOrder
  <2>10. PICK i \in 1 .. Len(lanes[l]) - 1 :
            <<f, g>> = <<Last(wires[lanes[l][i].object]), wires[lanes[l][i + 1].object][1]>>
    BY <2>1
  <2>2. IsLane(lanes[l])
    BY <1>1, LanesEnd
  <2>3. lanes[l] \in Seq(Slots(P)) /\ Len(lanes[l]) \in Nat
    BY <1>2, <2>2 DEF LanesFit, IsLane
  <2> DEFINE q == lanes[l][i]
             q2 == lanes[l][i + 1]
  <2>4. q \in Slots(P) /\ q2 \in Slots(P) /\ AtMost(q.end, q2.start)
    <3>1. i \in 1 .. Len(lanes[l]) /\ i + 1 \in 1 .. Len(lanes[l])
      BY <2>3
    <3> QED
      BY <2>2, <2>3, <3>1, ElementOfSeq DEF IsLane
  <2>5. f = Last(wires[q.object]) /\ g = wires[q2.object][1]
    BY <2>10
  <2> HIDE DEF q, q2
  <2>6. /\ SlotFits(P, q) /\ SlotFits(P, q2) /\ q.end \in Times /\ q2.start \in Starts
    BY <2>4 DEF Slots, BusyRecords
  <2>7. EndsBy(P[f], q.end)
    BY <2>5, <2>6 DEF SlotFits, Last
  <2>8. BeginsAfter(P[g], q2.start, g.time)
    BY <2>5, <2>6 DEF SlotFits
  <2> QED
    BY <1>4, <2>4, <2>6, <2>7, <2>8, FollowsAcross
<1> QED
  BY <1>4, <1>5, <1>6 DEF KeepsOrder

LEMMA SchedulesShow ==
    ASSUME TraceInv, ScheduleInv
    PROVE  ReuseIsSchedulable
<1>1. CASE OptimizeDepth
  <2> DEFINE order == WireOrder \cup LaneOrder
             end == EarliestEnd(order)
  <2>1. PICK P : ScheduleFits(P)
    BY <1>1 DEF ScheduleInv
  <2>2. KeepsOrder(P, order)
    BY <1>1, <2>1, ScheduleKeepsOrder
  <2>3. ObjectInv /\ IsFiniteSet(Gates)
    BY GatesAreFinite DEF TraceInv, Inv, StateInv
  <2> HIDE DEF order
  <2>4. IsAcyclic(order)
    BY <2>2, <2>3, ScheduleRanks, RankedIsAcyclic
  <2>5. \A g \in Gates : end[g] \in Nat /\ end[g] <= P[g].finish
    BY <2>2, <2>3, EarliestIsBounded
  <2> HIDE DEF end
  <2>6. CircuitDepth \in Nat /\ \A n \in Nat : Kept(n) => n <= CircuitDepth
    BY <1>1, DepthMeaning
  <2>7. \A g \in Gates : end[g] <= CircuitDepth
    <3> TAKE g \in Gates
    <3>1. Kept(P[g].finish) /\ P[g].finish \in Nat
      BY <2>1, <2>3, GateIsPlaced DEF ScheduleFits, GatesKept
    <3>2. P[g].finish <= CircuitDepth
      BY <2>6, <3>1
    <3> QED
      BY <2>5, <2>6, <3>1, <3>2
  <2>8. Latest(end) <= CircuitDepth
    <3>1. Latest(end) = LatestOf(end, Gates)
      BY DEF Latest, LatestOf
    <3>2. Latest(end) = 0 \/ \E g \in Gates : Latest(end) = end[g]
      BY <2>3, <2>5, <3>1, LatestMeaning
    <3> QED
      BY <2>6, <2>7, <3>2
  <2> QED
    BY <2>4, <2>8 DEF ReuseIsSchedulable, order, end
<1>2. CASE ~ OptimizeDepth
  BY <1>2 DEF ReuseIsSchedulable
<1> QED
  BY <1>1, <1>2

\* With OptimizeDepth there is a schedule of the gates that has room for the lanes, in every run.
THEOREM SchedulesAreKept == Spec => []ScheduleInv
<1>1. Init => ScheduleInv
  BY InitialSchedule
<1>2. Inv /\ LaneInv /\ PathInv /\ Inv' /\ LaneInv' /\ PathInv' /\ ScheduleInv /\ [Next]_vars
        => ScheduleInv'
  BY StepKeepsSchedule DEF TraceInv
<1> QED
  BY <1>1, <1>2, TracerInvariance, LanesAreKept, PathsAreKept, PTL DEF Spec

\* Depth-optimal reuse never promises too much: whatever was released and put on the lanes, the
\* gates can be scheduled so that the qubits of a lane have their gates one after the other and
\* no gate ends later than the depth that is reported.  For all gates and gate times, however
\* qubits were used, borrowed, returned or leaked by an exception.
THEOREM ReuseCanBeScheduled == Spec => []ReuseIsSchedulable
<1>1. Inv /\ LaneInv /\ PathInv /\ ScheduleInv => ReuseIsSchedulable
  BY SchedulesShow DEF TraceInv
<1> QED
  BY <1>1, TracerInvariance, LanesAreKept, PathsAreKept, SchedulesAreKept, PTL
=============================================================================
