---------------------------- MODULE QArrayProofs ----------------------------
(***************************************************************************)
(* Theorems about QArray, for any number of arrays, any elements, lengths, *)
(* steps and counts: however arrays share their inner arrays, each reads   *)
(* as if it had its own.                                                   *)
(*                                                                         *)
(* The argument.  A heap is sound if every window fits its inner array and *)
(* no inner array has more pointers than it counts.  What an array reads   *)
(* depends on its window and the storage under it only, so that it is      *)
(* enough to follow the heaps that the operations make: one with a new     *)
(* inner array (NewInner, Compressed), one with another pointer (Shared),  *)
(* one with another storage under all windows on it (Restored).  An array  *)
(* is written to when it is the only one that points to its inner array:   *)
(* the count says so, and it is never too low (PointerCounts).  An inner   *)
(* array is extended behind every cell it has (ExtendedStorage), where no  *)
(* window ends.  A range is written by a recursive function; the induction *)
(* over it is done with sets (RangeIsWritten).                             *)
(*                                                                         *)
(* Two hypotheses of the theorems, MinIndex \in Nat and ~SelfUpdates,      *)
(* leave out what the code does not get right: an index below zero loses   *)
(* a reference or is taken for an element (QArray.cs:118, 325), and a      *)
(* range update from the array itself reads what it has just written       *)
(* (QArray.cs:357).                                                        *)
(***************************************************************************)
EXTENDS QArray, FiniteSetTheorems, SequenceTheorems, NaturalsInduction,
        WellFoundedInduction, TLAPS

-----------------------------------------------------------------------------
(* What is invariant.                                                       *)

Windows == [inner : Inners, start : Int, step : Int \ {0}, length : Nat]

InnerArrays == [refCount : Nat, storage : Seq(Values)]

\* Every index of window a is a cell of storage s.
Fits(a, s) == \A i \in 0 .. a.length - 1 : ConvertIndex(a, i) \in 0 .. Len(s) - 1

\* What window a shows of storage s.
Seen(a, s) == [i \in 1 .. a.length |-> s[ConvertIndex(a, i - 1) + 1]]

Pointers(h, n) == {v \in Vars : h.arrays[v].inner = n}

\* From h to h2 no array but v moves to another inner array.
OthersStay(h, h2, v) == \A u \in Vars \ {v} : h2.arrays[u].inner = h.arrays[u].inner

\* v's share of the pointers to n.
PointsTo(h, v, n) == IF h.arrays[v].inner = n THEN 1 ELSE 0

\* Windows fit their inner arrays, and no inner array has more pointers than it counts.
SoundHeap(h) ==
    /\ h.arrays \in [Vars -> Windows] /\ h.inners \in [Inners -> InnerArrays]
    /\ \A v \in Vars : Fits(h.arrays[v], Storage(h, v))
    /\ \A n \in Inners : Cardinality(Pointers(h, n)) <= h.inners[n].refCount

\* The inductive invariant: the heap is sound, and the program reads the values.
Inv ==
    /\ SoundHeap(Heap)
    /\ value = [v \in Vars |-> Elements(Heap, v)]
    /\ outside \in BOOLEAN

-----------------------------------------------------------------------------
(* Induction.  The theorem that the order of the naturals is well-founded,   *)
(* in terms of sets.                                                        *)

Below == {pair \in Nat \X Nat : pair[1] < pair[2]}

\* A set of naturals that is not empty has a least element.
LEMMA LeastNatural ==
    ASSUME NEW T, T \subseteq Nat, T # {}
    PROVE  \E n \in T : \A m \in T : n <= m
<1>1. IsWellFoundedOn(Below, Nat)
  BY NatLessThanWellFounded DEF OpToRel, Below
<1>2. PICK n \in T : \A m \in T : <<m, n>> \notin Below
  BY <1>1, WFMin
<1>3. \A m \in T : ~(m < n)
  BY <1>2 DEF Below
<1> QED
  BY <1>3

\* A set with 0 and the successor of each of its naturals has all of them.
LEMMA NaturalInduction ==
    ASSUME NEW T, 0 \in T, \A n \in Nat : n \in T => n + 1 \in T
    PROVE  Nat \subseteq T
<1> SUFFICES ASSUME Nat \ T # {} PROVE FALSE
  OBVIOUS
<1>1. PICK n \in Nat \ T : \A m \in Nat \ T : n <= m
  BY LeastNatural
<1>2. n # 0 /\ n - 1 \in Nat /\ n - 1 \in T
  BY <1>1
<1> QED
  BY <1>1, <1>2

-----------------------------------------------------------------------------
(* Arithmetic.                                                              *)

\* A product is zero only if a factor is.
LEMMA ProductNotZero ==
    ASSUME NEW a \in Int \ {0}, NEW b \in Int \ {0}
    PROVE  a * b \in Int \ {0}
OBVIOUS

\* Multiplication by a positive number keeps the order.
LEMMA Monotone ==
    ASSUME NEW a \in Int, NEW b \in Int, a <= b, NEW s \in Nat
    PROVE  a * s <= b * s
<1>1. (b - a) * s >= 0
  OBVIOUS
<1> QED
  BY <1>1

\* Different indices have different cells.
LEMMA CellsDiffer ==
    ASSUME NEW a \in Windows, NEW i \in Int, NEW j \in Int,
           ConvertIndex(a, i) = ConvertIndex(a, j)
    PROVE  i = j
<1> DEFINE s == a.step
<1>1. s \in Int /\ s # 0 /\ a.start \in Int
  BY DEF Windows
<1>2. a.start + i * s = a.start + j * s
  BY DEF ConvertIndex
<1> HIDE DEF s
<1>3. (i - j) * s = 0
  BY <1>1, <1>2
<1>4. i - j = 0
  BY <1>1, <1>3, ProductNotZero
<1> QED
  BY <1>4

\* Between two indices whose cells exist, all cells do.
LEMMA BetweenEnds ==
    ASSUME NEW start \in Int, NEW s \in Int, NEW low \in Int, NEW high \in Int, NEW i \in Nat,
           NEW last \in Nat, i <= last, start \in low .. high, start + last * s \in low .. high
    PROVE  start + i * s \in low .. high
<1>1. CASE s >= 0
  <2>1. 0 * s <= i * s /\ i * s <= last * s
    BY <1>1, Monotone
  <2> QED
    BY <2>1
<1>2. CASE s < 0
  <2>1. 0 * (-s) <= i * (-s) /\ i * (-s) <= last * (-s)
    BY <1>2, Monotone
  <2> QED
    BY <2>1
<1> QED
  BY <1>1, <1>2

-----------------------------------------------------------------------------
(* Pointers.                                                                *)

\* There is an inner array without pointers: there is one more of them than arrays.
LEMMA FreshIsFree ==
    ASSUME NEW h
    PROVE  Fresh(h) \in Inners /\ \A v \in Vars : h.arrays[v].inner # Fresh(h)
<1>1. IsFiniteSet(Vars) /\ Cardinality(Vars) \in Nat
  BY ConstantsAssumption, FS_CardinalityType
<1>2. IsFiniteSet(Inners) /\ Cardinality(Inners) = Cardinality(Vars) + 1
  BY <1>1, FS_Interval DEF Inners
<1>3. \E n \in Inners : \A v \in Vars : h.arrays[v].inner # n
  <2> SUFFICES ASSUME \A n \in Inners : \E v \in Vars : h.arrays[v].inner = n
               PROVE  FALSE
    OBVIOUS
  <2> DEFINE f == [n \in Inners |-> CHOOSE v \in Vars : h.arrays[v].inner = n]
  <2>1. f \in [Inners -> Vars] /\ \A n \in Inners : h.arrays[f[n]].inner = n
    OBVIOUS
  <2>2. \E x, y \in Inners : x # y /\ f[x] = f[y]
    <3> HIDE DEF f
    <3> QED
      BY <1>1, <1>2, <2>1, FS_PigeonHole
  <2> QED
    BY <2>1, <2>2
<1> QED
  BY <1>3 DEF Fresh

\* The pointers to an inner array are finitely many.
LEMMA PointersFinite ==
    ASSUME NEW h, NEW n
    PROVE  IsFiniteSet(Pointers(h, n)) /\ Cardinality(Pointers(h, n)) \in Nat
<1>1. Pointers(h, n) \in SUBSET Vars
  BY DEF Pointers
<1>2. IsFiniteSet(Pointers(h, n))
  BY <1>1, ConstantsAssumption, FS_Subset
<1> QED
  BY <1>2, FS_CardinalityType

\* The number of pointers to an inner array when v moves.
LEMMA PointersMove ==
    ASSUME NEW h, NEW h2, NEW v \in Vars, NEW n, OthersStay(h, h2, v)
    PROVE  Cardinality(Pointers(h2, n)) =
              Cardinality(Pointers(h, n)) - PointsTo(h, v, n) + PointsTo(h2, v, n)
<1> DEFINE rest == Pointers(h, n) \ {v}
<1>1. /\ rest = Pointers(h2, n) \ {v}
      /\ v \in Pointers(h, n) <=> h.arrays[v].inner = n
      /\ v \in Pointers(h2, n) <=> h2.arrays[v].inner = n
  BY DEF Pointers, OthersStay
<1>2. Cardinality(rest) = IF v \in Pointers(h, n) THEN Cardinality(Pointers(h, n)) - 1
                          ELSE Cardinality(Pointers(h, n))
  BY PointersFinite, FS_RemoveElement
<1>3. Cardinality(rest) = IF v \in Pointers(h2, n) THEN Cardinality(Pointers(h2, n)) - 1
                          ELSE Cardinality(Pointers(h2, n))
  BY <1>1, PointersFinite, FS_RemoveElement
<1>4. Cardinality(Pointers(h, n)) \in Nat /\ Cardinality(Pointers(h2, n)) \in Nat
  BY PointersFinite
<1> HIDE DEF rest
<1> QED
  BY <1>1, <1>2, <1>3, <1>4 DEF PointsTo

\* What v points to has a pointer, and no other if one is counted.
LEMMA PointerCounts ==
    ASSUME NEW h, SoundHeap(h), NEW v \in Vars
    PROVE  LET m == h.arrays[v].inner
           IN  /\ m \in Inners /\ h.inners[m].refCount \in Nat \ {0}
               /\ h.inners[m].refCount = 1 => \A u \in Vars : h.arrays[u].inner = m => u = v
<1> DEFINE m == h.arrays[v].inner
<1>1. m \in Inners /\ h.inners[m].refCount \in Nat
  BY DEF SoundHeap, Windows, InnerArrays
<1>2. v \in Pointers(h, m) /\ Cardinality(Pointers(h, m)) <= h.inners[m].refCount
  BY <1>1 DEF SoundHeap, Pointers
<1>3. IsFiniteSet(Pointers(h, m)) /\ Cardinality(Pointers(h, m)) \in Nat
  BY PointersFinite
<1>4. Cardinality(Pointers(h, m)) # 0
  BY <1>2, <1>3, FS_EmptySet
<1>5. ASSUME h.inners[m].refCount = 1, NEW u \in Vars, h.arrays[u].inner = m
      PROVE  u = v
  <2>1. Cardinality(Pointers(h, m)) = 1
    BY <1>2, <1>3, <1>4, <1>5
  <2>2. PICK x : Pointers(h, m) = {x}
    BY <2>1, <1>3, FS_Singleton
  <2> QED
    BY <2>2, <1>2, <1>5 DEF Pointers
<1> HIDE DEF m
<1>6. h.inners[m].refCount \in Nat \ {0}
  BY <1>1, <1>2, <1>3, <1>4
<1> QED
  BY <1>1, <1>5, <1>6 DEF m

-----------------------------------------------------------------------------
(* Windows and storages.                                                    *)

\* What an array reads, by its window and storage.
LEMMA ElementsAreSeen ==
    ASSUME NEW h, NEW v
    PROVE  Elements(h, v) = Seen(h.arrays[v], Storage(h, v))
BY DEF Elements, Seen

\* A function on 1 .. n is a sequence of length n.
LEMMA FunctionIsSeq ==
    ASSUME NEW S, NEW n \in Nat, NEW f \in [1 .. n -> S]
    PROVE  f \in Seq(S) /\ Len(f) = n
<1>1. f \in Seq(S)
  BY SeqDef
<1>2. Len(f) \in Nat /\ DOMAIN f = 1 .. Len(f)
  BY <1>1, LenProperties
<1>3. DOMAIN f = 1 .. n
  OBVIOUS
<1> QED
  BY <1>1, <1>2, <1>3

\* What a window that fits shows is a sequence of its length.
LEMMA SeenIsSequence ==
    ASSUME NEW a \in Windows, NEW s \in Seq(Values), Fits(a, s)
    PROVE  Seen(a, s) \in Seq(Values) /\ Len(Seen(a, s)) = a.length
<1>1. a.length \in Nat
  BY DEF Windows
<1>2. ASSUME NEW i \in 1 .. a.length
      PROVE  s[ConvertIndex(a, i - 1) + 1] \in Values
  <2>1. i - 1 \in 0 .. a.length - 1
    BY <1>1
  <2>2. ConvertIndex(a, i - 1) \in 0 .. Len(s) - 1
    BY <2>1 DEF Fits
  <2> DEFINE c == ConvertIndex(a, i - 1)
  <2>3. Len(s) \in Nat
    BY LenProperties
  <2> HIDE DEF c
  <2>4. c + 1 \in 1 .. Len(s)
    BY <2>2, <2>3 DEF c
  <2>5. s[c + 1] \in Values
    BY <2>4, ElementOfSeq
  <2> QED
    BY <2>5 DEF c
<1>3. Seen(a, s) \in [1 .. a.length -> Values]
  BY <1>2 DEF Seen
<1> QED
  BY <1>1, <1>3, FunctionIsSeq

\* Storages that agree on the cells of a window show it the same.
LEMMA SeenAgrees ==
    ASSUME NEW a \in Windows, NEW s, NEW t, Fits(a, s), Len(s) \in Nat,
           \A n \in 1 .. Len(s) : t[n] = s[n]
    PROVE  Seen(a, t) = Seen(a, s)
<1>1. a.length \in Nat
  BY DEF Windows
<1>2. ASSUME NEW i \in 1 .. a.length
      PROVE  t[ConvertIndex(a, i - 1) + 1] = s[ConvertIndex(a, i - 1) + 1]
  <2>1. i - 1 \in 0 .. a.length - 1
    BY <1>1
  <2>2. ConvertIndex(a, i - 1) \in 0 .. Len(s) - 1
    BY <2>1 DEF Fits
  <2> DEFINE c == ConvertIndex(a, i - 1)
  <2> HIDE DEF c
  <2>3. c + 1 \in 1 .. Len(s)
    BY <2>2 DEF c
  <2> QED
    BY <2>3 DEF c
<1> QED
  BY <1>2 DEF Seen

\* A window on all of a storage fits it, and shows it.
LEMMA WholeWindow ==
    ASSUME NEW s \in Seq(Values), NEW n \in Inners
    PROVE  LET a == [inner |-> n, start |-> 0, step |-> 1, length |-> Len(s)]
           IN  a \in Windows /\ Fits(a, s) /\ Seen(a, s) = s
<1> DEFINE a == [inner |-> n, start |-> 0, step |-> 1, length |-> Len(s)]
<1>1. Len(s) \in Nat
  BY LenProperties
<1>2. a \in Windows
  BY <1>1 DEF Windows
<1>3. a.length = Len(s) /\ \A i \in Int : ConvertIndex(a, i) = i
  BY DEF ConvertIndex
<1> HIDE DEF a
<1>4. Fits(a, s)
  BY <1>1, <1>3 DEF Fits
<1>5. Seen(a, s) = [i \in 1 .. Len(s) |-> s[i]]
  BY <1>1, <1>3 DEF Seen
<1>6. s = [i \in 1 .. Len(s) |-> s[i]]
  BY LenProperties
<1> QED
  BY <1>2, <1>4, <1>5, <1>6 DEF a

\* An array of a sound heap: its window, its storage and what it reads.
LEMMA SoundArray ==
    ASSUME NEW h, SoundHeap(h), NEW v \in Vars
    PROVE  /\ h.arrays[v] \in Windows /\ h.arrays[v].inner \in Inners
           /\ h.arrays[v].length \in Nat
           /\ Storage(h, v) \in Seq(Values) /\ Fits(h.arrays[v], Storage(h, v))
           /\ Elements(h, v) \in Seq(Values) /\ Len(Elements(h, v)) = h.arrays[v].length
<1>1. /\ h.arrays[v] \in Windows /\ h.arrays[v].inner \in Inners
      /\ h.arrays[v].length \in Nat
  BY DEF SoundHeap, Windows
<1>2. Storage(h, v) \in Seq(Values)
  BY <1>1 DEF SoundHeap, Storage, InnerArrays
<1>3. Fits(h.arrays[v], Storage(h, v))
  BY DEF SoundHeap
<1> QED
  BY <1>1, <1>2, <1>3, SeenIsSequence, ElementsAreSeen

-----------------------------------------------------------------------------
(* New inner arrays.                                                        *)

\* From h to h2, v has moved to the inner array m and nothing else has; the inner array
\* it left is counted down by one at most.
Moved(h, h2, v, m) ==
    /\ OthersStay(h, h2, v)
    /\ h2.arrays[v].inner = m
    /\ h2.inners[m].refCount \in Nat \ {0}
    /\ \A n \in Inners \ {m} :
        \/ h2.inners[n].refCount = h.inners[n].refCount
        \/ h.arrays[v].inner = n /\ h2.inners[n].refCount = h.inners[n].refCount - 1

\* Counts still suffice when an array moves to an inner array that nothing pointed to.
LEMMA CountsSuffice ==
    ASSUME NEW h, SoundHeap(h), NEW h2, NEW v \in Vars, NEW m \in Inners,
           \A u \in Vars : h.arrays[u].inner # m, Moved(h, h2, v, m)
    PROVE  \A n \in Inners : Cardinality(Pointers(h2, n)) <= h2.inners[n].refCount
<1> TAKE n \in Inners
<1>0. OthersStay(h, h2, v)
  BY DEF Moved
<1>1. Cardinality(Pointers(h2, n)) =
        Cardinality(Pointers(h, n)) - PointsTo(h, v, n) + PointsTo(h2, v, n)
  BY <1>0, PointersMove
<1>2. /\ Cardinality(Pointers(h, n)) \in Nat
      /\ Cardinality(Pointers(h, n)) <= h.inners[n].refCount /\ h.inners[n].refCount \in Nat
  BY PointersFinite DEF SoundHeap, InnerArrays
<1>3. CASE n = m
  <2>1. Pointers(h, n) = {}
    BY <1>3 DEF Pointers
  <2>2. Cardinality(Pointers(h, n)) = 0
    BY <2>1, FS_EmptySet
  <2> QED
    BY <1>1, <1>3, <2>2 DEF PointsTo, Moved
<1>4. CASE n # m
  <2>1. h2.inners[n].refCount = h.inners[n].refCount
          \/ (h.arrays[v].inner = n /\ h2.inners[n].refCount = h.inners[n].refCount - 1)
    BY <1>4 DEF Moved
  <2>2. h2.arrays[v].inner # n
    BY <1>4 DEF Moved
  <2> QED
    BY <1>1, <1>2, <2>1, <2>2 DEF PointsTo
<1> QED
  BY <1>3, <1>4

\* h2 is h with v on all of a new inner array with storage s, counted count times.
IsNewArray(h, h2, v, s, count) ==
    /\ h2.arrays = [h.arrays EXCEPT ![v] = [inner |-> Fresh(h), start |-> 0, step |-> 1,
                                            length |-> Len(s)]]
    /\ h2.inners = [h.inners EXCEPT ![Fresh(h)] = [refCount |-> count, storage |-> s]]

\* An array that is given an inner array of its own reads its storage; no other array
\* reads anything else than before.
LEMMA NewInner ==
    ASSUME NEW h, SoundHeap(h), NEW v \in Vars, NEW s \in Seq(Values), NEW count \in Nat \ {0},
           NEW h2, IsNewArray(h, h2, v, s, count)
    PROVE  /\ SoundHeap(h2)
           /\ Elements(h2, v) = s
           /\ \A u \in Vars \ {v} : Elements(h2, u) = Elements(h, u)
<1> DEFINE m == Fresh(h)
           a == [inner |-> m, start |-> 0, step |-> 1, length |-> Len(s)]
<1>1. m \in Inners /\ \A u \in Vars : h.arrays[u].inner # m
  BY FreshIsFree
<1>2. a \in Windows /\ Fits(a, s) /\ Seen(a, s) = s
  BY <1>1, WholeWindow
<1>3. h.arrays \in [Vars -> Windows] /\ h.inners \in [Inners -> InnerArrays]
  BY DEF SoundHeap
<1>4. a.inner = m
  OBVIOUS
<1>5. [refCount |-> count, storage |-> s] \in InnerArrays
  BY DEF InnerArrays
<1>6. /\ h2.arrays = [h.arrays EXCEPT ![v] = a]
      /\ h2.inners = [h.inners EXCEPT ![m] = [refCount |-> count, storage |-> s]]
  BY DEF IsNewArray
<1> HIDE DEF a, m
<1>7. h2.arrays \in [Vars -> Windows] /\ h2.inners \in [Inners -> InnerArrays]
  BY <1>1, <1>2, <1>3, <1>5, <1>6
<1>8. /\ h2.arrays[v] = a
      /\ \A u \in Vars \ {v} : h2.arrays[u] = h.arrays[u]
      /\ h2.inners[m].refCount = count /\ h2.inners[m].storage = s
      /\ \A n \in Inners \ {m} : h2.inners[n] = h.inners[n]
  BY <1>1, <1>3, <1>6
<1>9. Storage(h2, v) = s
  BY <1>4, <1>8 DEF Storage
<1>10. \A u \in Vars \ {v} : Storage(h2, u) = Storage(h, u)
  <2> TAKE u \in Vars \ {v}
  <2>1. h.arrays[u].inner \in Inners \ {m}
    BY <1>1, <1>3 DEF Windows
  <2> QED
    BY <1>8, <2>1 DEF Storage
<1>11. \A u \in Vars : Fits(h2.arrays[u], Storage(h2, u))
  BY <1>2, <1>8, <1>9, <1>10 DEF SoundHeap
<1>12. \A n \in Inners : Cardinality(Pointers(h2, n)) <= h2.inners[n].refCount
  <2>1. OthersStay(h, h2, v)
    BY <1>8 DEF OthersStay
  <2>2. h2.arrays[v].inner = m
    BY <1>4, <1>8
  <2>3. h2.inners[m].refCount \in Nat \ {0}
    BY <1>8
  <2>4. \A n \in Inners \ {m} : h2.inners[n].refCount = h.inners[n].refCount
    BY <1>8
  <2>5. Moved(h, h2, v, m)
    BY <2>1, <2>2, <2>3, <2>4 DEF Moved
  <2> QED
    BY <1>1, <2>5, CountsSuffice
<1>13. SoundHeap(h2)
  BY <1>7, <1>11, <1>12 DEF SoundHeap
<1> QED
  BY <1>2, <1>8, <1>9, <1>10, <1>13, ElementsAreSeen

\* The window that CopyAndCompress makes of a window.
LEMMA CompressedWindow ==
    ASSUME NEW a \in Windows, NEW m
    PROVE  [[[a EXCEPT !.inner = m] EXCEPT !.start = 0] EXCEPT !.step = 1]
              = [inner |-> m, start |-> 0, step |-> 1, length |-> a.length]
<1>1. PICK i, x, y, l : a = [inner |-> i, start |-> x, step |-> y, length |-> l]
  <2>1. a = [inner |-> a.inner, start |-> a.start, step |-> a.step, length |-> a.length]
    BY DEF Windows
  <2> QED
    BY <2>1
<1> DEFINE b == [a EXCEPT !.inner = m]
           c == [b EXCEPT !.start = 0]
<1>2. b = [inner |-> m, start |-> x, step |-> y, length |-> l]
  BY <1>1
<1> HIDE DEF b
<1>3. c = [inner |-> m, start |-> 0, step |-> y, length |-> l]
  BY <1>2
<1> HIDE DEF c
<1>4. [c EXCEPT !.step = 1] = [inner |-> m, start |-> 0, step |-> 1, length |-> l]
  BY <1>3
<1>5. l = a.length
  BY <1>1
<1> QED
  BY <1>4, <1>5 DEF b, c

\* An array whose window is compressed reads what it read, from an inner array of its
\* own, and so do the arrays that it leaves.
LEMMA Compressed ==
    ASSUME NEW h, SoundHeap(h), NEW v \in Vars
    PROVE  LET h2 == CopyAndCompress(h, v)
           IN  /\ SoundHeap(h2)
               /\ \A u \in Vars : Elements(h2, u) = Elements(h, u)
               /\ \A u \in Vars : h2.arrays[u].length = h.arrays[u].length
               /\ h2.inners[h2.arrays[v].inner].refCount = 1
               /\ h2.arrays[v].start = 0 /\ h2.arrays[v].step = 1
               /\ Len(Storage(h2, v)) = h2.arrays[v].length
<1> DEFINE h2 == CopyAndCompress(h, v)
           s == Elements(h, v)
           m == Fresh(h)
           old == h.arrays[v].inner
           a == [inner |-> m, start |-> 0, step |-> 1, length |-> Len(s)]
<1>1. m \in Inners /\ \A u \in Vars : h.arrays[u].inner # m
  BY FreshIsFree
<1>2. s \in Seq(Values) /\ Len(s) = h.arrays[v].length /\ old \in Inners
  BY SoundArray
<1>3. a \in Windows /\ Fits(a, s) /\ Seen(a, s) = s
  BY <1>1, <1>2, WholeWindow
<1>4. h.arrays \in [Vars -> Windows] /\ h.inners \in [Inners -> InnerArrays]
  BY DEF SoundHeap
<1>5. h.inners[old].refCount \in Nat \ {0}
  BY PointerCounts
<1>6. /\ a.inner = m /\ a.start = 0 /\ a.step = 1 /\ a.length = Len(s)
      /\ old # m
  BY <1>1
<1>7. h2.arrays = [h.arrays EXCEPT ![v] = a]
  <2>1. h.arrays[v] \in Windows
    BY <1>4
  <2>2. h2.arrays = [[h.arrays EXCEPT ![v].inner = m] EXCEPT ![v].start = 0, ![v].step = 1]
    BY DEF CopyAndCompress, Detach
  <2>3. [[[h.arrays[v] EXCEPT !.inner = m] EXCEPT !.start = 0] EXCEPT !.step = 1] = a
    BY <1>2, <2>1, CompressedWindow
  <2> HIDE DEF h2, m, a
  <2> QED
    BY <1>4, <2>2, <2>3
<1>8. h2.inners = [h.inners EXCEPT ![old].refCount = @ - 1,
                                  ![m] = [refCount |-> 1, storage |-> s]]
  BY DEF CopyAndCompress, Detach
<1> HIDE DEF h2, s, m, old, a
<1>9. /\ h2.arrays[v] = a
      /\ \A u \in Vars \ {v} : h2.arrays[u] = h.arrays[u]
  BY <1>4, <1>7
<1>10. /\ h2.inners[m] = [refCount |-> 1, storage |-> s]
       /\ h2.inners[old] = [h.inners[old] EXCEPT !.refCount = @ - 1]
       /\ \A n \in Inners \ {m, old} : h2.inners[n] = h.inners[n]
       /\ DOMAIN h2.inners = Inners
       /\ h2.inners = [n \in Inners |-> h2.inners[n]]
  BY <1>1, <1>2, <1>4, <1>6, <1>8
<1>11. /\ h2.inners[m] \in InnerArrays /\ h2.inners[m].storage = s /\ h2.inners[m].refCount = 1
       /\ h2.inners[old] \in InnerArrays /\ h2.inners[old].storage = h.inners[old].storage
       /\ h2.inners[old].refCount = h.inners[old].refCount - 1
  <2>1. h.inners[old] \in InnerArrays
    BY <1>2, <1>4
  <2> QED
    BY <1>2, <1>5, <1>10, <2>1 DEF InnerArrays
<1>12. h2.arrays \in [Vars -> Windows] /\ h2.inners \in [Inners -> InnerArrays]
  <2>1. h2.arrays \in [Vars -> Windows]
    BY <1>3, <1>4, <1>7
  <2>2. \A n \in Inners : h2.inners[n] \in InnerArrays
    BY <1>4, <1>10, <1>11
  <2> QED
    BY <1>10, <2>1, <2>2
<1>13. \A n \in Inners \ {m} : h2.inners[n].storage = h.inners[n].storage
  BY <1>10, <1>11
<1>14. Storage(h2, v) = s
  BY <1>6, <1>9, <1>11 DEF Storage
<1>15. \A u \in Vars \ {v} : Storage(h2, u) = Storage(h, u)
  <2> TAKE u \in Vars \ {v}
  <2>1. h.arrays[u].inner \in Inners \ {m}
    BY <1>1, <1>4 DEF Windows
  <2> QED
    BY <1>9, <1>13, <2>1 DEF Storage
<1>16. \A u \in Vars : Fits(h2.arrays[u], Storage(h2, u))
  BY <1>3, <1>9, <1>14, <1>15 DEF SoundHeap
<1>17. \A n \in Inners : Cardinality(Pointers(h2, n)) <= h2.inners[n].refCount
  <2>1. OthersStay(h, h2, v)
    BY <1>9 DEF OthersStay
  <2>2. h2.arrays[v].inner = m
    BY <1>6, <1>9
  <2>3. h2.inners[m].refCount \in Nat \ {0}
    BY <1>11
  <2>4. \A n \in Inners \ {m, old} : h2.inners[n].refCount = h.inners[n].refCount
    BY <1>10
  <2>5. h.arrays[v].inner = old
    BY DEF old
  <2>6. \A n \in Inners \ {m} : h2.inners[n].refCount = h.inners[n].refCount
          \/ (h.arrays[v].inner = n /\ h2.inners[n].refCount = h.inners[n].refCount - 1)
    BY <1>11, <2>4, <2>5
  <2>7. Moved(h, h2, v, m)
    BY <2>1, <2>2, <2>3, <2>6 DEF Moved
  <2> QED
    BY <1>1, <2>7, CountsSuffice
<1>18. SoundHeap(h2)
  BY <1>12, <1>16, <1>17 DEF SoundHeap
<1>19. \A u \in Vars : Elements(h2, u) = Elements(h, u)
  BY <1>3, <1>9, <1>14, <1>15, ElementsAreSeen DEF s
<1>20. \A u \in Vars : h2.arrays[u].length = h.arrays[u].length
  BY <1>2, <1>6, <1>9
<1>21. /\ h2.inners[h2.arrays[v].inner].refCount = 1
       /\ h2.arrays[v].start = 0 /\ h2.arrays[v].step = 1
       /\ Len(Storage(h2, v)) = h2.arrays[v].length
  BY <1>6, <1>9, <1>11, <1>14
<1> QED
  BY <1>18, <1>19, <1>20, <1>21 DEF h2

-----------------------------------------------------------------------------
(* Shared inner arrays.                                                     *)

\* h2 is h with v moved to the window a on w's inner array, which is counted.
IsShare(h, h2, v, w, a) ==
    /\ a \in Windows /\ a.inner = h.arrays[w].inner
    /\ h2.arrays = [h.arrays EXCEPT ![v] = a]
    /\ h2.inners = [h.inners EXCEPT ![a.inner].refCount = @ + 1]

\* An array that is moved to a window that fits another's inner array reads what the window
\* shows; no other array reads anything else than before.
LEMMA Shared ==
    ASSUME NEW h, SoundHeap(h), NEW v \in Vars, NEW w \in Vars, NEW a, NEW h2,
           IsShare(h, h2, v, w, a), Fits(a, Storage(h, w))
    PROVE  /\ SoundHeap(h2)
           /\ h2.arrays[v] = a /\ Elements(h2, v) = Seen(a, Storage(h, w))
           /\ \A u \in Vars \ {v} : Elements(h2, u) = Elements(h, u)
<1> DEFINE m == a.inner
<1>1. a \in Windows /\ m = h.arrays[w].inner /\ m \in Inners
  BY DEF IsShare, Windows
<1>2. h.arrays \in [Vars -> Windows] /\ h.inners \in [Inners -> InnerArrays]
  BY DEF SoundHeap
<1>3. /\ h2.arrays = [h.arrays EXCEPT ![v] = a]
      /\ h2.inners = [h.inners EXCEPT ![m].refCount = @ + 1]
  BY DEF IsShare
<1>4. h.inners[m] \in InnerArrays
  BY <1>1, <1>2
<1>5. a.inner = m
  OBVIOUS
<1> HIDE DEF m
<1>6. /\ h2.arrays[v] = a
      /\ \A u \in Vars \ {v} : h2.arrays[u] = h.arrays[u]
      /\ h2.arrays \in [Vars -> Windows]
  BY <1>1, <1>2, <1>3
<1>7. /\ h2.inners[m] = [h.inners[m] EXCEPT !.refCount = @ + 1]
      /\ \A n \in Inners \ {m} : h2.inners[n] = h.inners[n]
      /\ h2.inners = [n \in Inners |-> h2.inners[n]]
  BY <1>1, <1>2, <1>3
<1>8. /\ h2.inners[m] \in InnerArrays /\ h2.inners[m].storage = h.inners[m].storage
      /\ h2.inners[m].refCount = h.inners[m].refCount + 1
  BY <1>4, <1>7 DEF InnerArrays
<1>9. h2.inners \in [Inners -> InnerArrays]
  <2>1. \A n \in Inners : h2.inners[n] \in InnerArrays
    BY <1>2, <1>7, <1>8
  <2> QED
    BY <1>7, <2>1
<1>10. \A n \in Inners : h2.inners[n].storage = h.inners[n].storage
  BY <1>7, <1>8
<1>11. Storage(h2, v) = Storage(h, w)
  BY <1>1, <1>5, <1>6, <1>8 DEF Storage
<1>12. \A u \in Vars \ {v} : Storage(h2, u) = Storage(h, u)
  <2> TAKE u \in Vars \ {v}
  <2>1. h.arrays[u].inner \in Inners
    BY <1>2 DEF Windows
  <2> QED
    BY <1>6, <1>10, <2>1 DEF Storage
<1>13. \A u \in Vars : Fits(h2.arrays[u], Storage(h2, u))
  BY <1>6, <1>11, <1>12 DEF SoundHeap
<1>14. \A n \in Inners : Cardinality(Pointers(h2, n)) <= h2.inners[n].refCount
  <2> TAKE n \in Inners
  <2>1. OthersStay(h, h2, v)
    BY <1>6 DEF OthersStay
  <2>2. Cardinality(Pointers(h2, n)) =
          Cardinality(Pointers(h, n)) - PointsTo(h, v, n) + PointsTo(h2, v, n)
    BY <2>1, PointersMove
  <2>3. /\ Cardinality(Pointers(h, n)) \in Nat
        /\ Cardinality(Pointers(h, n)) <= h.inners[n].refCount /\ h.inners[n].refCount \in Nat
    BY <1>2, PointersFinite DEF SoundHeap, InnerArrays
  <2>4. h2.arrays[v].inner = m
    BY <1>5, <1>6
  <2>5. CASE n = m
    BY <1>8, <2>2, <2>3, <2>5 DEF PointsTo
  <2>6. CASE n # m
    <3>1. h2.inners[n].refCount = h.inners[n].refCount
      BY <1>7, <2>6
    <3> QED
      BY <2>2, <2>3, <2>4, <2>6, <3>1 DEF PointsTo
  <2> QED
    BY <2>5, <2>6
<1>15. SoundHeap(h2)
  BY <1>6, <1>9, <1>13, <1>14 DEF SoundHeap
<1> QED
  BY <1>6, <1>11, <1>12, <1>15, ElementsAreSeen

\* h2 is h with another storage of v's inner array.
IsRestored(h, h2, v, s) ==
    /\ h2.arrays = h.arrays
    /\ h2.inners = [h.inners EXCEPT ![h.arrays[v].inner].storage = s]

\* A storage can be replaced if all windows on it fit the new one.
LEMMA Restored ==
    ASSUME NEW h, SoundHeap(h), NEW v \in Vars, NEW s \in Seq(Values), NEW h2,
           IsRestored(h, h2, v, s),
           \A u \in Vars : h.arrays[u].inner = h.arrays[v].inner => Fits(h.arrays[u], s)
    PROVE  /\ SoundHeap(h2)
           /\ h2.arrays = h.arrays
           /\ \A u \in Vars : h.arrays[u].inner = h.arrays[v].inner => Storage(h2, u) = s
           /\ \A u \in Vars : h.arrays[u].inner # h.arrays[v].inner =>
                                    Storage(h2, u) = Storage(h, u)
<1> DEFINE m == h.arrays[v].inner
<1>1. h.arrays \in [Vars -> Windows] /\ h.inners \in [Inners -> InnerArrays]
  BY DEF SoundHeap
<1>2. m \in Inners /\ h.inners[m] \in InnerArrays
  BY <1>1 DEF Windows
<1>3. h2.arrays = h.arrays /\ h2.inners = [h.inners EXCEPT ![m].storage = s]
  BY DEF IsRestored
<1>4. h.arrays[v].inner = m
  OBVIOUS
<1> HIDE DEF m
<1>5. /\ h2.inners[m] = [h.inners[m] EXCEPT !.storage = s]
      /\ \A n \in Inners \ {m} : h2.inners[n] = h.inners[n]
      /\ h2.inners = [n \in Inners |-> h2.inners[n]]
  BY <1>1, <1>2, <1>3
<1>6. /\ h2.inners[m] \in InnerArrays /\ h2.inners[m].storage = s
      /\ h2.inners[m].refCount = h.inners[m].refCount
  BY <1>2, <1>5 DEF InnerArrays
<1>7. h2.inners \in [Inners -> InnerArrays]
  <2>1. \A n \in Inners : h2.inners[n] \in InnerArrays
    BY <1>1, <1>5, <1>6
  <2> QED
    BY <1>5, <2>1
<1>8. \A u \in Vars : h.arrays[u].inner = m => Storage(h2, u) = s
  BY <1>3, <1>6 DEF Storage
<1>9. \A u \in Vars : h.arrays[u].inner # m => Storage(h2, u) = Storage(h, u)
  <2> TAKE u \in Vars
  <2>1. h.arrays[u].inner \in Inners
    BY <1>1 DEF Windows
  <2> QED
    BY <1>3, <1>5, <2>1 DEF Storage
<1>10. \A u \in Vars : Fits(h2.arrays[u], Storage(h2, u))
  <2> TAKE u \in Vars
  <2>1. Fits(h.arrays[u], Storage(h, u))
    BY DEF SoundHeap
  <2>2. CASE h.arrays[u].inner = m
    <3>1. Fits(h.arrays[u], s)
      BY <1>4, <2>2
    <3> QED
      BY <1>3, <1>8, <2>2, <3>1
  <2>3. CASE h.arrays[u].inner # m
    BY <1>3, <1>9, <2>1, <2>3
  <2> QED
    BY <2>2, <2>3
<1>11. \A n \in Inners : Cardinality(Pointers(h2, n)) <= h2.inners[n].refCount
  <2> TAKE n \in Inners
  <2>1. Pointers(h2, n) = Pointers(h, n)
    BY <1>3 DEF Pointers
  <2>2. h2.inners[n].refCount = h.inners[n].refCount
    BY <1>5, <1>6
  <2>3. Cardinality(Pointers(h, n)) <= h.inners[n].refCount
    BY DEF SoundHeap
  <2> QED
    BY <2>1, <2>2, <2>3
<1>12. SoundHeap(h2)
  BY <1>1, <1>3, <1>7, <1>10, <1>11 DEF SoundHeap
<1> QED
  BY <1>3, <1>4, <1>8, <1>9, <1>12

-----------------------------------------------------------------------------
(* Writing an element.                                                      *)

\* Before an element is set, its array has an inner array of its own.
LEMMA OwnedAlone ==
    ASSUME NEW h, SoundHeap(h), NEW v \in Vars, NEW i \in 0 .. h.arrays[v].length - 1
    PROVE  LET own == Owned(h, v, i)
           IN  /\ SoundHeap(own)
               /\ \A u \in Vars : Elements(own, u) = Elements(h, u)
               /\ \A u \in Vars : own.arrays[u].length = h.arrays[u].length
               /\ own.inners[own.arrays[v].inner].refCount = 1
<1>1. CASE UnsafeToSet(h, v, ConvertIndex(h.arrays[v], i))
  <2>1. Owned(h, v, i) = CopyAndCompress(h, v)
    BY <1>1 DEF Owned
  <2> QED
    BY <2>1, Compressed
<1>2. CASE ~UnsafeToSet(h, v, ConvertIndex(h.arrays[v], i))
  <2>1. Owned(h, v, i) = h
    BY <1>2 DEF Owned
  <2>2. ConvertIndex(h.arrays[v], i) \in 0 .. Len(Storage(h, v)) - 1
    BY SoundArray DEF Fits
  <2>3. Len(Storage(h, v)) \in Nat
    BY SoundArray, LenProperties
  <2>4. ConvertIndex(h.arrays[v], i) < Len(Storage(h, v))
    BY <2>2, <2>3
  <2>5. ~(h.inners[h.arrays[v].inner].refCount > 1)
    BY <1>2, <2>4 DEF UnsafeToSet
  <2>6. h.inners[h.arrays[v].inner].refCount \in Nat \ {0}
    BY PointerCounts
  <2>7. h.inners[h.arrays[v].inner].refCount = 1
    BY <2>5, <2>6
  <2> QED
    BY <2>1, <2>7
<1> QED
  BY <1>1, <1>2

\* A window shows a storage in which one of its cells has changed with one element changed.
LEMMA SeenWrite ==
    ASSUME NEW a \in Windows, NEW s \in Seq(Values), Fits(a, s), NEW i \in 0 .. a.length - 1,
           NEW x \in Values
    PROVE  Seen(a, [s EXCEPT ![ConvertIndex(a, i) + 1] = x]) = [Seen(a, s) EXCEPT ![i + 1] = x]
<1> DEFINE c == ConvertIndex(a, i)
           t == [s EXCEPT ![c + 1] = x]
<1>1. a.length \in Nat /\ Len(s) \in Nat /\ DOMAIN s = 1 .. Len(s) /\ i \in Nat
  BY LenProperties DEF Windows
<1>2. c \in 0 .. Len(s) - 1
  BY DEF Fits
<1>3. ASSUME NEW n \in 1 .. a.length
      PROVE  t[ConvertIndex(a, n - 1) + 1]
                = IF n = i + 1 THEN x ELSE s[ConvertIndex(a, n - 1) + 1]
  <2> DEFINE d == ConvertIndex(a, n - 1)
  <2>1. n - 1 \in 0 .. a.length - 1 /\ n - 1 \in Int /\ i \in Int
    BY <1>1
  <2>2. d \in 0 .. Len(s) - 1
    BY <2>1 DEF Fits
  <2>3. c = d => n = i + 1
    <3>1. c = d => i = n - 1
      BY <2>1, CellsDiffer
    <3> HIDE DEF c, d
    <3> QED
      BY <1>1, <2>1, <3>1
  <2>4. n = i + 1 => c = d
    <3>1. n = i + 1 => n - 1 = i
      BY <1>1
    <3> QED
      BY <3>1
  <2> HIDE DEF c, d
  <2>5. c + 1 \in DOMAIN s /\ d + 1 \in DOMAIN s /\ (c + 1 = d + 1 <=> c = d)
    BY <1>1, <1>2, <2>2
  <2>6. t[d + 1] = IF d + 1 = c + 1 THEN x ELSE s[d + 1]
    BY <2>5
  <2> QED
    BY <2>3, <2>4, <2>5, <2>6 DEF c, d
<1>4. i + 1 \in 1 .. a.length
  BY <1>1
<1> HIDE DEF t
<1>5. Seen(a, t)
        = [n \in 1 .. a.length |-> IF n = i + 1 THEN x ELSE s[ConvertIndex(a, n - 1) + 1]]
  BY <1>3 DEF Seen
<1>6. [Seen(a, s) EXCEPT ![i + 1] = x]
        = [n \in 1 .. a.length |-> IF n = i + 1 THEN x ELSE s[ConvertIndex(a, n - 1) + 1]]
  BY <1>4 DEF Seen
<1> QED
  BY <1>5, <1>6 DEF t

\* An element that is written to an array is seen through it, where it was written, and
\* through no other.
LEMMA WrittenElement ==
    ASSUME NEW h, SoundHeap(h), NEW v \in Vars, NEW i \in 0 .. h.arrays[v].length - 1,
           NEW x \in Values
    PROVE  LET h2 == Written(h, v, i, x)
           IN  /\ SoundHeap(h2)
               /\ \A u \in Vars : h2.arrays[u].length = h.arrays[u].length
               /\ Elements(h2, v) = [Elements(h, v) EXCEPT ![i + 1] = x]
               /\ \A u \in Vars \ {v} : Elements(h2, u) = Elements(h, u)
<1> DEFINE own == Owned(h, v, i)
           a == own.arrays[v]
           c == ConvertIndex(a, i)
           old == Storage(own, v)
           s == [old EXCEPT ![c + 1] = x]
           h2 == Written(h, v, i, x)
<1>1. /\ SoundHeap(own)
      /\ \A u \in Vars : Elements(own, u) = Elements(h, u)
      /\ \A u \in Vars : own.arrays[u].length = h.arrays[u].length
      /\ own.inners[own.arrays[v].inner].refCount = 1
  BY OwnedAlone
<1>2. h2 = SetElement(own, v, c, x)
  BY DEF Written
<1> HIDE DEF own, h2
<1>3. /\ a \in Windows /\ a.inner \in Inners /\ old \in Seq(Values) /\ Fits(a, old)
      /\ own.inners \in [Inners -> InnerArrays]
  BY <1>1, SoundArray DEF SoundHeap
<1>4. i \in 0 .. a.length - 1
  BY <1>1
<1>5. c \in 0 .. Len(old) - 1
  BY <1>3, <1>4 DEF Fits
<1>6. h2 = [own EXCEPT !.inners[own.arrays[v].inner].storage[c + 1] = x]
  <2>1. ~(own.inners[own.arrays[v].inner].refCount > 1)
    BY <1>1
  <2>2. IsCell(own, v, c)
    BY <1>5 DEF IsCell
  <2> HIDE DEF c
  <2> QED
    BY <1>2, <2>1, <2>2 DEF SetElement
<1>7. s \in Seq(Values) /\ Len(s) = Len(old)
  <2>1. Len(old) \in Nat
    BY <1>3, LenProperties
  <2> HIDE DEF c, old
  <2>2. c + 1 \in 1 .. Len(old)
    BY <1>5, <2>1
  <2> QED
    BY <1>3, <2>2, ExceptSeq
<1>8. IsRestored(own, h2, v, s)
  <2>1. own.inners[a.inner].storage = old
    BY DEF Storage
  <2> QED
    BY <1>3, <1>6, <2>1 DEF IsRestored
<1>9. \A u \in Vars : own.arrays[u].inner = a.inner => u = v
  BY <1>1, PointerCounts
<1>10. Fits(a, s)
  BY <1>3, <1>7 DEF Fits
<1>11. /\ SoundHeap(h2) /\ h2.arrays = own.arrays
       /\ Storage(h2, v) = s
       /\ \A u \in Vars \ {v} : Storage(h2, u) = Storage(own, u)
  <2>1. \A u \in Vars : own.arrays[u].inner = own.arrays[v].inner => Fits(own.arrays[u], s)
    BY <1>9, <1>10
  <2> HIDE DEF s
  <2>2. /\ SoundHeap(h2) /\ h2.arrays = own.arrays
        /\ \A u \in Vars : own.arrays[u].inner = own.arrays[v].inner => Storage(h2, u) = s
        /\ \A u \in Vars : own.arrays[u].inner # own.arrays[v].inner =>
                               Storage(h2, u) = Storage(own, u)
    BY <1>1, <1>7, <1>8, <2>1, Restored
  <2> QED
    BY <1>9, <2>2
<1>12. Elements(h2, v) = [Elements(h, v) EXCEPT ![i + 1] = x]
  <2>1. Elements(h2, v) = Seen(a, s)
    BY <1>11, ElementsAreSeen
  <2>2. Elements(own, v) = Seen(a, old)
    BY ElementsAreSeen
  <2>3. Seen(a, s) = [Seen(a, old) EXCEPT ![i + 1] = x]
    BY <1>3, <1>4, SeenWrite
  <2> QED
    BY <1>1, <2>1, <2>2, <2>3
<1>13. \A u \in Vars \ {v} : Elements(h2, u) = Elements(h, u)
  BY <1>1, <1>11, ElementsAreSeen
<1>14. \A u \in Vars : h2.arrays[u].length = h.arrays[u].length
  BY <1>1, <1>11
<1> QED
  BY <1>11, <1>12, <1>13, <1>14 DEF h2

-----------------------------------------------------------------------------
(* Extending an inner array.                                                *)

\* The cells of an increasing window increase.
LEMMA CellsIncrease ==
    ASSUME NEW a \in Windows, a.step >= 0, NEW i \in Int, NEW j \in Int, i <= j
    PROVE  ConvertIndex(a, i) <= ConvertIndex(a, j)
<1> DEFINE s == a.step
<1>1. s \in Nat /\ a.start \in Int
  BY DEF Windows
<1> HIDE DEF s
<1>2. i * s <= j * s
  BY <1>1, Monotone
<1>3. i * s \in Int /\ j * s \in Int
  BY <1>1
<1> QED
  BY <1>1, <1>2, <1>3 DEF s, ConvertIndex

\* A cell of a window is a number.
LEMMA CellIsInt ==
    ASSUME NEW a \in Windows, NEW i \in Int
    PROVE  ConvertIndex(a, i) \in Int
BY DEF Windows, ConvertIndex

\* new is the storage that extends w's with the elements added behind w's window.
IsExtension(h, w, added, new) ==
    /\ IsRestored(h, Extended(h, w, added), w, new)
    /\ Len(new) >= Len(Storage(h, w))
    /\ \A n \in 1 .. Len(Storage(h, w)) : new[n] = Storage(h, w)[n]
    /\ \A i \in 1 .. Len(added) :
        LET cell == ConvertIndex(h.arrays[w], h.arrays[w].length + i - 1)
        IN  cell \in 0 .. Len(new) - 1 /\ new[cell + 1] = added[i]

\* Add's new storage: what was there stays, and the elements are added behind the window.
LEMMA ExtendedStorage ==
    ASSUME NEW h, SoundHeap(h), NEW w \in Vars, h.arrays[w].length > 0, ExtendsInPlace(h, w),
           NEW added \in Seq(Values), added # <<>>
    PROVE  \E new \in Seq(Values) : IsExtension(h, w, added, new)
<1> DEFINE a == h.arrays[w]
           old == Storage(h, w)
           k == Len(added)
           E(i) == ConvertIndex(a, a.length + i - 1)
           cells == [i \in 1 .. k |-> E(i) + 1]
           end == NewEnd(h, w, k)
           new == [n \in 1 .. end |->
                    IF \E i \in 1 .. k : cells[i] = n
                    THEN added[CHOOSE i \in 1 .. k : cells[i] = n]
                    ELSE IF n <= Len(old) THEN old[n] ELSE Default]
<1>1. /\ a \in Windows /\ a.length \in Nat /\ old \in Seq(Values) /\ Len(old) \in Nat
      /\ k \in Nat /\ k >= 1 /\ Default \in Values
  BY SoundArray, LenProperties, EmptySeq, ConstantsAssumption
<1>2. a.step >= 0 /\ ConvertIndex(a, a.length) >= Len(old)
  BY DEF ExtendsInPlace
<1>3. IsRestored(h, Extended(h, w, added), w, new)
  BY DEF IsRestored, Extended
<1>4. end = E(k) + 1
  <2>1. a.length + k - 1 \in Int
    BY <1>1
  <2> QED
    BY DEF NewEnd
<1>5. \A i \in 1 .. k : added[i] \in Values
  BY ElementOfSeq
<1>6. \A n \in 1 .. Len(old) : old[n] \in Values
  BY <1>1, ElementOfSeq
<1> HIDE DEF a, old, k, end
<1>7. ASSUME NEW i \in 1 .. k
      PROVE  E(i) \in Int /\ Len(old) <= E(i) /\ E(i) <= E(k)
  <2>1. /\ a.length \in Int /\ a.length + i - 1 \in Int /\ a.length + k - 1 \in Int
        /\ a.length <= a.length + i - 1 /\ a.length + i - 1 <= a.length + k - 1
    BY <1>1
  <2>2. /\ ConvertIndex(a, a.length) <= E(i) /\ E(i) <= E(k)
    BY <1>1, <1>2, <2>1, CellsIncrease
  <2>3. ConvertIndex(a, a.length) \in Int /\ E(i) \in Int
    BY <1>1, <2>1, CellIsInt
  <2> HIDE DEF E
  <2> QED
    BY <1>1, <1>2, <2>2, <2>3
<1>8. ASSUME NEW i \in 1 .. k, NEW j \in 1 .. k, E(i) = E(j)
      PROVE  i = j
  <2>1. a.length + i - 1 \in Int /\ a.length + j - 1 \in Int
    BY <1>1
  <2>2. a.length + i - 1 = a.length + j - 1
    BY <1>1, <1>8, <2>1, CellsDiffer
  <2> QED
    BY <1>1, <2>2
<1> HIDE DEF E
<1>9. end \in Nat /\ end > Len(old) /\ \A i \in 1 .. k : E(i) \in 0 .. end - 1
  BY <1>1, <1>4, <1>7
<1>10. \A i \in 1 .. k : cells[i] = E(i) + 1
  OBVIOUS
<1>11. \A i \in 1 .. k : cells[i] \in 1 .. end /\ cells[i] > Len(old)
  BY <1>1, <1>7, <1>9, <1>10
<1>12. \A i, j \in 1 .. k : cells[i] = cells[j] => i = j
  BY <1>7, <1>8, <1>10
<1> HIDE DEF cells
<1>13. \A n \in 1 .. end : new[n] \in Values
  BY <1>1, <1>5, <1>6
<1>14. new \in Seq(Values) /\ Len(new) = end
  <2>1. new \in [1 .. end -> Values]
    BY <1>13
  <2> HIDE DEF new
  <2> QED
    BY <1>9, <2>1, FunctionIsSeq
<1>15. \A n \in 1 .. Len(old) : new[n] = old[n]
  BY <1>1, <1>9, <1>11
<1>16. \A i \in 1 .. k : new[cells[i]] = added[i]
  BY <1>11, <1>12
<1> HIDE DEF new
<1>17. \A i \in 1 .. k : E(i) \in 0 .. Len(new) - 1 /\ new[E(i) + 1] = added[i]
  BY <1>9, <1>10, <1>14, <1>16
<1>18. Len(new) >= Len(old)
  BY <1>1, <1>9, <1>14
<1> QED
  BY <1>3, <1>14, <1>15, <1>17, <1>18 DEF IsExtension, a, old, k, E

\* The window that an array has after Add.
Longer(a, k) == [a EXCEPT !.length = a.length + k]

\* The longer window shows the same cells.
LEMMA LongerWindow ==
    ASSUME NEW a \in Windows, NEW k \in Nat
    PROVE  /\ Longer(a, k) \in Windows /\ Longer(a, k).length = a.length + k
           /\ Longer(a, k).inner = a.inner
           /\ \A i \in Int : ConvertIndex(Longer(a, k), i) = ConvertIndex(a, i)
<1>1. /\ Longer(a, k) \in Windows /\ Longer(a, k).length = a.length + k
      /\ Longer(a, k).inner = a.inner
      /\ Longer(a, k).start = a.start /\ Longer(a, k).step = a.step
  BY DEF Longer, Windows
<1> QED
  BY <1>1 DEF ConvertIndex

\* Extending w's inner array changes what no array reads, and the longer window shows what
\* w read and what was added.
LEMMA ExtendedElements ==
    ASSUME NEW h, SoundHeap(h), NEW w \in Vars, h.arrays[w].length > 0, ExtendsInPlace(h, w),
           NEW added \in Seq(Values), added # <<>>
    PROVE  LET h2 == Extended(h, w, added)
               a == Longer(h.arrays[w], Len(added))
           IN  /\ SoundHeap(h2)
               /\ h2.arrays = h.arrays
               /\ \A u \in Vars : Elements(h2, u) = Elements(h, u)
               /\ a \in Windows /\ Fits(a, Storage(h2, w))
               /\ Seen(a, Storage(h2, w)) = Elements(h, w) \o added
<1> DEFINE h2 == Extended(h, w, added)
           b == h.arrays[w]
           k == Len(added)
           a == Longer(b, k)
           old == Storage(h, w)
           l == b.length
<1>0. PICK new \in Seq(Values) : IsExtension(h, w, added, new)
  BY ExtendedStorage
<1>1. /\ IsRestored(h, h2, w, new)
      /\ Len(new) >= Len(old)
      /\ \A n \in 1 .. Len(old) : new[n] = old[n]
      /\ \A i \in 1 .. k :
            ConvertIndex(b, l + i - 1) \in 0 .. Len(new) - 1
               /\ new[ConvertIndex(b, l + i - 1) + 1] = added[i]
  BY <1>0 DEF IsExtension
<1>2. /\ b \in Windows /\ l \in Nat
      /\ old \in Seq(Values) /\ Fits(b, old) /\ Len(old) \in Nat
      /\ Len(new) \in Nat /\ k \in Nat
      /\ Elements(h, w) \in Seq(Values) /\ Len(Elements(h, w)) = l
  BY SoundArray, LenProperties
<1>3. \A u \in Vars : h.arrays[u].inner = h.arrays[w].inner =>
          /\ Storage(h, u) = old
          /\ Fits(h.arrays[u], new)
          /\ Seen(h.arrays[u], new) = Seen(h.arrays[u], old)
  <2> SUFFICES ASSUME NEW u \in Vars, h.arrays[u].inner = h.arrays[w].inner
               PROVE  /\ Storage(h, u) = old
                      /\ Fits(h.arrays[u], new)
                      /\ Seen(h.arrays[u], new) = Seen(h.arrays[u], old)
    OBVIOUS
  <2>1. Storage(h, u) = old
    BY DEF Storage
  <2>2. h.arrays[u] \in Windows /\ Fits(h.arrays[u], old)
    BY <2>1, SoundArray
  <2> HIDE DEF old
  <2>3. Fits(h.arrays[u], new)
    BY <1>1, <1>2, <2>2 DEF Fits
  <2>4. Seen(h.arrays[u], new) = Seen(h.arrays[u], old)
    BY <1>1, <1>2, <2>2, SeenAgrees
  <2> QED
    BY <2>1, <2>3, <2>4
<1> HIDE DEF h2
<1>4. /\ SoundHeap(h2) /\ h2.arrays = h.arrays
      /\ \A u \in Vars : h.arrays[u].inner = h.arrays[w].inner => Storage(h2, u) = new
      /\ \A u \in Vars : h.arrays[u].inner # h.arrays[w].inner =>
                             Storage(h2, u) = Storage(h, u)
  BY <1>1, <1>3, Restored
<1>5. \A u \in Vars : Elements(h2, u) = Elements(h, u)
  BY <1>3, <1>4, ElementsAreSeen
<1>6. /\ a \in Windows /\ a.length = l + k
      /\ \A i \in Int : ConvertIndex(a, i) = ConvertIndex(b, i)
  BY <1>2, LongerWindow
<1>7. Storage(h2, w) = new
  BY <1>4
<1> HIDE DEF a, old
<1>8. \A i \in 0 .. l - 1 : ConvertIndex(b, i) \in 0 .. Len(old) - 1
  BY <1>2 DEF Fits
<1> HIDE DEF b, l, k
<1>9. Fits(a, new)
  <2> SUFFICES ASSUME NEW i \in 0 .. l + k - 1
               PROVE  ConvertIndex(b, i) \in 0 .. Len(new) - 1
    BY <1>2, <1>6 DEF Fits
  <2>1. CASE i < l
    <3>1. ConvertIndex(b, i) \in 0 .. Len(old) - 1
      BY <1>2, <1>8, <2>1
    <3> QED
      BY <1>1, <1>2, <3>1
  <2>2. CASE i >= l
    <3> DEFINE j == i - l + 1
    <3>1. j \in 1 .. k /\ l + j - 1 = i
      BY <1>2, <2>2
    <3> HIDE DEF j
    <3>2. ConvertIndex(b, l + j - 1) \in 0 .. Len(new) - 1
      BY <1>1, <3>1
    <3> QED
      BY <3>1, <3>2
  <2> QED
    BY <1>2, <2>1, <2>2
<1>10. Seen(a, new) = Elements(h, w) \o added
  <2> DEFINE both == Elements(h, w) \o added
  <2>1. /\ both \in Seq(Values) /\ Len(both) = l + k
        /\ \A n \in 1 .. l + k : both[n] = IF n <= l THEN Elements(h, w)[n] ELSE added[n - l]
    BY <1>2, ConcatProperties DEF k
  <2>2. both = [n \in 1 .. l + k |-> both[n]]
    BY <2>1, LenProperties
  <2> HIDE DEF both
  <2>3. Elements(h, w) = [n \in 1 .. l |-> old[ConvertIndex(b, n - 1) + 1]]
    BY DEF Elements, old, b, l
  <2>4. ASSUME NEW n \in 1 .. l + k
        PROVE  new[ConvertIndex(b, n - 1) + 1] = both[n]
    <3>1. CASE n <= l
      <4> DEFINE c == ConvertIndex(b, n - 1)
      <4>1. n \in 1 .. l /\ n - 1 \in 0 .. l - 1
        BY <1>2, <3>1
      <4>2. c \in 0 .. Len(old) - 1
        BY <1>8, <4>1
      <4>3. both[n] = old[c + 1]
        BY <2>1, <2>3, <3>1, <4>1
      <4> HIDE DEF c
      <4>4. c + 1 \in 1 .. Len(old)
        BY <1>2, <4>2
      <4> QED
        BY <1>1, <4>3, <4>4 DEF c
    <3>2. CASE n > l
      <4> DEFINE j == n - l
      <4>1. j \in 1 .. k /\ l + j - 1 = n - 1 /\ ~(n <= l)
        BY <1>2, <3>2
      <4>2. both[n] = added[j]
        BY <2>1, <4>1
      <4> HIDE DEF j
      <4>3. new[ConvertIndex(b, l + j - 1) + 1] = added[j]
        BY <1>1, <4>1
      <4> QED
        BY <4>1, <4>2, <4>3
    <3> QED
      BY <1>2, <3>1, <3>2
  <2>5. Seen(a, new) = [n \in 1 .. l + k |-> new[ConvertIndex(b, n - 1) + 1]]
    BY <1>2, <1>6 DEF Seen
  <2> QED
    BY <2>2, <2>4, <2>5 DEF both
<1> QED
  BY <1>4, <1>5, <1>6, <1>7, <1>9, <1>10 DEF h2, a, b, k

-----------------------------------------------------------------------------
(* Ranges.                                                                  *)

\* The parts of a range are integers, its step is not zero.
LEMMA RangeParts ==
    ASSUME NEW r \in Ranges
    PROVE  r.start \in Nat /\ r.end \in Int /\ r.step \in Int \ {0}
<1>1. r.start \in 0 .. MaxLength - 1 /\ r.end \in -1 .. MaxLength - 1 /\ r.step \in Strides
  BY DEF Ranges
<1>2. MaxLength \in Int /\ Strides \subseteq Int \ {0}
  BY ConstantsAssumption
<1>3. r.step \in Int \ {0}
  BY <1>1, <1>2
<1> QED
  BY <1>1, <1>2, <1>3

\* A quotient of naturals is one.
LEMMA QuotientIsNatural ==
    ASSUME NEW n \in Nat, NEW d \in Nat \ {0}
    PROVE  n \div d \in Nat /\ 0 \div d = 0
<1>1. n \div d \in Int /\ n % d \in 0 .. d - 1 /\ n = d * (n \div d) + (n % d)
  OBVIOUS
<1>2. 0 \div d \in Int /\ 0 % d \in 0 .. d - 1 /\ 0 = d * (0 \div d) + (0 % d)
  OBVIOUS
<1> DEFINE p == n \div d
           q == 0 \div d
<1> HIDE DEF p, q
<1>3. ASSUME p < 0 PROVE FALSE
  <2>1. d * p <= -d
    BY <1>1, <1>3 DEF p
  <2> QED
    BY <1>1, <2>1 DEF p
<1>4. q = 0
  <2>1. CASE q < 0
    <3>1. d * q <= -d
      BY <1>2, <2>1 DEF q
    <3> QED
      BY <1>2, <3>1 DEF q
  <2>2. CASE q > 0
    <3>1. d * q >= d
      BY <1>2, <2>2 DEF q
    <3> QED
      BY <1>2, <3>1 DEF q
  <2> QED
    BY <1>2, <2>1, <2>2 DEF q
<1> QED
  BY <1>1, <1>3, <1>4 DEF p, q

\* A range that is not empty has an index, and no other if it ends where it starts.
LEMMA RangeCounts ==
    ASSUME NEW r \in Ranges, ~IsEmptyRange(r)
    PROVE  RangeCount(r) \in Nat \ {0} /\ (r.start = r.end => RangeCount(r) = 1)
<1>1. r.start \in Nat /\ r.end \in Int /\ r.step \in Int \ {0}
  BY RangeParts
<1>2. CASE r.step > 0
  <2>1. r.end - r.start \in Nat /\ r.step \in Nat \ {0}
    BY <1>1, <1>2 DEF IsEmptyRange
  <2>2. (r.end - r.start) \div r.step \in Nat /\ 0 \div r.step = 0
    BY <2>1, QuotientIsNatural
  <2>3. RangeCount(r) = 1 + (r.end - r.start) \div r.step
    BY <1>2 DEF RangeCount
  <2>4. r.start = r.end => r.end - r.start = 0
    BY <1>1
  <2> QED
    BY <2>2, <2>3, <2>4
<1>3. CASE ~(r.step > 0)
  <2>1. r.start - r.end \in Nat /\ -r.step \in Nat \ {0}
    BY <1>1, <1>3 DEF IsEmptyRange
  <2>2. (r.start - r.end) \div (-r.step) \in Nat /\ 0 \div (-r.step) = 0
    BY <2>1, QuotientIsNatural
  <2>3. RangeCount(r) = 1 + (r.start - r.end) \div (-r.step)
    BY <1>3 DEF RangeCount
  <2>4. r.start = r.end => r.start - r.end = 0
    BY <1>1
  <2> QED
    BY <2>2, <2>3, <2>4
<1> QED
  BY <1>2, <1>3

\* The indices of a range.
LEMMA RangeIndices ==
    ASSUME NEW r \in Ranges
    PROVE  /\ Indices(r) \in Seq(Int)
           /\ IsEmptyRange(r) => Indices(r) = <<>>
           /\ ~IsEmptyRange(r) =>
                 /\ Len(Indices(r)) = RangeCount(r)
                 /\ \A n \in 1 .. RangeCount(r) : Indices(r)[n] = r.start + (n - 1) * r.step
<1>1. CASE IsEmptyRange(r)
  BY <1>1, EmptySeq DEF Indices
<1>2. CASE ~IsEmptyRange(r)
  <2>1. RangeCount(r) \in Nat
    BY <1>2, RangeCounts
  <2>2. r.start \in Int /\ r.step \in Int
    BY RangeParts
  <2>3. Indices(r) = [n \in 1 .. RangeCount(r) |-> r.start + (n - 1) * r.step]
    BY <1>2 DEF Indices
  <2>4. \A n \in 1 .. RangeCount(r) : r.start + (n - 1) * r.step \in Int
    <3> TAKE n \in 1 .. RangeCount(r)
    <3>1. n - 1 \in Int
      BY <2>1
    <3> QED
      BY <2>2, <3>1
  <2>5. Indices(r) \in [1 .. RangeCount(r) -> Int]
    BY <2>3, <2>4
  <2>6. Indices(r) \in Seq(Int) /\ Len(Indices(r)) = RangeCount(r)
    BY <2>1, <2>5, FunctionIsSeq
  <2> QED
    BY <1>2, <2>3, <2>6
<1> QED
  BY <1>1, <1>2

\* The indices of a range are different.
LEMMA IndicesDiffer ==
    ASSUME NEW r \in Ranges, NEW m \in 1 .. Len(Indices(r)), NEW n \in 1 .. Len(Indices(r)),
           Indices(r)[m] = Indices(r)[n]
    PROVE  m = n
<1>1. ~IsEmptyRange(r)
  <2> SUFFICES ASSUME IsEmptyRange(r) PROVE FALSE
    OBVIOUS
  <2>1. Len(Indices(r)) = 0
    BY RangeIndices, EmptySeq
  <2> QED
    BY <2>1
<1>2. RangeCount(r) \in Nat /\ r.start \in Int /\ r.step \in Int \ {0}
  BY <1>1, RangeCounts, RangeParts
<1>3. /\ m \in Int /\ n \in Int
      /\ r.start + (m - 1) * r.step = r.start + (n - 1) * r.step
  BY <1>1, <1>2, RangeIndices
<1> DEFINE s == r.step
<1> HIDE DEF s
<1>4. (m - n) * s = 0
  BY <1>2, <1>3 DEF s
<1>5. m - n = 0
  BY <1>2, <1>3, <1>4, ProductNotZero DEF s
<1> QED
  BY <1>3, <1>5

\* The window of a slice.
SliceWindow(a, r) == [a EXCEPT !.start = ConvertIndex(a, r.start), !.step = r.step * a.step,
                               !.length = RangeCount(r)]

\* If the first and the last index of a range are in the bounds of an array, the window of
\* the slice fits, and shows the elements at the indices.
LEMMA SliceElements ==
    ASSUME NEW h, SoundHeap(h), NEW w \in Vars, NEW r \in Ranges, ~IsEmptyRange(r),
           {r.start, RangeEnd(r)} \subseteq 0 .. h.arrays[w].length - 1
    PROVE  LET a == SliceWindow(h.arrays[w], r)
           IN  /\ a \in Windows /\ Fits(a, Storage(h, w))
               /\ Seen(a, Storage(h, w)) =
                     [n \in 1 .. Len(Indices(r)) |-> Elements(h, w)[Indices(r)[n] + 1]]
               /\ \A n \in 1 .. Len(Indices(r)) : Indices(r)[n] \in 0 .. h.arrays[w].length - 1
<1> DEFINE b == h.arrays[w]
           a == SliceWindow(b, r)
           old == Storage(h, w)
           k == RangeCount(r)
           At(i) == r.start + i * r.step
<1>1. /\ b \in Windows /\ b.length \in Nat /\ b.start \in Int /\ b.step \in Int \ {0}
      /\ old \in Seq(Values) /\ Fits(b, old)
  BY SoundArray DEF Windows
<1>2. k \in Nat /\ k >= 1 /\ r.start \in Int /\ r.step \in Int \ {0}
  BY RangeCounts, RangeParts
<1>3. r.step * b.step \in Int \ {0} /\ ConvertIndex(b, r.start) \in Int
  BY <1>1, <1>2, ProductNotZero, CellIsInt
<1>4. /\ a \in Windows /\ a.length = k /\ a.start = ConvertIndex(b, r.start)
      /\ a.step = r.step * b.step
  BY <1>1, <1>2, <1>3 DEF SliceWindow, Windows
<1>5. ASSUME NEW i \in 0 .. k - 1
      PROVE  At(i) \in 0 .. b.length - 1
  <2>1. r.start \in 0 .. b.length - 1 /\ At(k - 1) \in 0 .. b.length - 1
    BY DEF RangeEnd
  <2>2. i \in Nat /\ k - 1 \in Nat /\ i <= k - 1 /\ 0 \in Int /\ b.length - 1 \in Int
    BY <1>1, <1>2
  <2> QED
    BY <1>2, <2>1, <2>2, BetweenEnds
<1>6. ASSUME NEW i \in 0 .. k - 1
      PROVE  ConvertIndex(a, i) = ConvertIndex(b, At(i)) /\ At(i) \in Int
  <2> DEFINE x == b.start
             y == b.step
             z == r.start
             s == r.step
  <2>1. x \in Int /\ y \in Int /\ z \in Int /\ s \in Int /\ i \in Int
    BY <1>1, <1>2
  <2>2. ConvertIndex(a, i) = (x + z * y) + i * (s * y)
    BY <1>4 DEF ConvertIndex
  <2>3. ConvertIndex(b, At(i)) = x + (z + i * s) * y
    BY DEF ConvertIndex
  <2> HIDE DEF x, y, z, s
  <2>4. (x + z * y) + i * (s * y) = x + (z + i * s) * y
    BY <2>1
  <2>5. At(i) \in Int
    BY <2>1 DEF z, s
  <2> QED
    BY <2>2, <2>3, <2>4, <2>5
<1>7. /\ Len(Indices(r)) = k
      /\ \A n \in 1 .. k : Indices(r)[n] = At(n - 1)
  BY RangeIndices
<1> HIDE DEF a, b, k, At, old
<1>8. Fits(a, old)
  <2> SUFFICES ASSUME NEW i \in 0 .. k - 1 PROVE ConvertIndex(a, i) \in 0 .. Len(old) - 1
    BY <1>4 DEF Fits
  <2> QED
    BY <1>1, <1>5, <1>6 DEF Fits
<1>9. ASSUME NEW n \in 1 .. k
      PROVE  /\ At(n - 1) \in 0 .. b.length - 1
             /\ Elements(h, w)[At(n - 1) + 1] = old[ConvertIndex(a, n - 1) + 1]
  <2>1. n - 1 \in 0 .. k - 1
    BY <1>2
  <2>2. At(n - 1) \in 0 .. b.length - 1 /\ ConvertIndex(a, n - 1) = ConvertIndex(b, At(n - 1))
    BY <1>5, <1>6, <2>1
  <2> DEFINE j == At(n - 1)
  <2>3. j \in 0 .. b.length - 1 /\ ConvertIndex(a, n - 1) = ConvertIndex(b, j)
    BY <2>2
  <2> HIDE DEF j
  <2>4. j + 1 \in 1 .. b.length /\ (j + 1) - 1 = j
    BY <1>1, <2>3
  <2>5. Elements(h, w)[j + 1] = old[ConvertIndex(b, (j + 1) - 1) + 1]
    BY <2>4 DEF Elements, old, b
  <2> QED
    BY <2>3, <2>4, <2>5 DEF j
<1>10. Seen(a, old) = [n \in 1 .. k |-> old[ConvertIndex(a, n - 1) + 1]]
  BY <1>4 DEF Seen
<1>11. \A n \in 1 .. k : Elements(h, w)[Indices(r)[n] + 1] = old[ConvertIndex(a, n - 1) + 1]
  BY <1>7, <1>9
<1>12. Seen(a, old) = [n \in 1 .. Len(Indices(r)) |-> Elements(h, w)[Indices(r)[n] + 1]]
  BY <1>7, <1>10, <1>11
<1>13. \A n \in 1 .. Len(Indices(r)) : Indices(r)[n] \in 0 .. b.length - 1
  BY <1>7, <1>9
<1> QED
  BY <1>4, <1>8, <1>12, <1>13 DEF a, b, old

-----------------------------------------------------------------------------
(* Writing a range.                                                         *)

\* The heaps between the writes exist: WrittenRange is the last of them.
LEMMA WrittenByFunction ==
    ASSUME NEW h, NEW v, NEW indices, NEW w, NEW count \in Nat
    PROVE  \E f : /\ f[0] = h
                  /\ \A n \in 1 .. count : f[n] = WrittenFrom(f[n - 1], v, indices[n], w, n)
                  /\ WrittenRange(h, v, indices, w, count) = f[count]
<1> DEFINE Defines(f, n) ==
             f = [m \in 0 .. n |-> IF m = 0 THEN h
                                   ELSE WrittenFrom(f[m - 1], v, indices[m], w, m)]
           g == CHOOSE f : Defines(f, count)
           Lengths == {n \in Nat : \E f : Defines(f, n)}
<1>1. 0 \in Lengths
  <2> DEFINE f == [m \in 0 .. 0 |-> h]
  <2>1. f = [m \in 0 .. 0 |-> IF m = 0 THEN h
                              ELSE WrittenFrom(f[m - 1], v, indices[m], w, m)]
    OBVIOUS
  <2> QED
    BY <2>1
<1>2. ASSUME NEW n \in Nat, n \in Lengths PROVE n + 1 \in Lengths
  <2>1. PICK f : Defines(f, n)
    BY <1>2
  <2> DEFINE e == [m \in 0 .. n + 1 |-> IF m = n + 1 THEN WrittenFrom(f[n], v, indices[m], w, m)
                                        ELSE f[m]]
  <2>2. \A m \in 0 .. n : f[m] = IF m = 0 THEN h ELSE WrittenFrom(f[m - 1], v, indices[m], w, m)
    BY <2>1
  <2>3. ASSUME NEW m \in 0 .. n + 1
        PROVE  e[m] = IF m = 0 THEN h ELSE WrittenFrom(e[m - 1], v, indices[m], w, m)
    <3>1. CASE m = n + 1
      <4>1. m # 0 /\ m - 1 = n /\ n \in 0 .. n + 1 /\ n # n + 1
        BY <3>1
      <4>2. e[m] = WrittenFrom(f[n], v, indices[m], w, m) /\ e[n] = f[n]
        BY <3>1, <4>1
      <4> HIDE DEF e
      <4> QED
        BY <4>1, <4>2
    <3>2. CASE m # n + 1
      <4>1. m \in 0 .. n /\ (m # 0 => m - 1 \in 0 .. n + 1 /\ m - 1 # n + 1)
        BY <3>2
      <4>2. e[m] = f[m] /\ (m # 0 => e[m - 1] = f[m - 1])
        BY <3>2, <4>1
      <4> HIDE DEF e
      <4> QED
        BY <2>2, <4>1, <4>2
    <3> QED
      BY <3>1, <3>2
  <2>4. e = [m \in 0 .. n + 1 |-> IF m = 0 THEN h
                                  ELSE WrittenFrom(e[m - 1], v, indices[m], w, m)]
    <3>1. e = [m \in 0 .. n + 1 |-> e[m]]
      OBVIOUS
    <3> HIDE DEF e
    <3> QED
      BY <2>3, <3>1
  <2>5. Defines(e, n + 1)
    BY <2>4
  <2> HIDE DEF Defines, e
  <2> QED
    BY <2>5
<1>3. Nat \subseteq Lengths
  <2> HIDE DEF Lengths
  <2> QED
    BY <1>1, <1>2, NaturalInduction
<1>4. \E f : Defines(f, count)
  BY <1>3
<1>5. Defines(g, count)
  <2> HIDE DEF Defines
  <2> QED
    BY <1>4
<1>6. WrittenRange(h, v, indices, w, count) = g[count]
  BY Zenon DEF WrittenRange
<1> HIDE DEF g
<1>7. \A n \in 0 .. count : g[n] = IF n = 0 THEN h
                                   ELSE WrittenFrom(g[n - 1], v, indices[n], w, n)
  BY <1>5
<1>8. g[0] = h /\ \A n \in 1 .. count : g[n] = WrittenFrom(g[n - 1], v, indices[n], w, n)
  BY <1>7
<1> QED
  BY <1>6, <1>8

\* The heap g is h in which the first n elements of w have been written to v at the
\* indices.
HasWritten(g, h, v, indices, w, n) ==
    /\ SoundHeap(g)
    /\ \A u \in Vars : g.arrays[u].length = h.arrays[u].length
    /\ \A u \in Vars \ {v} : Elements(g, u) = Elements(h, u)
    /\ \A k \in 1 .. h.arrays[v].length :
        /\ \A j \in 1 .. n : indices[j] = k - 1 => Elements(g, v)[k] = Elements(h, w)[j]
        /\ (\A j \in 1 .. n : indices[j] # k - 1) => Elements(g, v)[k] = Elements(h, v)[k]

\* One more element is written.
LEMMA WritesOneMore ==
    ASSUME NEW h, SoundHeap(h), NEW v \in Vars, NEW w \in Vars, v # w,
           NEW n \in Nat \ {0}, n <= h.arrays[w].length, NEW indices,
           \A j \in 1 .. n : indices[j] \in 0 .. h.arrays[v].length - 1,
           \A i, j \in 1 .. n : indices[i] = indices[j] => i = j,
           NEW g, HasWritten(g, h, v, indices, w, n - 1)
    PROVE  HasWritten(WrittenFrom(g, v, indices[n], w, n), h, v, indices, w, n)
<1> DEFINE x == Elements(g, w)[n]
           i == indices[n]
           g2 == Written(g, v, i, x)
           l == h.arrays[v].length
<1>1. /\ SoundHeap(g) /\ Elements(g, w) = Elements(h, w)
      /\ g.arrays[v].length = l /\ g.arrays[w].length = h.arrays[w].length
      /\ \A u \in Vars : g.arrays[u].length = h.arrays[u].length
      /\ \A u \in Vars \ {v} : Elements(g, u) = Elements(h, u)
  BY DEF HasWritten
<1>2. n \in 1 .. n /\ i \in 0 .. l - 1 /\ l \in Nat
  BY SoundArray
<1>3. x \in Values
  <2>1. Elements(g, w) \in Seq(Values) /\ Len(Elements(g, w)) = h.arrays[w].length
    BY <1>1, SoundArray
  <2>2. h.arrays[w].length \in Nat
    BY SoundArray
  <2>3. n \in 1 .. Len(Elements(g, w))
    BY <2>1, <2>2
  <2> QED
    BY <2>1, <2>3, ElementOfSeq
<1>4. WrittenFrom(g, v, indices[n], w, n) = g2
  BY DEF WrittenFrom
<1>5. x = Elements(h, w)[n]
  BY <1>1
<1> HIDE DEF x, g2, i
<1>6. /\ SoundHeap(g2)
      /\ \A u \in Vars : g2.arrays[u].length = g.arrays[u].length
      /\ Elements(g2, v) = [Elements(g, v) EXCEPT ![i + 1] = x]
      /\ \A u \in Vars \ {v} : Elements(g2, u) = Elements(g, u)
  BY <1>1, <1>2, <1>3, WrittenElement DEF g2
<1>7. DOMAIN Elements(g, v) = 1 .. l
  BY <1>1 DEF Elements
<1> HIDE DEF l
<1>8. \A k \in 1 .. l : Elements(g2, v)[k] = IF k = i + 1 THEN x ELSE Elements(g, v)[k]
  BY <1>6, <1>7
<1>9. ASSUME NEW k \in 1 .. l
      PROVE  /\ \A j \in 1 .. n : indices[j] = k - 1 => Elements(g2, v)[k] = Elements(h, w)[j]
             /\ (\A j \in 1 .. n : indices[j] # k - 1) => Elements(g2, v)[k] = Elements(h, v)[k]
  <2>1. /\ \A j \in 1 .. n - 1 : indices[j] = k - 1 => Elements(g, v)[k] = Elements(h, w)[j]
        /\ (\A j \in 1 .. n - 1 : indices[j] # k - 1) => Elements(g, v)[k] = Elements(h, v)[k]
    BY DEF HasWritten, l
  <2>2. i = k - 1 <=> k = i + 1
    BY <1>2
  <2>3. \A j \in 1 .. n : j = n \/ j \in 1 .. n - 1
    OBVIOUS
  <2>4. \A j \in 1 .. n - 1 : j \in 1 .. n /\ j # n
    OBVIOUS
  <2>5. CASE i = k - 1
    <3>1. Elements(g2, v)[k] = x
      BY <1>8, <2>2, <2>5
    <3>2. \A j \in 1 .. n : indices[j] = k - 1 => j = n
      BY <1>2, <2>5 DEF i
    <3>3. ~(\A j \in 1 .. n : indices[j] # k - 1)
      BY <1>2, <2>5 DEF i
    <3> QED
      BY <1>5, <3>1, <3>2, <3>3
  <2>6. CASE i # k - 1
    <3>1. Elements(g2, v)[k] = Elements(g, v)[k]
      BY <1>8, <2>2, <2>6
    <3>2. \A j \in 1 .. n : indices[j] = k - 1 => j \in 1 .. n - 1
      BY <2>3, <2>6 DEF i
    <3> QED
      BY <2>1, <2>4, <3>1, <3>2
  <2> QED
    BY <2>5, <2>6
<1> QED
  BY <1>1, <1>4, <1>6, <1>9 DEF HasWritten, l

\* Writing a range writes the elements at the indices and nothing else.
LEMMA RangeIsWritten ==
    ASSUME NEW h, SoundHeap(h), NEW v \in Vars, NEW w \in Vars, v # w,
           NEW count \in Nat, count <= h.arrays[w].length, NEW indices,
           \A j \in 1 .. count : indices[j] \in 0 .. h.arrays[v].length - 1,
           \A i, j \in 1 .. count : indices[i] = indices[j] => i = j
    PROVE  HasWritten(WrittenRange(h, v, indices, w, count), h, v, indices, w, count)
<1>1. PICK f : /\ f[0] = h
               /\ \A n \in 1 .. count : f[n] = WrittenFrom(f[n - 1], v, indices[n], w, n)
               /\ WrittenRange(h, v, indices, w, count) = f[count]
  BY WrittenByFunction
<1> DEFINE Good(n) == HasWritten(f[n], h, v, indices, w, n)
           Done == {n \in Nat : n <= count => Good(n)}
<1>2. 0 \in Done
  BY <1>1 DEF HasWritten
<1>3. ASSUME NEW n \in Nat, n \in Done PROVE n + 1 \in Done
  <2> SUFFICES ASSUME n + 1 <= count PROVE Good(n + 1)
    OBVIOUS
  <2> DEFINE m == n + 1
  <2>1. m \in Nat \ {0} /\ m - 1 = n /\ m \in 1 .. count /\ m <= count
    OBVIOUS
  <2>2. HasWritten(f[n], h, v, indices, w, n)
    BY <1>3, <2>1
  <2> HIDE DEF m, Good, Done
  <2>3. m <= h.arrays[w].length
    BY <2>1, SoundArray
  <2>4. /\ \A j \in 1 .. m : indices[j] \in 0 .. h.arrays[v].length - 1
        /\ \A i, j \in 1 .. m : indices[i] = indices[j] => i = j
    BY <2>1
  <2>5. f[m] = WrittenFrom(f[n], v, indices[m], w, m)
    BY <1>1, <2>1
  <2>6. HasWritten(f[n], h, v, indices, w, m - 1)
    BY <2>1, <2>2
  <2>7. HasWritten(f[m], h, v, indices, w, m)
    BY <2>1, <2>3, <2>4, <2>5, <2>6, WritesOneMore
  <2> QED
    BY <2>7 DEF Good, m
<1>4. count \in Done
  <2>1. Nat \subseteq Done
    <3> HIDE DEF Done
    <3> QED
      BY <1>2, <1>3, NaturalInduction
  <2> QED
    BY <2>1
<1> QED
  BY <1>1, <1>4

-----------------------------------------------------------------------------
(* Steps.                                                                   *)

\* The heap that Become leaves of h.
Collected(h) ==
    [arrays |-> h.arrays,
     inners |-> [n \in Inners |-> IF \E v \in Vars : h.arrays[v].inner = n
                                  THEN h.inners[n] ELSE Unused]]

\* Garbage is not read.
LEMMA GarbageIsNotRead ==
    ASSUME NEW h, SoundHeap(h)
    PROVE  SoundHeap(Collected(h)) /\ \A v \in Vars : Elements(Collected(h), v) = Elements(h, v)
<1> DEFINE g == Collected(h)
<1>1. h.arrays \in [Vars -> Windows] /\ h.inners \in [Inners -> InnerArrays]
  BY DEF SoundHeap
<1>2. Unused \in InnerArrays /\ Unused.refCount = 0
  BY EmptySeq DEF Unused, InnerArrays
<1>3. /\ g.arrays = h.arrays
      /\ g.inners = [n \in Inners |-> IF \E v \in Vars : h.arrays[v].inner = n
                                      THEN h.inners[n] ELSE Unused]
  BY DEF Collected
<1> HIDE DEF g
<1>4. g.inners \in [Inners -> InnerArrays]
  BY <1>1, <1>2, <1>3
<1>5. \A v \in Vars : Storage(g, v) = Storage(h, v)
  <2> TAKE v \in Vars
  <2>1. h.arrays[v].inner \in Inners
    BY <1>1 DEF Windows
  <2> QED
    BY <1>3, <2>1 DEF Storage
<1>6. \A v \in Vars : Fits(g.arrays[v], Storage(g, v))
  BY <1>3, <1>5 DEF SoundHeap
<1>7. \A n \in Inners : Cardinality(Pointers(g, n)) <= g.inners[n].refCount
  <2> TAKE n \in Inners
  <2>1. Pointers(g, n) = Pointers(h, n)
    BY <1>3 DEF Pointers
  <2>2. CASE \E v \in Vars : h.arrays[v].inner = n
    <3>1. g.inners[n] = h.inners[n]
      BY <1>3, <2>2
    <3>2. Cardinality(Pointers(h, n)) <= h.inners[n].refCount
      BY DEF SoundHeap
    <3> QED
      BY <2>1, <3>1, <3>2
  <2>3. CASE ~\E v \in Vars : h.arrays[v].inner = n
    <3>1. Pointers(h, n) = {}
      BY <2>3 DEF Pointers
    <3>2. Cardinality(Pointers(h, n)) = 0
      BY <3>1, FS_EmptySet
    <3>3. g.inners[n].refCount = 0
      BY <1>2, <1>3, <2>3
    <3> QED
      BY <2>1, <3>2, <3>3
  <2> QED
    BY <2>2, <2>3
<1>8. SoundHeap(g)
  BY <1>1, <1>3, <1>4, <1>6, <1>7 DEF SoundHeap
<1> QED
  BY <1>3, <1>5, <1>8, ElementsAreSeen DEF g

\* A step to a sound heap in which v reads s, and the other arrays what they read, keeps
\* the invariant if v becomes s.
LEMMA OneArrayChanges ==
    ASSUME Inv, NEW v \in Vars, NEW s, NEW h, SoundHeap(h), Become(h),
           Elements(h, v) = s, \A u \in Vars \ {v} : Elements(h, u) = Elements(Heap, u),
           value' = [value EXCEPT ![v] = s], outside' \in BOOLEAN
    PROVE  Inv'
<1>1. Heap' = Collected(h)
  BY DEF Heap, Become, Collected
<1>2. SoundHeap(Heap') /\ \A u \in Vars : Elements(Heap', u) = Elements(h, u)
  BY <1>1, GarbageIsNotRead
<1>3. value = [u \in Vars |-> Elements(Heap, u)]
  BY DEF Inv
<1>4. value' = [u \in Vars |-> Elements(h, u)]
  BY <1>3
<1>5. value' = [u \in Vars |-> Elements(Heap', u)]
  BY <1>2, <1>4
<1> QED
  BY <1>2, <1>5 DEF Inv

\* The array that value is compared with, and its length.
LEMMA ValueIsRead ==
    ASSUME Inv, NEW w \in Vars
    PROVE  /\ SoundHeap(Heap) /\ Heap.arrays = arrays /\ Heap.inners = inners
           /\ value[w] = Elements(Heap, w) /\ value[w] \in Seq(Values)
           /\ Len(value[w]) = arrays[w].length /\ arrays[w].length \in Nat
<1>1. /\ SoundHeap(Heap) /\ Heap.arrays = arrays /\ Heap.inners = inners
      /\ value[w] = Elements(Heap, w)
  BY DEF Inv, Heap
<1> QED
  BY <1>1, SoundArray

\* A heap with a new array for v keeps the invariant.
LEMMA NewInnerStep ==
    ASSUME Inv, NEW v \in Vars, NEW s \in Seq(Values), NEW count \in Nat \ {0},
           NEW h, IsNewArray(Heap, h, v, s, count), Become(h),
           value' = [value EXCEPT ![v] = s], outside' \in BOOLEAN
    PROVE  Inv'
<1>1. SoundHeap(Heap)
  BY DEF Inv
<1>2. /\ SoundHeap(h) /\ Elements(h, v) = s
      /\ \A u \in Vars \ {v} : Elements(h, u) = Elements(Heap, u)
  BY <1>1, NewInner
<1> QED
  BY <1>2, OneArrayChanges

\* NewArray keeps the invariant.
LEMMA NewArrayStep ==
    ASSUME Inv, NEW v \in Vars, NEW s \in Seq(Values), Become(NewArray(Heap, v, s)),
           value' = [value EXCEPT ![v] = s], outside' \in BOOLEAN
    PROVE  Inv'
<1> DEFINE h == NewArray(Heap, v, s)
<1>1. IsNewArray(Heap, h, v, s, 1) /\ 1 \in Nat \ {0}
  BY DEF NewArray, IsNewArray
<1> HIDE DEF h
<1> QED
  BY <1>1, NewInnerStep DEF h

\* A heap in which v shares w's inner array, with the same window, keeps the invariant.
LEMMA ShareStep ==
    ASSUME Inv, NEW v \in Vars, NEW w \in Vars, Become(Share(Heap, v, w)),
           value' = [value EXCEPT ![v] = value[w]], outside' \in BOOLEAN
    PROVE  Inv'
<1> DEFINE h == Share(Heap, v, w)
           a == Heap.arrays[w]
<1>1. SoundHeap(Heap) /\ value[w] = Elements(Heap, w)
  BY ValueIsRead
<1>2. a \in Windows /\ Fits(a, Storage(Heap, w))
  BY <1>1, SoundArray
<1>3. IsShare(Heap, h, v, w, a)
  BY <1>2 DEF Share, IsShare, Heap
<1>4. Seen(a, Storage(Heap, w)) = value[w]
  BY <1>1, ElementsAreSeen
<1> HIDE DEF h, a
<1>5. /\ SoundHeap(h) /\ Elements(h, v) = value[w]
      /\ \A u \in Vars \ {v} : Elements(h, u) = Elements(Heap, u)
  BY <1>1, <1>2, <1>3, <1>4, Shared
<1> QED
  BY <1>5, OneArrayChanges DEF h

\* New keeps the invariant.
LEMMA NewKeepsInv ==
    ASSUME Inv, NEW v \in Vars, NEW n \in 0 .. MaxLength, NEW s \in [1 .. n -> Values],
           New(v, s)
    PROVE  Inv'
<1>1. n \in Nat
  BY ConstantsAssumption
<1>2. s \in Seq(Values)
  BY <1>1, FunctionIsSeq
<1> QED
  BY <1>2, NewArrayStep DEF New, Inv

\* Copy keeps the invariant.
LEMMA CopyKeepsInv ==
    ASSUME Inv, NEW v \in Vars, NEW w \in Vars, Copy(v, w)
    PROVE  Inv'
BY ShareStep DEF Copy, Inv

\* Slice keeps the invariant.
LEMMA SliceKeepsInv ==
    ASSUME Inv, NEW v \in Vars, NEW w \in Vars, NEW r \in Ranges, Slice(v, w, r)
    PROVE  Inv'
<1> DEFINE s == [n \in 1 .. Len(Indices(r)) |-> value[w][Indices(r)[n] + 1]]
<1>1. /\ SoundHeap(Heap) /\ Heap.arrays = arrays /\ value[w] = Elements(Heap, w)
      /\ value[w] \in Seq(Values)
      /\ Len(value[w]) = arrays[w].length /\ arrays[w].length \in Nat
  BY ValueIsRead
<1>2. /\ IsEmptyRange(r) \/ {r.start, RangeEnd(r)} \subseteq 0 .. arrays[w].length - 1
      /\ Become(Sliced(v, w, r))
      /\ value' = [value EXCEPT ![v] = s]
      /\ outside' \in BOOLEAN
  BY DEF Slice, Inv
<1>3. CASE IsEmptyRange(r)
  <2>1. Indices(r) = <<>>
    BY <1>3, RangeIndices
  <2>2. s = <<>>
    BY <2>1
  <2>3. Sliced(v, w, r) = NewArray(Heap, v, <<>>)
    BY <1>3 DEF Sliced
  <2>4. <<>> \in Seq(Values)
    BY EmptySeq
  <2> HIDE DEF s
  <2> QED
    BY <1>2, <2>2, <2>3, <2>4, NewArrayStep
<1>4. CASE ~IsEmptyRange(r) /\ r.start = r.end
  <2>1. RangeCount(r) = 1 /\ r.start \in Nat /\ r.step \in Int
    BY <1>4, RangeCounts, RangeParts
  <2>2. 1 \in 1 .. RangeCount(r) /\ Len(Indices(r)) = 1
    <3>1. Len(Indices(r)) = RangeCount(r)
      BY <1>4, RangeIndices
    <3> QED
      BY <2>1, <3>1
  <2>3. Indices(r)[1] = r.start + (1 - 1) * r.step
    BY <1>4, <2>2, RangeIndices
  <2>4. Indices(r)[1] = r.start
    BY <2>1, <2>3
  <2> DEFINE x == value[w][r.start + 1]
  <2>5. s = [n \in 1 .. 1 |-> x]
    <3>1. \A n \in 1 .. 1 : value[w][Indices(r)[n] + 1] = x
      BY <2>4
    <3> QED
      BY <2>2, <3>1
  <2>6. s = <<x>>
    <3> HIDE DEF s, x
    <3> QED
      BY <2>5
  <2>7. x \in Values
    <3>1. r.start \in 0 .. arrays[w].length - 1
      BY <1>2, <1>4
    <3>2. r.start + 1 \in 1 .. Len(value[w])
      BY <1>1, <3>1
    <3> QED
      BY <1>1, <3>2, ElementOfSeq
  <2>8. Sliced(v, w, r) = NewArray(Heap, v, <<x>>)
    BY <1>1, <1>4 DEF Sliced
  <2> HIDE DEF x
  <2>9. <<x>> \in Seq(Values)
    BY <2>7
  <2> HIDE DEF s
  <2> QED
    BY <1>2, <2>6, <2>8, <2>9, NewArrayStep
<1>5. CASE ~IsEmptyRange(r) /\ r.start # r.end
  <2> DEFINE h == Sliced(v, w, r)
             a == SliceWindow(Heap.arrays[w], r)
  <2>1. /\ a \in Windows /\ Fits(a, Storage(Heap, w))
        /\ Seen(a, Storage(Heap, w)) = [n \in 1 .. Len(Indices(r)) |->
                                            Elements(Heap, w)[Indices(r)[n] + 1]]
    BY <1>1, <1>2, <1>5, SliceElements
  <2>2. Seen(a, Storage(Heap, w)) = s
    BY <1>1, <2>1
  <2>3. IsShare(Heap, h, v, w, a)
    <3>1. h = [Share(Heap, v, w) EXCEPT !.arrays[v].start = ConvertIndex(arrays[w], r.start),
                                        !.arrays[v].step = r.step * arrays[w].step,
                                        !.arrays[v].length = RangeCount(r)]
      BY <1>5 DEF Sliced
    <3>2. /\ Share(Heap, v, w).arrays = [arrays EXCEPT ![v] = arrays[w]]
          /\ Share(Heap, v, w).inners = [inners EXCEPT ![arrays[w].inner].refCount = @ + 1]
      BY DEF Share, Heap
    <3>3. h.inners = [inners EXCEPT ![arrays[w].inner].refCount = @ + 1]
      BY <3>1, <3>2
    <3>4. h.arrays = [arrays EXCEPT ![v] = a]
      <4>1. arrays \in [Vars -> Windows]
        BY <1>1 DEF SoundHeap
      <4>2. h.arrays = [[arrays EXCEPT ![v] = arrays[w]]
                          EXCEPT ![v].start = ConvertIndex(arrays[w], r.start),
                                 ![v].step = r.step * arrays[w].step,
                                 ![v].length = RangeCount(r)]
        BY <3>1, <3>2
      <4>3. a = [arrays[w] EXCEPT !.start = ConvertIndex(arrays[w], r.start),
                                  !.step = r.step * arrays[w].step, !.length = RangeCount(r)]
        BY <1>1 DEF SliceWindow
      <4> HIDE DEF h, a
      <4> QED
        BY <4>1, <4>2, <4>3
    <3>5. a.inner = arrays[w].inner
      BY <1>1 DEF SliceWindow, SoundHeap, Windows
    <3> QED
      BY <2>1, <3>3, <3>4, <3>5 DEF IsShare, Heap
  <2> HIDE DEF h, a, s
  <2>4. /\ SoundHeap(h) /\ Elements(h, v) = s
        /\ \A u \in Vars \ {v} : Elements(h, u) = Elements(Heap, u)
    BY <1>1, <2>1, <2>2, <2>3, Shared
  <2> QED
    BY <1>2, <2>4, OneArrayChanges DEF h
<1> QED
  BY <1>3, <1>4, <1>5

\* The inner array that Add extends ends with the window, and reads as before.
LEMMA ExtendableEnds ==
    ASSUME Inv, NEW w \in Vars
    PROVE  LET h == Extendable(w)
           IN  /\ SoundHeap(h) /\ ExtendsInPlace(h, w)
               /\ h.arrays[w].length = arrays[w].length
               /\ \A u \in Vars : Elements(h, u) = Elements(Heap, u)
<1>1. SoundHeap(Heap) /\ Heap.arrays = arrays
  BY ValueIsRead
<1>2. CASE ExtendsInPlace(Heap, w)
  BY <1>1, <1>2 DEF Extendable
<1>3. CASE ~ExtendsInPlace(Heap, w)
  <2> DEFINE h == CopyAndCompress(Heap, w)
  <2>1. Extendable(w) = h
    BY <1>3 DEF Extendable
  <2>2. /\ SoundHeap(h)
        /\ \A u \in Vars : Elements(h, u) = Elements(Heap, u)
        /\ h.arrays[w].length = arrays[w].length
        /\ h.arrays[w].start = 0 /\ h.arrays[w].step = 1
        /\ Len(Storage(h, w)) = h.arrays[w].length
    BY <1>1, Compressed
  <2> HIDE DEF h
  <2>3. h.arrays[w].length \in Nat
    BY <2>2, SoundArray
  <2>4. ConvertIndex(h.arrays[w], h.arrays[w].length) = h.arrays[w].length
    BY <2>2, <2>3 DEF ConvertIndex
  <2>5. ExtendsInPlace(h, w)
    BY <2>2, <2>3, <2>4 DEF ExtendsInPlace
  <2> QED
    BY <2>1, <2>2, <2>5
<1> QED
  BY <1>2, <1>3

\* The result of Add is a longer window on the extended inner array.
LEMMA AddedIsShare ==
    ASSUME NEW h, SoundHeap(h), NEW v \in Vars, NEW w \in Vars, NEW k \in Nat
    PROVE  LET long == Share(h, v, w)
           IN  Longer(h.arrays[w], k) \in Windows =>
                  IsShare(h, [long EXCEPT !.arrays[v].length = h.arrays[w].length + k], v, w,
                          Longer(h.arrays[w], k))
<1> DEFINE b == h.arrays[w]
           a == Longer(b, k)
           long == Share(h, v, w)
           h2 == [long EXCEPT !.arrays[v].length = b.length + k]
<1> SUFFICES ASSUME a \in Windows PROVE IsShare(h, h2, v, w, a)
  OBVIOUS
<1>1. h.arrays \in [Vars -> Windows] /\ b \in Windows
  BY DEF SoundHeap
<1>2. /\ long.arrays = [h.arrays EXCEPT ![v] = b]
      /\ long.inners = [h.inners EXCEPT ![b.inner].refCount = @ + 1]
  BY DEF Share
<1>3. a.inner = b.inner
  BY <1>1, LongerWindow
<1>4. h2.inners = [h.inners EXCEPT ![b.inner].refCount = @ + 1]
  BY <1>2
<1>5. h2.arrays = [[h.arrays EXCEPT ![v] = b] EXCEPT ![v].length = b.length + k]
  BY <1>2
<1>6. a = [b EXCEPT !.length = b.length + k]
  BY DEF Longer
<1> HIDE DEF h2, a, long, b
<1>7. h2.arrays = [h.arrays EXCEPT ![v] = a]
  BY <1>1, <1>5, <1>6
<1> QED
  BY <1>3, <1>4, <1>7 DEF IsShare, b

\* Add keeps the invariant.
LEMMA AddKeepsInv ==
    ASSUME Inv, NEW v \in Vars, NEW w \in Vars, NEW u \in Vars, Add(v, w, u)
    PROVE  Inv'
<1> DEFINE s == value[w] \o value[u]
<1>1. /\ SoundHeap(Heap) /\ Heap.arrays = arrays
      /\ value[w] = Elements(Heap, w) /\ value[w] \in Seq(Values)
      /\ value[u] = Elements(Heap, u) /\ value[u] \in Seq(Values)
      /\ Len(value[w]) = arrays[w].length /\ arrays[w].length \in Nat
      /\ Len(value[u]) = arrays[u].length /\ arrays[u].length \in Nat
  BY ValueIsRead
<1>2. /\ Become(Added(v, w, u))
      /\ value' = [value EXCEPT ![v] = s]
      /\ outside' \in BOOLEAN
  BY DEF Add, Inv
<1>3. CASE arrays[w].length = 0
  <2>1. value[w] = <<>>
    BY <1>1, <1>3, EmptySeq
  <2>2. s = value[u]
    BY <1>1, <2>1, ConcatEmptySeq
  <2>3. Added(v, w, u) = NewArray(Heap, v, value[u])
    BY <1>1, <1>3 DEF Added
  <2> HIDE DEF s
  <2> QED
    BY <1>1, <1>2, <2>2, <2>3, NewArrayStep
<1>4. CASE arrays[w].length # 0 /\ arrays[u].length = 0
  <2>1. value[u] = <<>>
    BY <1>1, <1>4, EmptySeq
  <2>2. s = value[w]
    BY <1>1, <2>1, ConcatEmptySeq
  <2>3. Added(v, w, u) = Share(Heap, v, w)
    BY <1>1, <1>4 DEF Added
  <2> HIDE DEF s
  <2> QED
    BY <1>2, <2>2, <2>3, ShareStep
<1>5. CASE arrays[w].length # 0 /\ arrays[u].length # 0
  <2> DEFINE g == Extendable(w)
             e == Extended(g, w, value[u])
             k == Len(value[u])
             a == Longer(g.arrays[w], k)
             h == [Share(e, v, w) EXCEPT !.arrays[v].length =
                                            arrays[w].length + arrays[u].length]
  <2>1. /\ SoundHeap(g) /\ ExtendsInPlace(g, w)
        /\ g.arrays[w].length = arrays[w].length
        /\ \A x \in Vars : Elements(g, x) = Elements(Heap, x)
    BY ExtendableEnds
  <2>2. Added(v, w, u) = h
    BY <1>1, <1>5 DEF Added
  <2>3. value[u] # <<>> /\ g.arrays[w].length > 0
    BY <1>1, <1>5, <2>1, EmptySeq
  <2> HIDE DEF g
  <2>4. /\ SoundHeap(e) /\ e.arrays = g.arrays
        /\ \A x \in Vars : Elements(e, x) = Elements(g, x)
        /\ a \in Windows /\ Fits(a, Storage(e, w))
        /\ Seen(a, Storage(e, w)) = Elements(g, w) \o value[u]
    BY <1>1, <2>1, <2>3, ExtendedElements
  <2>5. IsShare(e, h, v, w, a)
    <3>1. k \in Nat /\ k = arrays[u].length
      BY <1>1
    <3>2. h = [Share(e, v, w) EXCEPT !.arrays[v].length = e.arrays[w].length + k]
      BY <2>1, <2>4, <3>1
    <3>3. Longer(e.arrays[w], k) = a
      BY <2>4
    <3> HIDE DEF e, a, k, h
    <3> QED
      BY <2>4, <3>1, <3>2, <3>3, AddedIsShare
  <2>6. Seen(a, Storage(e, w)) = s
    BY <1>1, <2>1, <2>4
  <2> HIDE DEF e, h, a, s
  <2>7. /\ SoundHeap(h) /\ Elements(h, v) = s
        /\ \A x \in Vars \ {v} : Elements(h, x) = Elements(e, x)
    BY <2>4, <2>5, <2>6, Shared
  <2>8. \A x \in Vars \ {v} : Elements(h, x) = Elements(Heap, x)
    BY <2>1, <2>4, <2>7
  <2>9. Become(h)
    BY <1>2, <2>2
  <2> QED
    BY <1>2, <2>7, <2>8, <2>9, OneArrayChanges
<1> QED
  BY <1>3, <1>4, <1>5

\* AddThrows keeps the invariant: a copied window reads as before.
LEMMA AddThrowsKeepsInv ==
    ASSUME Inv, NEW w \in Vars, NEW u \in Vars, AddThrows(w, u)
    PROVE  Inv'
<1> DEFINE h == Extendable(w)
<1>1. SoundHeap(h) /\ \A x \in Vars : Elements(h, x) = Elements(Heap, x)
  BY ExtendableEnds
<1>2. Become(h) /\ value' = value /\ outside' \in BOOLEAN
  BY DEF AddThrows, Inv
<1>3. value = [x \in Vars |-> Elements(Heap, x)]
  BY DEF Inv
<1> HIDE DEF h
<1>4. value' = [value EXCEPT ![w] = value[w]]
  BY <1>2, <1>3
<1>5. Elements(h, w) = value[w]
  BY <1>1, <1>3
<1> QED
  BY <1>1, <1>2, <1>4, <1>5, OneArrayChanges

\* AddInterfaces keeps the invariant.
LEMMA AddInterfacesKeepsInv ==
    ASSUME Inv, NEW v \in Vars, NEW w \in Vars, NEW u \in Vars, AddInterfaces(v, w, u)
    PROVE  Inv'
<1> DEFINE s == Elements(Heap, w) \o Elements(Heap, u)
           count == IF arrays[w].length = 0 THEN 1 ELSE 2
           new == NewArray(Heap, v, s)
           h == [new EXCEPT !.inners[new.arrays[v].inner].refCount = count]
           m == Fresh(Heap)
<1>1. /\ SoundHeap(Heap) /\ Heap.arrays = arrays
      /\ value[w] = Elements(Heap, w) /\ value[w] \in Seq(Values)
      /\ value[u] = Elements(Heap, u) /\ value[u] \in Seq(Values)
  BY ValueIsRead
<1>2. s \in Seq(Values) /\ s = value[w] \o value[u]
  BY <1>1, ConcatProperties
<1>3. /\ Become(h)
      /\ value' = [value EXCEPT ![v] = s]
      /\ outside' \in BOOLEAN
  BY <1>2 DEF AddInterfaces, Inv
<1>4. count \in Nat \ {0}
  OBVIOUS
<1>5. IsNewArray(Heap, h, v, s, count)
  <2>1. /\ new.arrays = [Heap.arrays EXCEPT ![v] = [inner |-> m, start |-> 0, step |-> 1,
                                                    length |-> Len(s)]]
        /\ new.inners = [Heap.inners EXCEPT ![m] = [refCount |-> 1, storage |-> s]]
    BY DEF NewArray
  <2>2. /\ Heap.arrays \in [Vars -> Windows] /\ Heap.inners \in [Inners -> InnerArrays]
        /\ m \in Inners
    BY <1>1, FreshIsFree DEF SoundHeap
  <2>3. h.arrays = new.arrays
    BY DEF NewArray
  <2> HIDE DEF s, count, m
  <2>4. new.arrays[v].inner = m
    BY <2>1, <2>2
  <2>5. h.inners = [new.inners EXCEPT ![m].refCount = count]
    BY <2>4 DEF NewArray
  <2>6. h.inners = [[Heap.inners EXCEPT ![m] = [refCount |-> 1, storage |-> s]]
                        EXCEPT ![m].refCount = count]
    BY <2>1, <2>5
  <2> HIDE DEF h, new
  <2>7. h.inners = [Heap.inners EXCEPT ![m] = [refCount |-> count, storage |-> s]]
    BY <2>2, <2>6
  <2> QED
    BY <2>1, <2>3, <2>7 DEF IsNewArray, m
<1> HIDE DEF h, s, count, new
<1> QED
  BY <1>2, <1>3, <1>4, <1>5, NewInnerStep

\* Modify keeps the invariant if no index is negative.
LEMMA ModifyKeepsInv ==
    ASSUME Inv, MinIndex \in Nat, NEW v \in Vars, NEW i \in MinIndex .. MaxLength - 1,
           NEW x \in Values, Modify(v, i, x)
    PROVE  Inv'
<1> DEFINE h == Written(Heap, v, i, x)
           s == [value[v] EXCEPT ![i + 1] = x]
<1>1. /\ SoundHeap(Heap) /\ Heap.arrays = arrays /\ value[v] = Elements(Heap, v)
      /\ Len(value[v]) = arrays[v].length /\ arrays[v].length \in Nat
  BY ValueIsRead
<1>2. i \in 0 .. arrays[v].length - 1 /\ i \in 0 .. Len(value[v]) - 1
  <2>1. i \in Nat
    BY ConstantsAssumption
  <2>2. i < arrays[v].length
    BY DEF Modify
  <2> QED
    BY <1>1, <2>1, <2>2
<1>3. Become(h) /\ outside' \in BOOLEAN
  BY DEF Modify, Inv
<1>4. value' = [value EXCEPT ![v] = s]
  BY <1>2 DEF Modify
<1>5. /\ SoundHeap(h) /\ Elements(h, v) = s
      /\ \A u \in Vars \ {v} : Elements(h, u) = Elements(Heap, u)
  <2>1. i \in 0 .. Heap.arrays[v].length - 1
    BY <1>1, <1>2
  <2>2. /\ SoundHeap(h) /\ Elements(h, v) = [Elements(Heap, v) EXCEPT ![i + 1] = x]
        /\ \A u \in Vars \ {v} : Elements(h, u) = Elements(Heap, u)
    BY <1>1, <2>1, WrittenElement
  <2> QED
    BY <1>1, <2>2
<1> HIDE DEF h, s
<1> QED
  BY <1>3, <1>4, <1>5, OneArrayChanges

\* ModifyRange keeps the invariant if an array is not updated from itself.
LEMMA ModifyRangeKeepsInv ==
    ASSUME Inv, ~SelfUpdates, NEW v \in Vars, NEW w \in Vars, NEW r \in Ranges,
           ModifyRange(v, r, w)
    PROVE  Inv'
<1> DEFINE indices == Indices(r)
           l == arrays[v].length
<1>1. /\ SoundHeap(Heap) /\ Heap.arrays = arrays
      /\ value[v] = Elements(Heap, v) /\ value[w] = Elements(Heap, w)
      /\ l \in Nat /\ arrays[w].length \in Nat
  BY ValueIsRead
<1>2. /\ v # w /\ Len(indices) = arrays[w].length /\ outside' \in BOOLEAN
      /\ \A n \in DOMAIN indices : indices[n] >= 0
  BY DEF ModifyRange, Inv
<1>3. indices \in Seq(Int) /\ DOMAIN indices = 1 .. Len(indices)
      /\ \A n \in 1 .. Len(indices) : indices[n] \in Int
  BY RangeIndices, LenProperties, ElementOfSeq
<1>4. \A i, j \in 1 .. Len(indices) : indices[i] = indices[j] => i = j
  BY IndicesDiffer
<1> DEFINE Changed(count) ==
             [n \in DOMAIN value[v] |->
                 IF \E m \in 1 .. count : indices[m] = n - 1
                 THEN value[w][CHOOSE m \in 1 .. count : indices[m] = n - 1]
                 ELSE value[v][n]]
<1>5. PICK count \in 0 .. Len(indices) :
        /\ \A m \in 1 .. count : indices[m] < l
        /\ Become(WrittenRange(Heap, v, indices, w, count))
        /\ value' = [value EXCEPT ![v] = Changed(count)]
  BY DEF ModifyRange
<1> DEFINE h == WrittenRange(Heap, v, indices, w, count)
           s == Changed(count)
<1> HIDE DEF indices
<1>6. /\ count \in Nat /\ count <= Heap.arrays[w].length
      /\ \A j \in 1 .. count : indices[j] \in 0 .. Heap.arrays[v].length - 1
      /\ \A i, j \in 1 .. count : indices[i] = indices[j] => i = j
  <2>1. /\ count \in Nat /\ count <= arrays[w].length
        /\ \A j \in 1 .. count : j \in 1 .. Len(indices)
    BY <1>1, <1>2
  <2>2. \A j \in 1 .. count : indices[j] \in 0 .. l - 1
    BY <1>1, <1>2, <1>3, <1>5, <2>1
  <2> QED
    BY <1>1, <1>4, <2>1, <2>2
<1>7. HasWritten(h, Heap, v, indices, w, count)
  BY <1>1, <1>2, <1>6, RangeIsWritten
<1> HIDE DEF h
<1>8. /\ SoundHeap(h)
      /\ h.arrays[v].length = l
      /\ \A u \in Vars \ {v} : Elements(h, u) = Elements(Heap, u)
  BY <1>1, <1>7 DEF HasWritten
<1>9. DOMAIN value[v] = 1 .. l
  BY <1>1 DEF Elements
<1>10. \A n \in 1 .. l : Elements(h, v)[n] = s[n]
  <2> TAKE n \in 1 .. l
  <2>1. /\ \A j \in 1 .. count : indices[j] = n - 1 => Elements(h, v)[n] = value[w][j]
        /\ (\A j \in 1 .. count : indices[j] # n - 1) => Elements(h, v)[n] = value[v][n]
    BY <1>1, <1>7 DEF HasWritten
  <2>2. s[n] = IF \E m \in 1 .. count : indices[m] = n - 1
               THEN value[w][CHOOSE m \in 1 .. count : indices[m] = n - 1]
               ELSE value[v][n]
    BY <1>9
  <2> HIDE DEF s
  <2>3. CASE \E m \in 1 .. count : indices[m] = n - 1
    <3> DEFINE c == CHOOSE m \in 1 .. count : indices[m] = n - 1
    <3>1. c \in 1 .. count /\ indices[c] = n - 1
      BY <2>3
    <3>2. s[n] = value[w][c]
      BY <2>2, <2>3
    <3> HIDE DEF c
    <3> QED
      BY <2>1, <3>1, <3>2
  <2>4. CASE ~\E m \in 1 .. count : indices[m] = n - 1
    BY <2>1, <2>2, <2>4
  <2> QED
    BY <2>3, <2>4
<1>11. Elements(h, v) = s
  <2>1. Elements(h, v) = [n \in 1 .. l |-> Elements(h, v)[n]]
    BY <1>8 DEF Elements
  <2>2. s = [n \in 1 .. l |-> s[n]]
    BY <1>9
  <2> HIDE DEF s
  <2> QED
    BY <1>10, <2>1, <2>2
<1>12. Become(h) /\ value' = [value EXCEPT ![v] = s]
  BY <1>5 DEF h
<1> HIDE DEF s
<1> QED
  BY <1>2, <1>8, <1>11, <1>12, OneArrayChanges

-----------------------------------------------------------------------------
(* The theorems.                                                            *)

\* The empty arrays that a program starts with are sound.
LEMMA InitIsSound ==
    Init => Inv
<1> SUFFICES ASSUME Init PROVE Inv
  OBVIOUS
<1>1. PICK inner \in [Vars -> 1 .. Cardinality(Vars)] :
        /\ \A v \in Vars, w \in Vars : inner[v] = inner[w] => v = w
        /\ arrays = [v \in Vars |-> [inner |-> inner[v], start |-> 0, step |-> 1, length |-> 0]]
  BY DEF Init
<1>2. /\ inners = [n \in Inners |->
                    IF n = 0 THEN Unused ELSE [refCount |-> 1, storage |-> <<>>]]
      /\ value = [v \in Vars |-> <<>>]
      /\ outside = FALSE
  BY DEF Init
<1>3. Heap.arrays = arrays /\ Heap.inners = inners
  BY DEF Heap
<1>4. Cardinality(Vars) \in Nat
  BY ConstantsAssumption, FS_CardinalityType
<1>5. \A v \in Vars : inner[v] \in Inners /\ inner[v] # 0
  BY <1>1, <1>4 DEF Inners
<1>6. arrays \in [Vars -> Windows]
  BY <1>1, <1>5 DEF Windows
<1>7. inners \in [Inners -> InnerArrays]
  BY <1>2, EmptySeq DEF InnerArrays, Unused
<1>8. \A v \in Vars : arrays[v].length = 0 /\ arrays[v].inner = inner[v]
  BY <1>1
<1>9. \A v \in Vars : Fits(arrays[v], Storage(Heap, v))
  BY <1>8 DEF Fits
<1>10. \A v \in Vars : Elements(Heap, v) = <<>>
  BY <1>3, <1>8 DEF Elements
<1>11. \A n \in Inners : Cardinality(Pointers(Heap, n)) <= inners[n].refCount
  <2> TAKE n \in Inners
  <2>1. CASE n = 0
    <3>1. Pointers(Heap, n) = {}
      BY <1>3, <1>5, <1>8, <2>1 DEF Pointers
    <3>2. inners[n].refCount = 0
      BY <1>2, <2>1 DEF Unused
    <3> QED
      BY <3>1, <3>2, FS_EmptySet
  <2>2. CASE n # 0
    <3>1. inners[n].refCount = 1
      BY <1>2, <2>2
    <3>2. CASE \E v \in Vars : inner[v] = n
      <4>1. PICK v \in Vars : inner[v] = n
        BY <3>2
      <4>2. Pointers(Heap, n) = {v}
        BY <1>1, <1>3, <1>8, <4>1 DEF Pointers
      <4>3. Cardinality(Pointers(Heap, n)) = 1
        BY <4>2, FS_Singleton
      <4> QED
        BY <3>1, <4>3
    <3>3. CASE ~\E v \in Vars : inner[v] = n
      <4>1. Pointers(Heap, n) = {}
        BY <1>3, <1>8, <3>3 DEF Pointers
      <4>2. Cardinality(Pointers(Heap, n)) = 0
        BY <4>1, FS_EmptySet
      <4> QED
        BY <3>1, <4>2
    <3> QED
      BY <3>2, <3>3
  <2> QED
    BY <2>1, <2>2
<1>12. SoundHeap(Heap)
  BY <1>3, <1>6, <1>7, <1>9, <1>11 DEF SoundHeap
<1> QED
  BY <1>2, <1>10, <1>12 DEF Inv

\* Every step keeps the invariant, if no index is negative and no array is updated from
\* itself.
LEMMA StepKeepsInv ==
    ASSUME Inv, MinIndex \in Nat, ~SelfUpdates, [Next]_vars
    PROVE  Inv'
<1>1. ASSUME NEW v \in Vars, NEW n \in 0 .. MaxLength, NEW s \in [1 .. n -> Values], New(v, s)
      PROVE  Inv'
  BY <1>1, NewKeepsInv
<1>2. ASSUME NEW v \in Vars, NEW w \in Vars, Copy(v, w)
      PROVE  Inv'
  BY <1>2, CopyKeepsInv
<1>3. ASSUME NEW v \in Vars, NEW w \in Vars, NEW r \in Ranges, Slice(v, w, r)
      PROVE  Inv'
  BY <1>3, SliceKeepsInv
<1>4. ASSUME NEW v \in Vars, NEW w \in Vars, NEW u \in Vars, Add(v, w, u)
      PROVE  Inv'
  BY <1>4, AddKeepsInv
<1>5. ASSUME NEW v \in Vars, NEW w \in Vars, NEW u \in Vars, AddInterfaces(v, w, u)
      PROVE  Inv'
  BY <1>5, AddInterfacesKeepsInv
<1>6. ASSUME NEW v \in Vars, NEW i \in MinIndex .. MaxLength - 1, NEW x \in Values,
             Modify(v, i, x)
      PROVE  Inv'
  BY <1>6, ModifyKeepsInv
<1>7. ASSUME NEW v \in Vars, NEW w \in Vars, NEW r \in Ranges, ModifyRange(v, r, w)
      PROVE  Inv'
  BY <1>7, ModifyRangeKeepsInv
<1>8. ASSUME NEW w \in Vars, NEW u \in Vars, AddThrows(w, u)
      PROVE  Inv'
  BY <1>8, AddThrowsKeepsInv
<1>9. CASE UNCHANGED vars
  BY <1>9 DEF vars, Inv, Heap
<1> QED
  BY <1>1, <1>2, <1>3, <1>4, <1>5, <1>6, <1>7, <1>8, <1>9 DEF Next

\* The inductive invariant holds in every reachable state.
THEOREM HeapIsSound ==
    ASSUME MinIndex \in Nat, ~SelfUpdates
    PROVE  Spec => []Inv
<1>1. Init => Inv
  BY InitIsSound
<1>2. Inv /\ [Next]_vars => Inv'
  BY StepKeepsInv
<1> QED
  BY <1>1, <1>2, PTL DEF Spec

\* Every window lies within its inner array.
THEOREM WindowsFit ==
    ASSUME MinIndex \in Nat, ~SelfUpdates
    PROVE  Spec => []TypeOK
<1>1. Inv => TypeOK
  <2> SUFFICES ASSUME Inv PROVE TypeOK
    OBVIOUS
  <2>1. SoundHeap(Heap) /\ Heap.arrays = arrays /\ Heap.inners = inners /\ outside \in BOOLEAN
    BY DEF Inv, Heap
  <2>2. ASSUME NEW v \in Vars
        PROVE  /\ arrays[v].inner \in Inners /\ arrays[v].length \in Nat
               /\ arrays[v].length > 0 =>
                    {arrays[v].start, ConvertIndex(arrays[v], arrays[v].length - 1)}
                        \subseteq 0 .. Len(Storage(Heap, v)) - 1
    <3>1. /\ arrays[v] \in Windows /\ arrays[v].inner \in Inners /\ arrays[v].length \in Nat
          /\ Fits(arrays[v], Storage(Heap, v))
      BY <2>1, SoundArray
    <3> SUFFICES ASSUME arrays[v].length > 0
                 PROVE  {arrays[v].start, ConvertIndex(arrays[v], arrays[v].length - 1)}
                            \subseteq 0 .. Len(Storage(Heap, v)) - 1
      BY <3>1
    <3>2. 0 \in 0 .. arrays[v].length - 1 /\ arrays[v].length - 1 \in 0 .. arrays[v].length - 1
      BY <3>1
    <3>3. ConvertIndex(arrays[v], 0) = arrays[v].start
      BY <3>1 DEF ConvertIndex, Windows
    <3> QED
      BY <3>1, <3>2, <3>3 DEF Fits
  <2>3. \A n \in Inners : inners[n].refCount \in Nat /\ inners[n].storage \in Seq(Values)
    BY <2>1 DEF SoundHeap, InnerArrays
  <2> QED
    BY <2>1, <2>2, <2>3 DEF TypeOK
<1> QED
  BY <1>1, HeapIsSound, PTL

\* However arrays share their inner arrays, each reads as if it had its own.
THEOREM ArraysAreValues ==
    ASSUME MinIndex \in Nat, ~SelfUpdates
    PROVE  Spec => []ValueSemantics
<1>1. Inv => ValueSemantics
  BY DEF Inv, ValueSemantics
<1> QED
  BY <1>1, HeapIsSound, PTL

\* An inner array counts at least the arrays that point to it.
THEOREM ReferencesAreCounted ==
    ASSUME MinIndex \in Nat, ~SelfUpdates
    PROVE  Spec => []ReferencesCounted
<1>1. Inv => ReferencesCounted
  <2> SUFFICES ASSUME Inv, NEW n \in Inners
               PROVE  inners[n].refCount >= Cardinality({v \in Vars : arrays[v].inner = n})
    BY DEF ReferencesCounted
  <2>1. Heap.arrays = arrays /\ Heap.inners = inners
    BY DEF Heap
  <2>2. Cardinality(Pointers(Heap, n)) <= inners[n].refCount
    BY <2>1 DEF Inv, SoundHeap
  <2>3. Pointers(Heap, n) = {v \in Vars : arrays[v].inner = n}
    BY <2>1 DEF Pointers
  <2>4. inners[n].refCount \in Nat /\ Cardinality(Pointers(Heap, n)) \in Nat
    BY <2>1, PointersFinite DEF Inv, SoundHeap, InnerArrays
  <2> QED
    BY <2>2, <2>3, <2>4
<1> QED
  BY <1>1, HeapIsSound, PTL
=============================================================================
