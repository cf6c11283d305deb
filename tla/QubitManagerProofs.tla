------------------------- MODULE QubitManagerProofs -------------------------
(***************************************************************************)
(* Theorems about QubitManager, and about CommonNativeSimulator over it,   *)
(* for every capacity, option and bound.                                   *)
(*                                                                         *)
(* First lemmas: what one allocation and one release do to the pool of     *)
(* qubits, the shapes of the operation stack and of the loop in progress,  *)
(* the inductive invariant IInv, the effect of each action in terms of it, *)
(* and its part about ownership.                                           *)
(*                                                                         *)
(* Then the theorems: IInv holds, and with it exclusive ownership, exact   *)
(* reference counts, locals and free list; and what the manager promises   *)
(* beyond ownership: types, exact counters, loans of idle qubits only, a   *)
(* borrow that finds the qubits it counted, calls that throw taking        *)
(* nothing, and the pool that it implements.                               *)
(*                                                                         *)
(* Last, the ids of the manager and the qubits of the native library stay  *)
(* paired.  A QSimQubitManager always reuses the qubit released last: its  *)
(* constructor (CommonNativeSimulator/QubitManager.cs:21) leaves           *)
(* encourageReuse at its default.  That is the hypothesis EncourageReuse   *)
(* of these lemmas: it is what makes the ids that were never used come out *)
(* of the free list in order, so that the library, which takes an id       *)
(* beyond its map for the next one, agrees with the manager on what the    *)
(* new qubit is called.                                                    *)
(***************************************************************************)
EXTENDS CommonNativeSimulator, SequenceTheorems, FiniteSetTheorems, TLAPS

-----------------------------------------------------------------------------
(* The pool                                                                 *)

PoolTyping ==
    /\ NumQubits \in Nat \ {0}
    /\ NumAllocatedQubits \in Int /\ NumDisabledQubits \in Int
    /\ qubits \in [Ids -> Nat]
    /\ free \in 0 .. NumQubits /\ freeTail \in Ids

\* What an id is used for, whatever the capacity: 0 is free, 1 allocated,
\* 2 disabled, and 2 + n allocated for n borrowers.
Mark(id) == IF id \in Ids /\ ~IsFree(id) THEN qubits[id] - NumQubits ELSE 0

\* Linked and the rest of FreeListExact, for a list given as a function.
ListOf(n, s) ==
    /\ s \in [1 .. n -> Ids]
    /\ \A i, j \in 1 .. n : s[i] = s[j] => i = j
    /\ free = IF n = 0 THEN None ELSE s[1]
    /\ \A i \in 1 .. n : qubits[s[i]] = IF i = n THEN None ELSE s[i + 1]
    /\ ~Discards => \A id \in Ids : Mark(id) = 0 => \E i \in 1 .. n : s[i] = id
    /\ ~EncourageReuse /\ ~MayExtendCapacity =>
        IF n = 0 THEN qubits[freeTail] # None ELSE freeTail = s[n]

ListInv == \E n \in Nat : \E s : ListOf(n, s)

PoolInv == PoolTyping /\ ListInv

\* What each marker looks like through Mark.
LEMMA MarkMeaning ==
    ASSUME PoolTyping
    PROVE  \A id \in Nat :
            /\ Mark(id) \in Nat
            /\ Mark(id) # 0 => id \in Ids
            /\ id \in Ids =>
                /\ IsFree(id) <=> Mark(id) = 0
                /\ qubits[id] = Allocated <=> Mark(id) = 1
                /\ IsDisabled(id) <=> Mark(id) = 2
                /\ IsAllocatedForBorrowing(id) <=> Mark(id) >= 3
                /\ Mark(id) > 0 => Mark(id) = qubits[id] - NumQubits
BY DEF PoolTyping, Mark, Ids, IsFree, IsDisabled, IsAllocatedForBorrowing, Allocated,
       AllocatedAt, Disabled, DisabledAt, AllocatedForBorrowing, AllocatedForBorrowingAt

\* Elements of the free list are free.
LEMMA ListedIsFree ==
    ASSUME PoolTyping, NEW n \in Nat, NEW s, ListOf(n, s), NEW i \in 1 .. n
    PROVE  s[i] \in Ids /\ IsFree(s[i]) /\ Mark(s[i]) = 0
<1>1. s[i] \in Ids
  BY DEF ListOf
<1>2. qubits[s[i]] \in 0 .. NumQubits
  <2>1. CASE i = n
    BY <2>1 DEF ListOf, PoolTyping, None, NoneAt
  <2>2. CASE i # n
    <3>1. i + 1 \in 1 .. n
      BY <2>2
    <3>2. s[i + 1] \in Ids /\ qubits[s[i]] = s[i + 1]
      BY <2>2, <3>1 DEF ListOf
    <3> QED  BY <3>2 DEF PoolTyping, Ids
  <2> QED  BY <2>1, <2>2
<1> QED  BY <1>1, <1>2 DEF Mark, IsFree, PoolTyping, Allocated, AllocatedAt

\* The entries of the doubled array.
LEMMA GrownType ==
    ASSUME PoolTyping
    PROVE  /\ GrownQubits \in [0 .. 2 * NumQubits - 1 -> Nat]
           /\ \A id \in Ids : GrownQubits[id] = Moved(qubits[id])
           /\ \A id \in NumQubits .. 2 * NumQubits - 1 : GrownQubits[id] = id + 1
<1>1. \A id \in Ids : Moved(qubits[id]) \in Nat
  BY DEF PoolTyping, Moved, None, NoneAt, Allocated, AllocatedAt, Disabled, DisabledAt,
         AllocatedForBorrowing, AllocatedForBorrowingAt
<1>2. ASSUME NEW id \in 0 .. 2 * NumQubits - 1
      PROVE  (IF id >= NumQubits THEN id + 1 ELSE Moved(qubits[id])) \in Nat
  BY <1>1 DEF Ids, PoolTyping
<1>3. GrownQubits \in [0 .. 2 * NumQubits - 1 -> Nat]
  BY <1>2 DEF GrownQubits
<1> QED  BY <1>3 DEF GrownQubits, Ids, PoolTyping

\* One Allocate(bool): a free id, possibly a new one, gets its marker, and no
\* other id changes its use, although doubling the capacity rewrites them all.
LEMMA AllocateOneEffect ==
    ASSUME PoolInv, NEW id \in Nat, NEW usedOnlyForBorrowing \in BOOLEAN,
           AllocateOne(id, usedOnlyForBorrowing)
    PROVE  /\ PoolInv'
           /\ id \in Ids' /\ Mark(id) = 0
           /\ \A x \in Nat : Mark(x)' = IF x = id THEN IF usedOnlyForBorrowing THEN 3 ELSE 1
                                        ELSE Mark(x)
           /\ NumAllocatedQubits' = NumAllocatedQubits + 1
           /\ NumDisabledQubits' = NumDisabledQubits
           /\ Ids \subseteq Ids'
<1>0. PICK n \in Nat : \E s : ListOf(n, s)
  BY DEF PoolInv, ListInv
<1>1. PICK s : ListOf(n, s)
  BY <1>0
<1>2. CASE free # None
  <2>1. /\ n > 0 /\ id = s[1] /\ id \in Ids /\ Mark(id) = 0 /\ IsFree(id)
        /\ NumQubits' = NumQubits /\ freeTail' = freeTail
        /\ free' = qubits[id]
        /\ qubits' = [qubits EXCEPT ![id] = IF usedOnlyForBorrowing THEN NumQubits + 3
                                            ELSE NumQubits + 1]
        /\ NumAllocatedQubits' = NumAllocatedQubits + 1
        /\ NumDisabledQubits' = NumDisabledQubits
    BY <1>1, <1>2, ListedIsFree DEF AllocateOne, TakeHead, ListOf, PoolInv, AllocatedAt,
       AllocatedForBorrowingAt
  <2>2. PoolTyping'
    <3>1. free' \in 0 .. NumQubits
      BY <1>1, <2>1 DEF ListOf, Ids, None, NoneAt, PoolInv, PoolTyping
    <3> QED  BY <2>1, <3>1 DEF PoolInv, PoolTyping, Ids
  <2>3. \A x \in Nat : Mark(x)' = IF x = id THEN IF usedOnlyForBorrowing THEN 3 ELSE 1
                                  ELSE Mark(x)
    BY <2>1 DEF Mark, PoolInv, PoolTyping, Ids, IsFree, Allocated, AllocatedAt
  <2>4. ListInv'
    <3> DEFINE t == [i \in 1 .. n - 1 |-> s[i + 1]]
    <3>1. ListOf(n - 1, t)'
      <4>1. t \in [1 .. n - 1 -> Ids']
        BY <1>1, <2>1 DEF ListOf, Ids
      <4>2. \A i, j \in 1 .. n - 1 : t[i] = t[j] => i = j
        BY <1>1, <2>1 DEF ListOf
      <4>3. \A i \in 1 .. n - 1 : t[i] # id
        BY <1>1, <2>1 DEF ListOf
      <4>4. free' = IF n - 1 = 0 THEN None' ELSE t[1]
        BY <1>1, <2>1 DEF ListOf, None, NoneAt
      <4>5. \A i \in 1 .. n - 1 : qubits'[t[i]] = IF i = n - 1 THEN None' ELSE t[i + 1]
        BY <1>1, <2>1, <4>3 DEF ListOf, None, NoneAt, PoolInv, PoolTyping
      <4>6. ~Discards => \A x \in Ids' : Mark(x)' = 0 => \E i \in 1 .. n - 1 : t[i] = x
        <5> SUFFICES ASSUME ~Discards, NEW x \in Ids, Mark(x)' = 0
                     PROVE  \E i \in 1 .. n - 1 : t[i] = x
          BY <2>1 DEF Ids
        <5>1. Mark(x) = 0 /\ x # id
          BY <2>3 DEF Ids
        <5>2. PICK k \in 1 .. n : s[k] = x
          BY <1>1, <5>1 DEF ListOf
        <5>3. k - 1 \in 1 .. n - 1 /\ t[k - 1] = x
          BY <2>1, <5>1, <5>2
        <5> QED  BY <5>3
      <4>7. ~EncourageReuse /\ ~MayExtendCapacity =>
             IF n - 1 = 0 THEN qubits'[freeTail'] # None' ELSE freeTail' = t[n - 1]
        BY <1>1, <2>1 DEF ListOf, None, NoneAt, PoolInv, PoolTyping
      <4> QED  BY <4>1, <4>2, <4>4, <4>5, <4>6, <4>7 DEF ListOf, Discards
    <3> HIDE DEF t
    <3> QED  BY <2>1, <3>1 DEF ListInv
  <2> QED  BY <2>1, <2>2, <2>3, <2>4 DEF PoolInv, Ids
<1>3. CASE free = None
  <2>0. PICK N \in Nat : N = NumQubits
    BY DEF PoolInv, PoolTyping
  <2>1. /\ MayExtendCapacity /\ id = N
        /\ NumQubits' = 2 * N /\ freeTail' = 2 * N - 1
        /\ free' = GrownQubits[id]
        /\ qubits' = [GrownQubits EXCEPT ![id] = IF usedOnlyForBorrowing THEN 2 * N + 3
                                                 ELSE 2 * N + 1]
        /\ NumAllocatedQubits' = NumAllocatedQubits + 1
        /\ NumDisabledQubits' = NumDisabledQubits
    BY <1>3, <2>0 DEF AllocateOne, TakeHead, AllocatedAt, AllocatedForBorrowingAt
  <2>2. N = NumQubits /\ N \in Nat \ {0} /\ id \in Ids' /\ id \notin Ids /\ Ids \subseteq Ids'
    BY <2>0, <2>1 DEF PoolInv, PoolTyping, Ids
  <2>3. /\ qubits' \in [Ids' -> Nat]
        /\ \A x \in Ids : qubits'[x] = Moved(qubits[x])
        /\ \A x \in N + 1 .. 2 * N - 1 : qubits'[x] = x + 1
        /\ qubits'[id] = IF usedOnlyForBorrowing THEN 2 * N + 3 ELSE 2 * N + 1
        /\ free' = N + 1
    BY <2>1, <2>2, GrownType DEF PoolInv, Ids
  <2>4. PoolTyping'
    BY <2>1, <2>2, <2>3 DEF PoolInv, PoolTyping, Ids
  <2>5. ASSUME NEW x \in Ids
        PROVE  Mark(x)' = Mark(x)
    <3>1. Mark(x) = IF qubits[x] <= N THEN 0 ELSE qubits[x] - N
      BY <2>2 DEF Mark, IsFree, Allocated, AllocatedAt, PoolInv, PoolTyping
    <3>2. Moved(qubits[x]) = IF qubits[x] < N THEN 0 ELSE IF qubits[x] = N THEN N ELSE qubits[x] + N
      BY <2>2 DEF Moved, PoolInv, PoolTyping, None, NoneAt, Allocated,
         AllocatedAt, Disabled, DisabledAt, AllocatedForBorrowing, AllocatedForBorrowingAt
    <3>3. Mark(x)' = IF qubits'[x] <= 2 * N THEN 0 ELSE qubits'[x] - 2 * N
      BY <2>1, <2>2, <2>4, x \in Ids' DEF Mark, IsFree, Allocated, AllocatedAt, PoolTyping
    <3> QED  BY <2>2, <2>3, <3>1, <3>2, <3>3 DEF PoolInv, PoolTyping
  <2>6. \A x \in Nat \ Ids : Mark(x)' = IF x = id THEN IF usedOnlyForBorrowing THEN 3 ELSE 1
                                        ELSE Mark(x)
    BY <2>1, <2>2, <2>3 DEF Mark, IsFree, Ids, Allocated, AllocatedAt
  <2>7. ListInv'
    <3> DEFINE t == [i \in 1 .. N - 1 |-> N + i]
    <3>0. n = 0
      BY <1>1, <1>3, <2>2 DEF ListOf, Ids, None, NoneAt
    <3>1. ListOf(N - 1, t)'
      <4>1. t \in [1 .. N - 1 -> Ids']
        BY <2>1, <2>2 DEF Ids
      <4>2. \A i, j \in 1 .. N - 1 : t[i] = t[j] => i = j
        BY <2>2
      <4>4. free' = IF N - 1 = 0 THEN None' ELSE t[1]
        BY <2>1, <2>2, <2>3 DEF None, NoneAt
      <4>5. \A i \in 1 .. N - 1 : qubits'[t[i]] = IF i = N - 1 THEN None' ELSE t[i + 1]
        <5> SUFFICES ASSUME NEW i \in 1 .. N - 1
                     PROVE  qubits'[t[i]] = IF i = N - 1 THEN None' ELSE t[i + 1]
          OBVIOUS
        <5>1. t[i] = N + i /\ qubits'[N + i] = N + i + 1
          BY <2>2, <2>3
        <5>2. i # N - 1 => t[i + 1] = N + (i + 1)
          BY <2>2
        <5> QED  BY <2>1, <2>2, <5>1, <5>2 DEF None, NoneAt
      <4>6. ~Discards => \A x \in Ids' : Mark(x)' = 0 => \E i \in 1 .. N - 1 : t[i] = x
        <5> SUFFICES ASSUME ~Discards, NEW x \in Ids', Mark(x)' = 0
                     PROVE  \E i \in 1 .. N - 1 : t[i] = x
          OBVIOUS
        <5>1. x \notin Ids
          BY <1>1, <2>5, <3>0 DEF ListOf
        <5>2. x # id
          BY <2>2, <2>6 DEF Ids
        <5>3. x - N \in 1 .. N - 1 /\ t[x - N] = x
          BY <2>1, <2>2, <5>1, <5>2 DEF Ids
        <5> QED  BY <5>3
      <4> QED  BY <2>1, <4>1, <4>2, <4>4, <4>5, <4>6 DEF ListOf, Discards
    <3> HIDE DEF t
    <3> QED  BY <2>2, <3>1, N - 1 \in Nat DEF ListInv
  <2>8. Mark(id) = 0
    BY <2>2 DEF Mark
  <2> QED  BY <2>1, <2>2, <2>4, <2>5, <2>6, <2>7, <2>8 DEF PoolInv
<1> QED  BY <1>2, <1>3

\* One Release(qubit): an id in use becomes free, and nothing else changes its use.
LEMMA ReleaseOneEffect ==
    ASSUME PoolInv, NEW id \in Nat, Mark(id) # 0, ReleaseOne(id)
    PROVE  /\ PoolInv'
           /\ \A x \in Nat : Mark(x)' = IF x = id THEN 0 ELSE Mark(x)
           /\ NumAllocatedQubits' = NumAllocatedQubits - 1
           /\ NumDisabledQubits' = NumDisabledQubits
           /\ NumQubits' = NumQubits /\ Ids' = Ids
<1>0. PICK n \in Nat : \E s : ListOf(n, s)
  BY DEF PoolInv, ListInv
<1>1. PICK s : ListOf(n, s)
  BY <1>0
<1>2. PICK N \in Nat \ {0} : N = NumQubits
  BY DEF PoolInv, PoolTyping
<1>3. /\ id \in Ids /\ qubits[id] > N
      /\ NumQubits' = N /\ Ids' = Ids /\ None' = N /\ None = N
      /\ NumAllocatedQubits' = NumAllocatedQubits - 1
      /\ NumDisabledQubits' = NumDisabledQubits
  BY <1>2 DEF Mark, IsFree, Allocated, AllocatedAt, ReleaseOne, Ids, PoolInv, PoolTyping, None, NoneAt
<1>4. \A i \in 1 .. n : s[i] # id /\ s[i] \in Ids /\ qubits[s[i]] <= N
  <2> SUFFICES ASSUME NEW i \in 1 .. n
               PROVE  s[i] # id /\ s[i] \in Ids /\ qubits[s[i]] <= N
    OBVIOUS
  <2>1. i # n => i + 1 \in 1 .. n /\ s[i + 1] \in Ids
    BY <1>1 DEF ListOf
  <2> QED  BY <1>1, <1>2, <1>3, <2>1 DEF ListOf, Ids
<1>5. CASE PushFree(id)
  <2>1. /\ qubits' = [qubits EXCEPT ![id] = free] /\ free' = id /\ freeTail' = freeTail
        /\ EncourageReuse
    BY <1>5 DEF PushFree
  <2>2. PoolTyping'
    BY <1>2, <1>3, <2>1 DEF PoolInv, PoolTyping, Ids
  <2>3. \A x \in Nat : Mark(x)' = IF x = id THEN 0 ELSE Mark(x)
    BY <1>2, <1>3, <2>1 DEF Mark, IsFree, Allocated, AllocatedAt, PoolInv, PoolTyping
  <2>4. ListInv'
    <3> DEFINE t == [i \in 1 .. n + 1 |-> IF i = 1 THEN id ELSE s[i - 1]]
    <3>1. t \in [1 .. n + 1 -> Ids']
      BY <1>3, <1>4
    <3>2. \A i, j \in 1 .. n + 1 : t[i] = t[j] => i = j
      BY <1>1, <1>4 DEF ListOf
    <3>3. \A i \in 1 .. n + 1 : qubits'[t[i]] = IF i = n + 1 THEN N ELSE t[i + 1]
      <4> SUFFICES ASSUME NEW i \in 1 .. n + 1
                   PROVE  qubits'[t[i]] = IF i = n + 1 THEN N ELSE t[i + 1]
        OBVIOUS
      <4>1. CASE i = 1
        BY <1>1, <1>3, <2>1, <4>1 DEF ListOf, PoolInv, PoolTyping
      <4>2. CASE i # 1
        <5>1. i - 1 \in 1 .. n /\ t[i] = s[i - 1] /\ (i # n + 1 => t[i + 1] = s[i])
          BY <4>2
        <5>2. qubits'[s[i - 1]] = qubits[s[i - 1]]
          BY <1>4, <2>1, <5>1 DEF PoolInv, PoolTyping
        <5> QED  BY <1>1, <1>3, <4>2, <5>1, <5>2 DEF ListOf
      <4> QED  BY <4>1, <4>2
    <3>4. \A x \in Ids : Mark(x)' = 0 /\ ~Discards => \E i \in 1 .. n + 1 : t[i] = x
      <4> SUFFICES ASSUME NEW x \in Ids, Mark(x)' = 0, ~Discards
                   PROVE  \E i \in 1 .. n + 1 : t[i] = x
        OBVIOUS
      <4>1. CASE x = id
        BY <4>1, t[1] = id, 1 \in 1 .. n + 1
      <4>2. CASE x # id
        <5>1. PICK k \in 1 .. n : s[k] = x
          BY <1>1, <2>3, <4>2 DEF ListOf, Ids
        <5>2. k + 1 \in 1 .. n + 1 /\ t[k + 1] = x
          BY <5>1
        <5> QED  BY <5>2
      <4> QED  BY <4>1, <4>2
    <3>5. t[1] = id
      OBVIOUS
    <3> HIDE DEF t
    <3>6. ListOf(n + 1, t)'
      BY <1>3, <2>1, <3>1, <3>2, <3>3, <3>4, <3>5 DEF ListOf, Discards
    <3> QED  BY <3>6, n + 1 \in Nat DEF ListInv
  <2> QED  BY <1>2, <1>3, <2>2, <2>3, <2>4 DEF PoolInv
<1>6. CASE DropFree(id)
  <2>1. /\ qubits' = [qubits EXCEPT ![id] = N] /\ free' = free /\ freeTail' = id
        /\ Discards
    BY <1>2, <1>3, <1>6 DEF DropFree, Discards
  <2>2. PoolTyping'
    BY <1>2, <1>3, <2>1 DEF PoolInv, PoolTyping, Ids
  <2>3. \A x \in Nat : Mark(x)' = IF x = id THEN 0 ELSE Mark(x)
    BY <1>2, <1>3, <2>1 DEF Mark, IsFree, Allocated, AllocatedAt, PoolInv, PoolTyping
  <2>4. ListOf(n, s)'
    <3>1. \A i \in 1 .. n : qubits'[s[i]] = qubits[s[i]]
      BY <1>4, <2>1 DEF PoolInv, PoolTyping
    <3> QED  BY <1>1, <1>3, <2>1, <3>1 DEF ListOf, Discards
  <2> QED  BY <1>2, <1>3, <2>2, <2>3, <2>4 DEF PoolInv, ListInv
<1>7. CASE AppendFree(id)
  <2>1. /\ qubits' = IF n = 0 THEN [qubits EXCEPT ![id] = N]
                     ELSE [qubits EXCEPT ![s[n]] = id, ![id] = N]
        /\ free' = IF n = 0 THEN id ELSE free
        /\ freeTail' = id
        /\ n # 0 => n \in 1 .. n
        /\ ~EncourageReuse /\ ~MayExtendCapacity
    BY <1>1, <1>2, <1>3, <1>7 DEF AppendFree, ListOf
  <2>5. n # 0 => s[n] \in Ids /\ s[n] # id /\ qubits[s[n]] <= N
    BY <1>4, <2>1
  <2>6. /\ qubits' \in [Ids -> Nat]
        /\ \A x \in Ids : qubits'[x] = IF x = id THEN N ELSE IF n # 0 /\ x = s[n] THEN id
                                        ELSE qubits[x]
    BY <1>2, <1>3, <2>1, <2>5 DEF PoolInv, PoolTyping
  <2>2. PoolTyping'
    <3>1. free' \in 0 .. N /\ freeTail' \in Ids
      BY <1>2, <1>3, <2>1 DEF PoolInv, PoolTyping, Ids
    <3> QED  BY <1>2, <1>3, <2>6, <3>1 DEF PoolInv, PoolTyping
  <2>3. \A x \in Nat : Mark(x)' = IF x = id THEN 0 ELSE Mark(x)
    <3>1. \A x \in Ids : IF qubits'[x] <= N THEN qubits[x] <= N \/ x = id
                          ELSE qubits'[x] = qubits[x] /\ x # id
      BY <1>2, <1>3, <2>5, <2>6 DEF Ids
    <3>2. \A x \in Ids : qubits[x] <= N /\ x # id => qubits'[x] <= N
      BY <1>2, <1>3, <2>5, <2>6 DEF Ids
    <3>3. \A x \in Ids : /\ Mark(x) = IF qubits[x] <= N THEN 0 ELSE qubits[x] - N
                         /\ Mark(x)' = IF qubits'[x] <= N THEN 0 ELSE qubits'[x] - N
      BY <1>2, <1>3, <2>6 DEF Mark, IsFree, Allocated, AllocatedAt, PoolInv, PoolTyping
    <3> QED  BY <1>2, <1>3, <2>6, <3>1, <3>2, <3>3 DEF Mark
  <2>4. ListInv'
    <3> DEFINE t == [i \in 1 .. n + 1 |-> IF i = n + 1 THEN id ELSE s[i]]
    <3>1. t \in [1 .. n + 1 -> Ids']
      BY <1>3, <1>4
    <3>2. \A i, j \in 1 .. n + 1 : t[i] = t[j] => i = j
      BY <1>1, <1>4 DEF ListOf
    <3>3. \A i \in 1 .. n + 1 : qubits'[t[i]] = IF i = n + 1 THEN N ELSE t[i + 1]
      <4> SUFFICES ASSUME NEW i \in 1 .. n + 1
                   PROVE  qubits'[t[i]] = IF i = n + 1 THEN N ELSE t[i + 1]
        OBVIOUS
      <4>1. CASE i = n + 1
        BY <1>3, <1>4, <2>1, <4>1 DEF PoolInv, PoolTyping
      <4>2. CASE i = n
        BY <1>3, <1>4, <2>1, <4>2 DEF PoolInv, PoolTyping
      <4>3. CASE i \in 1 .. n - 1
        <5>1. s[i] # s[n] /\ s[i] # id /\ i \in 1 .. n /\ n \in 1 .. n
          BY <1>1, <1>4, <4>3 DEF ListOf
        <5>2. qubits'[s[i]] = qubits[s[i]]
          BY <1>4, <2>1, <4>3, <5>1 DEF PoolInv, PoolTyping
        <5> QED  BY <1>1, <4>3, <5>1, <5>2 DEF ListOf
      <4> QED  BY <4>1, <4>2, <4>3
    <3>4. \A x \in Ids : Mark(x)' = 0 /\ ~Discards => \E i \in 1 .. n + 1 : t[i] = x
      <4> SUFFICES ASSUME NEW x \in Ids, Mark(x)' = 0, ~Discards
                   PROVE  \E i \in 1 .. n + 1 : t[i] = x
        OBVIOUS
      <4>1. CASE x = id
        BY <4>1, t[n + 1] = id, n + 1 \in 1 .. n + 1
      <4>2. CASE x # id
        <5>1. PICK k \in 1 .. n : s[k] = x
          BY <1>1, <2>3, <4>2 DEF ListOf, Ids
        <5>2. k \in 1 .. n + 1 /\ t[k] = x
          BY <5>1
        <5> QED  BY <5>2
      <4> QED  BY <4>1, <4>2
    <3>5. t[n + 1] = id /\ (n # 0 => t[1] = s[1]) /\ (n = 0 => t[1] = id)
      OBVIOUS
    <3> HIDE DEF t
    <3>6. free' = IF n + 1 = 0 THEN N ELSE t[1]
      BY <1>1, <2>1, <3>5 DEF ListOf
    <3>8. IF n + 1 = 0 THEN qubits'[freeTail'] # N ELSE freeTail' = t[n + 1]
      BY <2>1, <3>5
    <3>9. ~Discards => \A x \in Ids' : Mark(x)' = 0 => \E i \in 1 .. n + 1 : t[i] = x
      BY <1>3, <3>4
    <3>7. ListOf(n + 1, t)'
      BY <1>3, <3>1, <3>2, <3>3, <3>6, <3>8, <3>9 DEF ListOf, Discards
    <3> QED  BY <3>7, n + 1 \in Nat DEF ListInv
  <2> QED  BY <1>2, <1>3, <2>2, <2>3, <2>4 DEF PoolInv
<1> QED  BY <1>5, <1>6, <1>7 DEF ReleaseOne

\* Disabling a qubit in use, or counting its borrowers, leaves the free list alone.
LEMMA RemarkEffect ==
    ASSUME PoolInv, NEW id \in Nat, Mark(id) # 0, NEW marker \in Nat, marker > NumQubits,
           qubits' = [qubits EXCEPT ![id] = marker],
           UNCHANGED <<NumQubits, free, freeTail>>,
           NumAllocatedQubits' \in Int, NumDisabledQubits' \in Int
    PROVE  /\ PoolInv'
           /\ \A x \in Nat : Mark(x)' = IF x = id THEN marker - NumQubits ELSE Mark(x)
           /\ Ids' = Ids
<1>0. PICK n \in Nat : \E s : ListOf(n, s)
  BY DEF PoolInv, ListInv
<1>1. PICK s : ListOf(n, s)
  BY <1>0
<1>2. PICK N \in Nat \ {0} : N = NumQubits
  BY DEF PoolInv, PoolTyping
<1>3. id \in Ids /\ qubits[id] > N /\ Ids' = Ids /\ None' = N /\ None = N
  BY <1>2 DEF Mark, IsFree, Allocated, AllocatedAt, Ids, PoolInv, PoolTyping, None, NoneAt
<1>4. \A i \in 1 .. n : s[i] # id /\ s[i] \in Ids
  BY <1>1, <1>2, <1>3, ListedIsFree DEF PoolInv, PoolTyping, IsFree, Allocated, AllocatedAt
<1>5. PoolTyping'
  BY <1>2, <1>3 DEF PoolInv, PoolTyping
<1>6. \A x \in Nat : Mark(x)' = IF x = id THEN marker - NumQubits ELSE Mark(x)
  BY <1>2, <1>3 DEF Mark, IsFree, Allocated, AllocatedAt, PoolInv, PoolTyping
<1>7. ListOf(n, s)'
  <2>1. \A i \in 1 .. n : qubits'[s[i]] = qubits[s[i]]
    BY <1>4 DEF PoolInv, PoolTyping
  <2>2. \A x \in Ids : Mark(x)' = 0 => Mark(x) = 0
    BY <1>2, <1>3, <1>6 DEF Ids
  <2>3. qubits[freeTail] # N => qubits'[freeTail] # N
    BY <1>2, <1>3 DEF PoolInv, PoolTyping
  <2> QED  BY <1>1, <1>3, <2>1, <2>2, <2>3 DEF ListOf, Discards
<1> QED  BY <1>3, <1>5, <1>6, <1>7 DEF PoolInv, ListInv
-----------------------------------------------------------------------------
(* Shapes of the other variables, with natural numbers for ids             *)

Bag == UNION {[D -> Int] : D \in SUBSET Nat}

Frames == [args : SUBSET Nat, locals : Bag, used : SUBSET Nat, lent : SUBSET Nat,
           lost : SUBSET Nat]

\* quota is left open: it depends on the cardinality of a set.
CallShape == [op : {"idle", "allocate", "borrow"}, undoing : BOOLEAN, want : Nat,
              got : Seq(Nat), borrowed : Seq(Nat), quota : {call.quota},
              inUse : SUBSET Nat, before : SUBSET Nat]

Typing ==
    /\ operationStack \in Seq(Frames) /\ operationStack # <<>>
    /\ call \in CallShape
    /\ call.undoing => call.got # <<>>
    /\ orphans \in [used : SUBSET Nat, lent : {orphans.lent}]
    /\ DOMAIN orphans.lent \subseteq Nat
    /\ strays \subseteq Nat

\* A new frame has the type of one.
LEMMA FrameType ==
    ASSUME NEW args \in SUBSET Nat
    PROVE  Frame(args) \in Frames
<1>1. <<>> \in [{} -> Int]
  OBVIOUS
<1> QED  BY <1>1 DEF Frame, Frames, Bag

\* Counting one more reference to a local keeps the bag a bag.
LEMMA AddLocalType ==
    ASSUME NEW locals \in Bag, NEW id \in Nat
    PROVE  AddLocal(locals, id) \in Bag
<1>1. PICK D \in SUBSET Nat : locals \in [D -> Int]
  BY DEF Bag
<1>2. CASE DisableBorrowing
  BY <1>2 DEF AddLocal
<1>3. CASE ~DisableBorrowing
  <2>1. AddLocal(locals, id) \in [D \cup {id} -> Int]
    BY <1>1, <1>3 DEF AddLocal
  <2> QED  BY <2>1 DEF Bag
<1> QED  BY <1>2, <1>3

\* Counting one reference less keeps the bag a bag, whose counts stay positive.
LEMMA RemoveLocalType ==
    ASSUME NEW locals \in Bag, NEW id \in Nat
    PROVE  RemoveLocal(locals, id) \in Bag
<1>1. PICK D \in SUBSET Nat : locals \in [D -> Int]
  BY DEF Bag
<1>2. CASE DisableBorrowing
  BY <1>2 DEF RemoveLocal
<1>4. CASE ~DisableBorrowing /\ locals[id] # 1
  <2>1. RemoveLocal(locals, id) = [locals EXCEPT ![id] = @ - 1]
    BY <1>4 DEF RemoveLocal
  <2>2. CASE id \in D
    BY <1>1, <2>1, <2>2 DEF Bag
  <2>3. CASE id \notin D
    <3>1. [locals EXCEPT ![id] = @ - 1] = locals
      BY <1>1, <2>3
    <3> QED  BY <2>1, <3>1
  <2> QED  BY <2>2, <2>3
<1>3. CASE ~DisableBorrowing /\ locals[id] = 1
  <2>1. RemoveLocal(locals, id) \in [D \ {id} -> Int]
    BY <1>1, <1>3 DEF RemoveLocal, Restrict
  <2> QED  BY <2>1 DEF Bag
<1> QED  BY <1>2, <1>3, <1>4

\* Top is a frame, and replacing it by another leaves a stack of frames.
LEMMA TopType ==
    ASSUME Typing
    PROVE  /\ Len(operationStack) \in Nat \ {0}
           /\ Top \in Frames
           /\ \A frame \in Frames : SetTop(frame) =>
                /\ operationStack' \in Seq(Frames) /\ operationStack' # <<>>
                /\ Len(operationStack') = Len(operationStack)
                /\ Top' = frame
                /\ \A i \in 1 .. Len(operationStack) - 1 : operationStack'[i] = operationStack[i]
<1>1. Len(operationStack) \in Nat \ {0}
  BY EmptySeq DEF Typing
<1>2. Top \in Frames
  BY <1>1, ElementOfSeq DEF Typing, Top
<1>3. ASSUME NEW frame \in Frames, SetTop(frame)
      PROVE  /\ operationStack' \in Seq(Frames) /\ operationStack' # <<>>
             /\ Len(operationStack') = Len(operationStack)
             /\ Top' = frame
             /\ \A i \in 1 .. Len(operationStack) - 1 : operationStack'[i] = operationStack[i]
  <2>1. /\ operationStack' \in Seq(Frames)
        /\ Len(operationStack') = Len(operationStack)
        /\ \A j \in 1 .. Len(operationStack) :
              operationStack'[j] = IF j = Len(operationStack) THEN frame ELSE operationStack[j]
    BY <1>1, <1>3, ExceptSeq, Len(operationStack) \in 1 .. Len(operationStack) DEF Typing, SetTop
  <2> QED  BY <1>1, <2>1 DEF Top
<1> QED  BY <1>1, <1>2, <1>3

\* The shape of a sequence of ids, of its head and of its tail.
LEMMA RangeType ==
    ASSUME NEW s \in Seq(Nat)
    PROVE  /\ Range(s) \in SUBSET Nat
           /\ Len(s) \in Nat /\ DOMAIN s = 1 .. Len(s)
           /\ s # <<>> => /\ Head(s) \in Nat /\ Head(s) = s[1] /\ Len(s) > 0
                          /\ Tail(s) \in Seq(Nat) /\ Len(Tail(s)) = Len(s) - 1
           /\ s = <<>> => Range(s) = {}
BY HeadTailProperties, LenProperties, EmptySeq DEF Range

\* A sequence whose length is not 0 has a head.
LEMMA NonEmpty ==
    ASSUME NEW s \in Seq(Nat), Len(s) # 0
    PROVE  s # <<>>
<1>1. Len(<<>>) = 0
  OBVIOUS
<1> QED  BY <1>1

\* A step is a step of one of the actions, whatever set its arguments come from.
LEMMA NextCases ==
    ASSUME PoolTyping, Next
    PROVE  \/ \E n \in Nat : BeginAllocate(n) \/ BeginBorrow(n)
           \/ \E id \in Nat : \/ AllocateNext(id) \/ Release(id) \/ Disable(id)
                              \/ BorrowNext(id) \/ BorrowAllocates(id)
                              \/ BorrowSingle(id) \/ Return(id)
           \/ AllocateFails \/ BorrowFails \/ RollbackNext
           \/ \E args \in SUBSET Nat : OnOperationStart(args)
           \/ OnOperationEnd \/ Fail
<1>1. 0 .. 2 * NumQubits \subseteq Nat /\ Ids \subseteq Nat /\ 1 .. MaxRequest \subseteq Nat
  BY ConstantsAssumption DEF PoolTyping, Ids
<1>2. SUBSET Ids \subseteq SUBSET Nat
  BY <1>1
<1> QED  BY <1>1, <1>2 DEF Next

\* A frame with another dictionary and more or fewer qubits is a frame.
LEMMA FrameUpdate ==
    ASSUME NEW frame \in Frames, NEW locals \in Bag, NEW used \in SUBSET Nat,
           NEW lent \in SUBSET Nat, NEW lost \in SUBSET Nat
    PROVE  /\ [frame EXCEPT !.locals = locals] \in Frames
           /\ [frame EXCEPT !.used = used] \in Frames
           /\ [frame EXCEPT !.lost = lost] \in Frames
           /\ [frame EXCEPT !.locals = locals, !.used = used] \in Frames
           /\ [frame EXCEPT !.used = used, !.locals = locals] \in Frames
           /\ [frame EXCEPT !.locals = locals, !.lent = lent] \in Frames
           /\ [frame EXCEPT !.lent = lent, !.locals = locals] \in Frames
           /\ [frame EXCEPT !.locals = locals, !.lost = lost] \in Frames
BY DEF Frames

\* The call record between two calls has the type of one.
LEMMA IdleShape == /\ Idle \in [op : {"idle", "allocate", "borrow"}, undoing : BOOLEAN, want : Nat,
                           got : Seq(Nat), borrowed : Seq(Nat), quota : {0},
                           inUse : SUBSET Nat, before : SUBSET Nat]
                   /\ Idle' = Idle
<1>1. <<>> \in Seq(Nat)
  OBVIOUS
<1> QED  BY <1>1 DEF Idle

\* Every action keeps frames, the call and what outlived its frame in their types.
LEMMA TypingStep ==
    ASSUME PoolTyping, Typing, Next
    PROVE  Typing'
<1> USE IdleShape
<1>a. /\ call.got \in Seq(Nat) /\ call.borrowed \in Seq(Nat)
      /\ Range(call.got) \in SUBSET Nat /\ Range(call.borrowed) \in SUBSET Nat
      /\ FreeIds \in SUBSET Nat
  BY RangeType DEF Typing, CallShape, FreeIds, Ids, PoolTyping
<1>b. Top \in Frames
  BY TopType
<1>c. Top.locals \in Bag /\ Top.used \in SUBSET Nat /\ Top.lent \in SUBSET Nat
      /\ Top.lost \in SUBSET Nat /\ Top.args \in SUBSET Nat
  BY <1>b DEF Frames
<1>d. ASSUME NEW id \in Nat
      PROVE  AddLocal(Top.locals, id) \in Bag /\ RemoveLocal(Top.locals, id) \in Bag
  BY <1>c, AddLocalType, RemoveLocalType
<1>e. ASSUME NEW frame \in Frames, SetTop(frame)
      PROVE  operationStack' \in Seq(Frames) /\ operationStack' # <<>>
  BY <1>e, TopType
<1>1. ASSUME NEW n \in Nat, BeginAllocate(n)
      PROVE  Typing'
  BY <1>1, <1>a DEF BeginAllocate, Typing, CallShape, Idle, historyVars
<1>2. ASSUME NEW n \in Nat, BeginBorrow(n)
      PROVE  Typing'
  <2>1. QubitsInUse(Top) \in SUBSET Nat
    BY <1>c DEF QubitsInUse, Bag
  <2> QED  BY <1>2, <1>a, <2>1 DEF BeginBorrow, Typing, CallShape, Idle, historyVars
<1>3. ASSUME NEW id \in Nat, AllocateNext(id)
      PROVE  Typing'
  <2>1. operationStack' \in Seq(Frames) /\ operationStack' # <<>>
    <3>1. Top.used \cup Range(call.got) \cup {id} \in SUBSET Nat
      BY <1>a, <1>c
    <3> DEFINE last == [Top EXCEPT !.locals = AddLocal(Top.locals, id),
                                   !.used = Top.used \cup Range(call.got) \cup {id}]
               other == [Top EXCEPT !.locals = AddLocal(Top.locals, id)]
    <3>2. SetTop(last) \/ SetTop(other)
      BY <1>3 DEF AllocateNext
    <3>3. last \in Frames /\ other \in Frames
      BY <3>1, <1>b, <1>c, <1>d, FrameUpdate
    <3> HIDE DEF last, other
    <3> QED  BY <3>2, <3>3, <1>e
  <2>2. call' \in CallShape' /\ (call'.undoing => call'.got # <<>>)
    <3>1. CASE LastOne
      BY <1>3, <3>1 DEF AllocateNext, CallShape, Idle
    <3>2. CASE ~LastOne
      <4>1. Append(call.got, id) \in Seq(Nat)
        BY <1>a, AppendProperties
      <4>2. call' = [call EXCEPT !.got = Append(call.got, id)] /\ ~call.undoing
        BY <1>3, <3>2 DEF AllocateNext, Taking
      <4> QED  BY <4>1, <4>2 DEF Typing, CallShape
    <3> QED  BY <3>1, <3>2
  <2> QED  BY <1>3, <2>1, <2>2 DEF AllocateNext, Typing, historyVars
<1>4. ASSUME NEW id \in Nat, Release(id)
      PROVE  Typing'
  <2>1. operationStack' \in Seq(Frames) /\ operationStack' # <<>>
    BY <1>4, <1>b, <1>c, <1>d, <1>e, FrameUpdate DEF Release
  <2> QED  BY <1>4, <2>1 DEF Release, Typing, historyVars, CallShape
<1>5. ASSUME NEW id \in Nat, Disable(id)
      PROVE  Typing'
  BY <1>5 DEF Disable, Typing, historyVars, CallShape
<1>6. ASSUME NEW id \in Nat, NEW next, BorrowStep(id, next),
             next \in [op : {"idle", "allocate", "borrow"}, undoing : BOOLEAN, want : Nat,
                       got : Seq(Nat), borrowed : Seq(Nat), quota : {next.quota},
                       inUse : SUBSET Nat, before : SUBSET Nat],
             next.undoing => next.got # <<>>, UNCHANGED historyVars
      PROVE  Typing'
  <2>1. operationStack' \in Seq(Frames) /\ operationStack' # <<>>
    BY <1>6, <1>a, <1>b, <1>c, <1>d, <1>e, FrameUpdate DEF BorrowStep
  <2>2. call' \in CallShape' /\ (call'.undoing => call'.got # <<>>)
    BY <1>6 DEF BorrowStep, CallShape, Idle
  <2> QED  BY <1>6, <2>1, <2>2 DEF Typing, historyVars
<1>7. ASSUME NEW id \in Nat, BorrowNext(id)
      PROVE  Typing'
  <2> DEFINE passed == {used \in call.inUse : used < id /\ Matched(used, MinId)}
             next == [call EXCEPT !.borrowed = Append(@, id), !.inUse = @ \ passed]
  <2>1. Append(call.borrowed, id) \in Seq(Nat)
    BY <1>a, AppendProperties
  <2>2. call.inUse \ passed \in SUBSET Nat
    BY DEF Typing, CallShape
  <2> HIDE DEF passed
  <2>3. /\ next \in [op : {"idle", "allocate", "borrow"}, undoing : BOOLEAN, want : Nat,
                     got : Seq(Nat), borrowed : Seq(Nat), quota : {next.quota},
                     inUse : SUBSET Nat, before : SUBSET Nat]
        /\ next.undoing = call.undoing /\ next.got = call.got
    BY <2>1, <2>2 DEF Typing, CallShape
  <2>4. BorrowStep(id, next) /\ UNCHANGED historyVars
    BY <1>7 DEF BorrowNext, passed
  <2> HIDE DEF next
  <2> QED  BY <1>6, <2>3, <2>4 DEF Typing
<1>8. ASSUME NEW id \in Nat, BorrowAllocates(id)
      PROVE  Typing'
  <2> DEFINE next == [call EXCEPT !.got = Append(@, id), !.quota = Len(call.borrowed)]
  <2>1. Append(call.got, id) \in Seq(Nat) /\ Append(call.got, id) # <<>>
    <3>1. /\ Append(call.got, id) \in Seq(Nat)
          /\ Len(Append(call.got, id)) = Len(call.got) + 1 /\ Len(call.got) \in Nat
      BY <1>a, AppendProperties, LenProperties
    <3>2. Len(Append(call.got, id)) # 0
      BY <3>1
    <3> QED  BY <3>1, <3>2, NonEmpty, Zenon
  <2>2. /\ next \in [op : {"idle", "allocate", "borrow"}, undoing : BOOLEAN, want : Nat,
                     got : Seq(Nat), borrowed : Seq(Nat), quota : {next.quota},
                     inUse : SUBSET Nat, before : SUBSET Nat]
        /\ next.got # <<>>
    BY <2>1 DEF Typing, CallShape
  <2>3. BorrowStep(id, next) /\ UNCHANGED historyVars
    BY <1>8 DEF BorrowAllocates
  <2> HIDE DEF next
  <2> QED  BY <1>6, <2>2, <2>3
<1>9. ASSUME NEW id \in Nat, BorrowSingle(id)
      PROVE  Typing'
  <2>1. operationStack' \in Seq(Frames) /\ operationStack' # <<>>
    BY <1>9, <1>b, <1>c, <1>d, <1>e, FrameUpdate DEF BorrowSingle
  <2>2. strays' \subseteq Nat
    BY <1>9 DEF BorrowSingle, Typing
  <2> QED  BY <1>9, <2>1, <2>2 DEF BorrowSingle, Typing, CallShape
<1>10. ASSUME NEW id \in Nat, Return(id)
      PROVE  Typing'
  <2>1. operationStack' \in Seq(Frames) /\ operationStack' # <<>>
    BY <1>10, <1>b, <1>c, <1>d, <1>e, FrameUpdate DEF Return
  <2> QED  BY <1>10, <2>1 DEF Return, Typing, historyVars, CallShape
<1>11. ASSUME AllocateFails
      PROVE  Typing'
  <2>1. call' \in CallShape' /\ (call'.undoing => call'.got # <<>>)
    <3>1. CASE call.got = <<>>
      BY <1>11, <3>1 DEF AllocateFails, CallShape, Idle
    <3>2. CASE call.got # <<>>
      <4>1. call' = [call EXCEPT !.undoing = TRUE]
        BY <1>11, <3>2 DEF AllocateFails
      <4> QED  BY <3>2, <4>1 DEF Typing, CallShape
    <3> QED  BY <3>1, <3>2
  <2> QED  BY <1>11, <2>1 DEF AllocateFails, Typing, historyVars
<1>12. ASSUME BorrowFails
      PROVE  Typing'
  <2>1. operationStack' \in Seq(Frames) /\ operationStack' # <<>>
    <3>1. Top.lost \cup Range(call.borrowed) \in SUBSET Nat
      BY <1>a, <1>c
    <3>2. ASSUME NEW lost \in SUBSET Nat
          PROVE  [Top EXCEPT !.lost = lost] \in Frames
      BY <1>b DEF Frames
    <3>3. [Top EXCEPT !.lost = Top.lost \cup Range(call.borrowed)] \in Frames
      BY <3>1, <3>2
    <3> QED  BY <1>12, <1>e, <3>3 DEF BorrowFails, Typing
  <2>2. call' \in CallShape' /\ (call'.undoing => call'.got # <<>>)
    <3>1. CASE call.got = <<>>
      BY <1>12, <3>1 DEF BorrowFails, CallShape, Idle
    <3>2. CASE call.got # <<>>
      <4>1. call' = [call EXCEPT !.undoing = TRUE]
        BY <1>12, <3>2 DEF BorrowFails
      <4> QED  BY <3>2, <4>1 DEF Typing, CallShape
    <3> QED  BY <3>1, <3>2
  <2> QED  BY <1>12, <2>1, <2>2 DEF BorrowFails, Typing
<1>13. ASSUME RollbackNext
      PROVE  Typing'
  <2>1. Head(call.got) \in Nat /\ Tail(call.got) \in Seq(Nat) /\ Len(call.got) \in Nat
        /\ (Len(call.got) # 1 => Tail(call.got) # <<>>)
    <3>1. Head(call.got) \in Nat /\ Tail(call.got) \in Seq(Nat) /\ Len(call.got) \in Nat
          /\ Len(Tail(call.got)) = Len(call.got) - 1
      BY <1>13, <1>a, RangeType DEF RollbackNext, Typing
    <3>2. Len(call.got) # 1 => Len(Tail(call.got)) # 0
      BY <3>1
    <3> QED  BY <3>1, <3>2, NonEmpty, Zenon
  <2>2. operationStack' \in Seq(Frames) /\ operationStack' # <<>>
    <3>1. Top.lost \cup Range(call.borrowed) \in SUBSET Nat
      BY <1>a, <1>c
    <3> QED  BY <1>13, <2>1, <3>1, <1>b, <1>c, <1>d, <1>e, FrameUpdate DEF RollbackNext
  <2>3. call' \in CallShape' /\ (call'.undoing => call'.got # <<>>)
    BY <1>13, <2>1, <1>a DEF RollbackNext, Typing, CallShape, Idle
  <2> QED  BY <1>13, <2>2, <2>3 DEF RollbackNext, Typing
<1>14. ASSUME NEW args \in SUBSET Nat, OnOperationStart(args)
      PROVE  Typing'
  <2>1. operationStack' \in Seq(Frames) /\ operationStack' # <<>>
    BY <1>14, FrameType, AppendProperties DEF OnOperationStart, Typing
  <2> QED  BY <1>14, <2>1 DEF OnOperationStart, Typing, CallShape, historyVars
<1>15. ASSUME NEW depth \in 1 .. Len(operationStack), PopTo(depth)
      PROVE  Typing'
  <2>1. operationStack' \in Seq(Frames) /\ Len(operationStack') = depth
    BY <1>15, SubSeqProperties, ElementOfSeq, LenProperties DEF PopTo, Typing
  <2>2. operationStack' # <<>>
    BY <2>1
  <2>3. orphans' \in [used : SUBSET Nat, lent : {orphans'.lent}] /\ DOMAIN orphans'.lent \subseteq Nat
    <3>1. \A i \in depth + 1 .. Len(operationStack) : operationStack[i].used \in SUBSET Nat
      <4> SUFFICES ASSUME NEW i \in depth + 1 .. Len(operationStack)
                   PROVE  operationStack[i].used \in SUBSET Nat
        OBVIOUS
      <4>1. i \in 1 .. Len(operationStack)
        BY TopType
      <4>2. operationStack[i] \in Frames
        BY <4>1, ElementOfSeq DEF Typing
      <4> QED  BY <4>2 DEF Frames
    <3>2. orphans.used \cup UNION {operationStack[i].used : i \in depth + 1 .. Len(operationStack)}
             \in SUBSET Nat
      <4> SUFFICES ASSUME NEW i \in depth + 1 .. Len(operationStack)
                   PROVE  operationStack[i].used \subseteq Nat
        BY DEF Typing
      <4> QED  BY <3>1
    <3>3. /\ orphans'.used = orphans.used
                  \cup UNION {operationStack[i].used : i \in depth + 1 .. Len(operationStack)}
          /\ DOMAIN orphans'.lent \subseteq Nat
          /\ orphans' = [used |-> orphans'.used, lent |-> orphans'.lent]
      BY <1>15 DEF PopTo, Abandoned, Ids, PoolTyping
    <3> QED  BY <3>2, <3>3
  <2> QED  BY <1>15, <2>1, <2>2, <2>3 DEF PopTo, Typing, CallShape
<1>16. ASSUME OnOperationEnd \/ Fail
      PROVE  Typing'
  BY <1>15, <1>16, TopType DEF OnOperationEnd, Fail
<1> QED  BY NextCases, <1>1, <1>2, <1>3, <1>4, <1>5, <1>7, <1>8, <1>9, <1>10, <1>11, <1>12,
            <1>13, <1>14, <1>16

-----------------------------------------------------------------------------
(* The inductive invariant                                                  *)

Depth == Len(operationStack)

\* The pool's bookkeeping agrees with who holds what.
OwnInv ==
    \A x \in Nat :
        /\ \A o, p \in Owners(x) : o = p
        /\ Owners(x) # {} => Mark(x) \in {1, 2}
        /\ Mark(x) = 1 => Owners(x) # {}

OrphanLoans(x) == IF x \in DOMAIN orphans.lent THEN orphans.lent[x] ELSE 0

\* A qubit that the manager reference-counts is counted exactly, a free one is on
\* loan to nobody, and a loan that outlived its frame is of no owned qubit.
LoanInv ==
    \A x \in Nat :
        /\ Mark(x) >= 3 => Loans(x) = Mark(x) - 2
        /\ Mark(x) = 0 => Loans(x) = 0
        /\ x \in DOMAIN orphans.lent => Mark(x) >= 2 /\ orphans.lent[x] \in Nat \ {0}

\* What the frames of the stack have to do with each other: arguments come from
\* callers, and what is on loan to a frame is owned, if at all, by a caller.
FrameInv ==
    \A i \in 1 .. Depth : \A x \in Nat :
        LET frame == operationStack[i]
        IN  /\ x \in frame.lent => x \notin frame.lost /\ x \notin frame.args
            /\ x \in frame.args =>
                \E j \in 1 .. i - 1 : x \in operationStack[j].used \/ x \in operationStack[j].lent
            /\ \A j \in 1 .. Depth :
                x \in operationStack[j].used /\ (x \in frame.lent \/ x \in frame.lost) => j < i

\* The loop in progress: what it has taken is new to the frame it works for, and
\* the ids it must not borrow are those it has not passed yet.
CallInv ==
    /\ call.op = "idle" => call = Idle
    /\ IsInjective(call.got) /\ IsInjective(call.borrowed)
    /\ call.op = "allocate" =>
        /\ call.borrowed = <<>>
        /\ \A x \in Range(call.got) : Mark(x) = 1 /\ Loans(x) = 0
    /\ call.op = "borrow" =>
        /\ ~DisableBorrowing
        /\ call.got # <<>> => call.quota = Len(call.borrowed)
        /\ \A x \in Range(call.got) :
            Mark(x) = 3 /\ x \notin Range(call.borrowed) /\ x \notin call.inUse
        /\ \A x \in Range(call.borrowed) : x < MinId /\ Mark(x) # 0
        /\ \A x \in Pending : x \notin Top.args \cup Top.used \cup Top.lent \cup Top.lost
        /\ \A x \in call.inUse : x >= MinId /\ Mark(x) \notin {0, 2}
        /\ \A x \in Top.args \cup Top.used \cup Top.lent \cup Top.lost :
            Mark(x) = 2 \/ x \in call.inUse \/ x < MinId

IInv == PoolInv /\ Typing /\ OwnInv /\ LoanInv /\ FrameInv /\ LocalsExact /\ CallInv

-----------------------------------------------------------------------------
(* The effect of each action, in terms of Mark and of the fields of frames   *)

MarkBecomes(id, mark) == \A x \in Nat : Mark(x)' = IF x = id THEN mark ELSE Mark(x)
SameMarks == \A x \in Nat : Mark(x)' = Mark(x)

\* The current frame has these fields now, and every other frame is as it was.
TopBecomes(locals, used, lent, lost) ==
    /\ Depth' = Depth
    /\ \A i \in 1 .. Depth :
        /\ operationStack'[i].args = operationStack[i].args
        /\ operationStack'[i].locals = IF i = Depth THEN locals ELSE operationStack[i].locals
        /\ operationStack'[i].used = IF i = Depth THEN used ELSE operationStack[i].used
        /\ operationStack'[i].lent = IF i = Depth THEN lent ELSE operationStack[i].lent
        /\ operationStack'[i].lost = IF i = Depth THEN lost ELSE operationStack[i].lost

\* The types of the stack, and the top of it as its last frame.
LEMMA Fields ==
    ASSUME Typing
    PROVE  /\ Depth \in Nat \ {0} /\ Depth \in 1 .. Depth
           /\ Top = operationStack[Depth]
           /\ \A i \in 1 .. Depth :
                /\ operationStack[i] \in Frames
                /\ operationStack[i].args \subseteq Nat /\ operationStack[i].used \subseteq Nat
                /\ operationStack[i].lent \subseteq Nat /\ operationStack[i].lost \subseteq Nat
                /\ operationStack[i].locals \in Bag
<1>1. Depth \in Nat \ {0} /\ Top = operationStack[Depth]
  BY TopType DEF Depth, Top
<1>2. \A i \in 1 .. Depth : operationStack[i] \in Frames
  BY ElementOfSeq DEF Typing, Depth
<1> QED  BY <1>1, <1>2 DEF Frames

\* Every update of the current frame in this module, as a TopBecomes.
LEMMA TopEffect ==
    ASSUME Typing, NEW locals \in Bag, NEW used \in SUBSET Nat, NEW lent \in SUBSET Nat,
           NEW lost \in SUBSET Nat,
           \/ SetTop([Top EXCEPT !.locals = locals]) /\ used = Top.used /\ lent = Top.lent
                /\ lost = Top.lost
           \/ SetTop([Top EXCEPT !.used = used]) /\ locals = Top.locals /\ lent = Top.lent
                /\ lost = Top.lost
           \/ SetTop([Top EXCEPT !.lost = lost]) /\ locals = Top.locals /\ used = Top.used
                /\ lent = Top.lent
           \/ SetTop([Top EXCEPT !.locals = locals, !.used = used]) /\ lent = Top.lent
                /\ lost = Top.lost
           \/ SetTop([Top EXCEPT !.used = used, !.locals = locals]) /\ lent = Top.lent
                /\ lost = Top.lost
           \/ SetTop([Top EXCEPT !.locals = locals, !.lent = lent]) /\ used = Top.used
                /\ lost = Top.lost
           \/ SetTop([Top EXCEPT !.lent = lent, !.locals = locals]) /\ used = Top.used
                /\ lost = Top.lost
           \/ SetTop([Top EXCEPT !.locals = locals, !.lost = lost]) /\ used = Top.used
                /\ lent = Top.lent
    PROVE  TopBecomes(locals, used, lent, lost)
<1> DEFINE frame == [args |-> Top.args, locals |-> locals, used |-> used, lent |-> lent,
                     lost |-> lost]
<1>1. Top \in Frames
  BY Fields
<1>2. frame \in Frames
  BY <1>1 DEF Frames
<1>3. SetTop(frame)
  BY <1>1 DEF Frames, SetTop
<1>4. /\ Depth' = Depth /\ Top' = frame
      /\ \A i \in 1 .. Depth - 1 : operationStack'[i] = operationStack[i]
  BY <1>2, <1>3, TopType DEF Depth
<1>5. operationStack'[Depth] = frame
  BY <1>4 DEF Depth, Top
<1> QED  BY <1>4, <1>5, Fields DEF TopBecomes

\* The loans of an id are a number, and positive if a frame has it on loan.
LEMMA LoansType ==
    ASSUME Typing, LoanInv, NEW x \in Nat
    PROVE  /\ IsFiniteSet(LoanFrames(x)) /\ Cardinality(LoanFrames(x)) \in Nat
           /\ LoanFrames(x) # {} => Cardinality(LoanFrames(x)) > 0
           /\ OrphanLoans(x) \in Nat
           /\ Loans(x) = Cardinality(LoanFrames(x)) + OrphanLoans(x)
                         + (IF x \in Pending THEN 1 ELSE 0)
           /\ Loans(x) \in Nat
           /\ Loans(x) = 0 => LoanFrames(x) = {} /\ OrphanLoans(x) = 0 /\ x \notin Pending
<1>1. IsFiniteSet(1 .. Depth) /\ LoanFrames(x) \in SUBSET (1 .. Depth)
  BY Fields, FS_Interval DEF LoanFrames, Depth
<1>2. IsFiniteSet(LoanFrames(x)) /\ Cardinality(LoanFrames(x)) \in Nat
  BY <1>1, FS_Subset, FS_CardinalityType
<1>3. LoanFrames(x) # {} => Cardinality(LoanFrames(x)) > 0
  BY <1>2, FS_EmptySet
<1>4. OrphanLoans(x) \in Nat
  BY DEF LoanInv, OrphanLoans
<1>5. Loans(x) = Cardinality(LoanFrames(x)) + OrphanLoans(x) + (IF x \in Pending THEN 1 ELSE 0)
  BY DEF Loans, OrphanLoans
<1> QED  BY <1>2, <1>3, <1>4, <1>5

\* What a frame can reach, and what the loop has taken, is not free.
LEMMA ReachableInUse ==
    ASSUME IInv, NEW i \in 1 .. Depth, NEW x \in Nat,
           \/ x \in operationStack[i].used \/ x \in operationStack[i].lent
           \/ x \in operationStack[i].lost \/ x \in operationStack[i].args
    PROVE  Mark(x) # 0
<1>1. ASSUME NEW j \in 1 .. Depth, x \in operationStack[j].used
      PROVE  Mark(x) # 0
  BY <1>1 DEF IInv, OwnInv, Owners, Depth
<1>2. ASSUME NEW j \in 1 .. Depth, x \in operationStack[j].lent \/ x \in operationStack[j].lost
      PROVE  Mark(x) # 0
  <2>1. j \in LoanFrames(x)
    BY <1>2 DEF LoanFrames, Depth
  <2> QED  BY <2>1, LoansType DEF IInv, LoanInv
<1>3. CASE x \in operationStack[i].args
  <2>1. PICK j \in 1 .. i - 1 : x \in operationStack[j].used \/ x \in operationStack[j].lent
    BY <1>3 DEF IInv, FrameInv
  <2>2. j \in 1 .. Depth
    BY Fields DEF IInv
  <2> QED  BY <1>1, <1>2, <2>1, <2>2
<1> QED  BY <1>1, <1>2, <1>3

\* The types of what a call in progress holds.
LEMMA CallFields ==
    ASSUME Typing
    PROVE  /\ call.got \in Seq(Nat) /\ call.borrowed \in Seq(Nat)
           /\ Range(call.got) \in SUBSET Nat /\ Range(call.borrowed) \in SUBSET Nat
           /\ Pending \subseteq Nat
           /\ call.inUse \subseteq Nat
           /\ call.got # <<>> => Head(call.got) \in Nat /\ Head(call.got) \in Range(call.got)
           /\ call.undoing => call.got # <<>>
           /\ \A id \in Nat : /\ AddLocal(Top.locals, id) \in Bag
                              /\ RemoveLocal(Top.locals, id) \in Bag
           /\ Top.locals \in Bag /\ Top.used \in SUBSET Nat /\ Top.lent \in SUBSET Nat
           /\ Top.lost \in SUBSET Nat /\ Top.args \in SUBSET Nat
<1>1. call.got \in Seq(Nat) /\ call.borrowed \in Seq(Nat) /\ call.inUse \subseteq Nat
      /\ (call.undoing => call.got # <<>>)
  BY DEF Typing, CallShape
<1>2. /\ Range(call.got) \in SUBSET Nat /\ Range(call.borrowed) \in SUBSET Nat
      /\ call.got # <<>> => Head(call.got) \in Nat /\ Head(call.got) \in Range(call.got)
  BY <1>1, RangeType DEF Range
<1>3. Top.locals \in Bag /\ Top.used \in SUBSET Nat /\ Top.lent \in SUBSET Nat
      /\ Top.lost \in SUBSET Nat /\ Top.args \in SUBSET Nat
  BY Fields DEF Frames
<1> QED  BY <1>1, <1>2, <1>3, AddLocalType, RemoveLocalType DEF Pending

\* What leaves the pool alone keeps its invariant and every mark.
LEMMA PoolUnchanged ==
    ASSUME PoolInv, UNCHANGED poolVars
    PROVE  PoolInv' /\ SameMarks /\ Ids' = Ids
<1>1. \A x : Mark(x)' = Mark(x)
  BY DEF poolVars, Mark, Ids, IsFree, Allocated, AllocatedAt
<1>2. ASSUME NEW n \in Nat, NEW s, ListOf(n, s)
      PROVE  ListOf(n, s)'
  BY <1>1, <1>2 DEF poolVars, ListOf, Ids, None, NoneAt, Discards
<1> QED  BY <1>1, <1>2 DEF poolVars, PoolInv, PoolTyping, ListInv, Ids, SameMarks

\* One round of Allocate(n)'s loop: a free id becomes owned and a local.
LEMMA AllocateNextEffect ==
    ASSUME IInv, NEW id \in Nat, AllocateNext(id)
    PROVE  /\ PoolInv' /\ Mark(id) = 0 /\ MarkBecomes(id, 1)
           /\ call.op = "allocate" /\ ~call.undoing /\ UNCHANGED <<orphans, strays>>
           /\ \/ /\ call' = Idle
                 /\ TopBecomes(AddLocal(Top.locals, id), Top.used \cup Range(call.got) \cup {id},
                               Top.lent, Top.lost)
              \/ /\ call' = [call EXCEPT !.got = Append(call.got, id)]
                 /\ TopBecomes(AddLocal(Top.locals, id), Top.used, Top.lent, Top.lost)
<1>1. AllocateOne(id, FALSE) /\ call.op = "allocate" /\ ~call.undoing /\ UNCHANGED <<orphans, strays>>
  BY DEF AllocateNext, Taking, historyVars
<1>2. PoolInv' /\ Mark(id) = 0 /\ MarkBecomes(id, 1)
  BY <1>1, AllocateOneEffect DEF IInv, MarkBecomes
<1> DEFINE locals == AddLocal(Top.locals, id)
           used == Top.used \cup Range(call.got) \cup {id}
<1>a. locals \in Bag /\ used \in SUBSET Nat /\ Typing
  BY CallFields DEF IInv
<1>3. CASE LastOne
  <2>1. call' = Idle /\ SetTop([Top EXCEPT !.locals = locals, !.used = used])
    BY <1>3 DEF AllocateNext
  <2> HIDE DEF locals, used
  <2>2. TopBecomes(locals, used, Top.lent, Top.lost)
    BY <1>a, <2>1, TopEffect, CallFields
  <2> QED  BY <1>1, <1>2, <2>1, <2>2 DEF locals, used
<1>4. CASE ~LastOne
  <2>1. /\ call' = [call EXCEPT !.got = Append(call.got, id)]
        /\ SetTop([Top EXCEPT !.locals = locals])
    BY <1>4 DEF AllocateNext
  <2> HIDE DEF locals
  <2>2. TopBecomes(locals, Top.used, Top.lent, Top.lost)
    BY <1>a, <2>1, TopEffect, CallFields
  <2> QED  BY <1>1, <1>2, <2>1, <2>2 DEF locals
<1> QED  BY <1>1, <1>2, <1>3, <1>4

\* One release of a rollback: the first id taken becomes free again.
LEMMA RollbackNextEffect ==
    ASSUME IInv, RollbackNext
    PROVE  /\ PoolInv' /\ MarkBecomes(Head(call.got), 0)
           /\ call.got # <<>> /\ Head(call.got) \in Nat /\ Head(call.got) \in Range(call.got)
           /\ call.op \in {"allocate", "borrow"} /\ UNCHANGED <<orphans, strays>>
           /\ \/ /\ Len(call.got) = 1
                 /\ call' = Idle
                 /\ TopBecomes(RemoveLocal(Top.locals, Head(call.got)), Top.used, Top.lent,
                               Top.lost \cup Range(call.borrowed))
              \/ /\ Len(call.got) # 1
                 /\ call' = [call EXCEPT !.got = Tail(call.got)]
                 /\ TopBecomes(RemoveLocal(Top.locals, Head(call.got)), Top.used, Top.lent, Top.lost)
<1> DEFINE h == Head(call.got)
<1>1. ReleaseOne(h) /\ call.undoing /\ UNCHANGED <<orphans, strays>>
  BY DEF RollbackNext
<1>2. call.got # <<>> /\ h \in Nat /\ h \in Range(call.got)
  BY <1>1, CallFields DEF IInv
<1>3. call.op \in {"allocate", "borrow"}
  BY <1>2 DEF IInv, CallInv, Idle, Typing, CallShape
<1>4. Mark(h) # 0
  BY <1>2, <1>3 DEF IInv, CallInv
<1>5. PoolInv' /\ MarkBecomes(h, 0)
  BY <1>1, <1>2, <1>4, ReleaseOneEffect DEF IInv, MarkBecomes
<1> DEFINE locals == RemoveLocal(Top.locals, h)
           lost == Top.lost \cup Range(call.borrowed)
<1>a. locals \in Bag /\ lost \in SUBSET Nat /\ Typing
  BY <1>2, CallFields DEF IInv
<1>6. CASE Len(call.got) = 1
  <2>1. call' = Idle /\ SetTop([Top EXCEPT !.locals = locals, !.lost = lost])
    BY <1>6 DEF RollbackNext
  <2> HIDE DEF locals, lost
  <2>2. TopBecomes(locals, Top.used, Top.lent, lost)
    BY <1>a, <2>1, TopEffect, CallFields
  <2> QED  BY <1>1, <1>2, <1>3, <1>5, <1>6, <2>1, <2>2 DEF locals, lost
<1>7. CASE Len(call.got) # 1
  <2>1. /\ call' = [call EXCEPT !.got = Tail(call.got)]
        /\ SetTop([Top EXCEPT !.locals = locals])
    BY <1>7 DEF RollbackNext
  <2> HIDE DEF locals
  <2>2. TopBecomes(locals, Top.used, Top.lent, Top.lost)
    BY <1>a, <2>1, TopEffect, CallFields
  <2> QED  BY <1>1, <1>2, <1>3, <1>5, <1>7, <2>1, <2>2 DEF locals
<1> QED  BY <1>1, <1>2, <1>3, <1>5, <1>6, <1>7

\* Release: a disabled id only loses its owner, an owned one becomes free.
LEMMA ReleaseEffect ==
    ASSUME IInv, NEW id \in Nat, Release(id)
    PROVE  /\ PoolInv' /\ id \in Top.used /\ call = Idle /\ UNCHANGED <<call, orphans, strays>>
           /\ \/ /\ Mark(id) = 2 /\ SameMarks
                 /\ TopBecomes(Top.locals, Top.used \ {id}, Top.lent, Top.lost)
              \/ /\ Mark(id) = 1 /\ MarkBecomes(id, 0)
                 /\ TopBecomes(RemoveLocal(Top.locals, id), Top.used \ {id}, Top.lent, Top.lost)
<1>1. id \in Top.used /\ call = Idle /\ UNCHANGED <<call, orphans, strays>>
  BY DEF Release, historyVars
<1>2. Mark(id) \in {1, 2}
  BY <1>1, Fields DEF IInv, OwnInv, Owners, Depth
<1>3. CASE IsDisabled(id)
  <2>1. Mark(id) = 2
    BY <1>2, <1>3, MarkMeaning DEF IInv, PoolInv
  <2>2. PoolInv' /\ SameMarks
    BY <1>3, PoolUnchanged DEF Release, IInv
  <2>3. TopBecomes(Top.locals, Top.used \ {id}, Top.lent, Top.lost)
    BY <1>3, TopEffect, CallFields DEF Release, IInv
  <2> QED  BY <1>1, <2>1, <2>2, <2>3
<1>4. CASE ~IsDisabled(id)
  <2>1. Mark(id) = 1
    BY <1>2, <1>4, MarkMeaning DEF IInv, PoolInv
  <2>2. PoolInv' /\ MarkBecomes(id, 0)
    BY <1>4, <2>1, ReleaseOneEffect DEF Release, IInv, MarkBecomes
  <2>3. TopBecomes(RemoveLocal(Top.locals, id), Top.used \ {id}, Top.lent, Top.lost)
    BY <1>4, TopEffect, CallFields DEF Release, IInv
  <2> QED  BY <1>1, <2>1, <2>2, <2>3
<1> QED  BY <1>3, <1>4

\* Disable: an id in use is marked, and nothing else is touched.
LEMMA DisableEffect ==
    ASSUME IInv, NEW id \in Nat, Disable(id)
    PROVE  /\ PoolInv' /\ call = Idle /\ UNCHANGED <<operationStack, call, orphans, strays>>
           /\ Mark(id) \notin {0, 2} /\ MarkBecomes(id, 2)
<1>1. /\ call = Idle /\ UNCHANGED <<operationStack, call, orphans, strays>>
      /\ id \in Top.used \cup Top.lent \cup Top.args /\ ~IsDisabled(id)
      /\ qubits' = [qubits EXCEPT ![id] = NumQubits + 2]
      /\ UNCHANGED <<NumQubits, free, freeTail>>
      /\ NumDisabledQubits' = NumDisabledQubits + 1
      /\ NumAllocatedQubits' = NumAllocatedQubits - 1
  BY DEF Disable, historyVars, Disabled, DisabledAt
<1>2. Mark(id) # 0
  BY <1>1, Fields, ReachableInUse DEF IInv
<1>3. Mark(id) # 2
  BY <1>1, <1>2, MarkMeaning DEF IInv, PoolInv
<1>4. /\ NumAllocatedQubits' \in Int /\ NumDisabledQubits' \in Int
      /\ NumQubits \in Nat /\ NumQubits + 2 \in Nat
  BY <1>1 DEF IInv, PoolInv, PoolTyping
<1>5. PoolInv' /\ MarkBecomes(id, 2)
  <2>1. PICK marker \in Nat : marker = NumQubits + 2
    BY <1>4
  <2>2. /\ marker > NumQubits /\ marker - NumQubits = 2
        /\ qubits' = [qubits EXCEPT ![id] = marker]
    <3>1. marker > NumQubits /\ marker - NumQubits = 2
      BY <1>4, <2>1
    <3>2. qubits' = [qubits EXCEPT ![id] = marker]
      BY <1>1, <2>1, Zenon
    <3> QED  BY <3>1, <3>2
  <2>3. UNCHANGED <<NumQubits, free, freeTail>> /\ PoolInv
    BY <1>1 DEF IInv
  <2>4. PoolInv' /\ \A x \in Nat : Mark(x)' = IF x = id THEN marker - NumQubits ELSE Mark(x)
    BY <1>2, <1>4, <2>2, <2>3, RemarkEffect
  <2> QED  BY <2>2, <2>4 DEF MarkBecomes
<1> QED  BY <1>1, <1>2, <1>3, <1>5

\* The mark of a qubit that gains a borrower.
Shared(mark) == IF mark >= 3 THEN mark + 1 ELSE mark

\* One more borrower, for a qubit in use.
LEMMA ShareEffect ==
    ASSUME PoolInv, NEW id \in Nat, Mark(id) # 0,
           qubits' = IF IsAllocatedForBorrowing(id) THEN [qubits EXCEPT ![id] = @ + 1] ELSE qubits,
           UNCHANGED <<NumQubits, NumAllocatedQubits, NumDisabledQubits, free, freeTail>>
    PROVE  PoolInv' /\ MarkBecomes(id, Shared(Mark(id)))
<1>1. id \in Ids /\ qubits[id] \in Nat /\ NumQubits \in Nat /\ Mark(id) \in Nat
      /\ Mark(id) = qubits[id] - NumQubits
      /\ (IsAllocatedForBorrowing(id) <=> Mark(id) >= 3)
      /\ NumAllocatedQubits' \in Int /\ NumDisabledQubits' \in Int
  BY MarkMeaning DEF PoolInv, PoolTyping
<1>2. CASE Mark(id) >= 3
  <2>1. qubits' = [qubits EXCEPT ![id] = qubits[id] + 1]
    BY <1>1, <1>2
  <2>2. qubits[id] + 1 \in Nat /\ qubits[id] + 1 > NumQubits
        /\ qubits[id] + 1 - NumQubits = Mark(id) + 1
    BY <1>1, <1>2
  <2>3. PICK marker \in Nat : marker = qubits[id] + 1
    BY <2>2
  <2>4. UNCHANGED <<NumQubits, free, freeTail>> /\ qubits' = [qubits EXCEPT ![id] = marker]
        /\ marker > NumQubits /\ marker - NumQubits = Mark(id) + 1
    <3>1. marker > NumQubits /\ marker - NumQubits = Mark(id) + 1
      BY <1>1, <2>2, <2>3
    <3>2. qubits' = [qubits EXCEPT ![id] = marker]
      BY <2>1, <2>3, Zenon
    <3> QED  BY <3>1, <3>2
  <2>5. PoolInv' /\ \A x \in Nat : Mark(x)' = IF x = id THEN marker - NumQubits ELSE Mark(x)
    BY <1>1, <2>4, RemarkEffect
  <2> QED  BY <1>2, <2>4, <2>5 DEF MarkBecomes, Shared
<1>3. CASE ~(Mark(id) >= 3)
  <2>1. PoolInv' /\ SameMarks
    BY <1>1, <1>3, PoolUnchanged DEF poolVars
  <2> QED  BY <1>3, <2>1 DEF SameMarks, MarkBecomes, Shared
<1> QED  BY <1>2, <1>3

\* A round of Borrow(n)'s loop either ends the call or goes on with what is left of it.
LEMMA BorrowStepEffect ==
    ASSUME Typing, NEW id \in Nat, NEW next, BorrowStep(id, next)
    PROVE  \/ /\ call' = Idle
              /\ TopBecomes(AddLocal(Top.locals, id), Top.used,
                            Top.lent \cup Range(call.borrowed) \cup Range(call.got) \cup {id},
                            Top.lost)
           \/ /\ call' = next
              /\ TopBecomes(AddLocal(Top.locals, id), Top.used, Top.lent, Top.lost)
<1> DEFINE locals == AddLocal(Top.locals, id)
           lent == Top.lent \cup Range(call.borrowed) \cup Range(call.got) \cup {id}
<1>a. locals \in Bag /\ lent \in SUBSET Nat
  BY CallFields
<1>1. CASE LastOne
  <2>1. call' = Idle /\ SetTop([Top EXCEPT !.locals = locals, !.lent = lent])
    BY <1>1 DEF BorrowStep
  <2> HIDE DEF locals, lent
  <2>2. TopBecomes(locals, Top.used, lent, Top.lost)
    BY <1>a, <2>1, TopEffect, CallFields
  <2> QED  BY <2>1, <2>2 DEF locals, lent
<1>2. CASE ~LastOne
  <2>1. call' = next /\ SetTop([Top EXCEPT !.locals = locals])
    BY <1>2 DEF BorrowStep
  <2> HIDE DEF locals
  <2>2. TopBecomes(locals, Top.used, Top.lent, Top.lost)
    BY <1>a, <2>1, TopEffect, CallFields
  <2> QED  BY <2>1, <2>2 DEF locals
<1> QED  BY <1>1, <1>2

\* The id the search of Borrow(n) settles on is in use, and neither passed nor one
\* of those that must not be borrowed; what must not be is passed or still ahead.
LEMMA BorrowNextEffect ==
    ASSUME IInv, NEW id \in Nat, BorrowNext(id)
    PROVE  /\ PoolInv' /\ call.op = "borrow" /\ ~call.undoing /\ call.got = <<>>
           /\ UNCHANGED <<orphans, strays>>
           /\ Mark(id) \notin {0, 2} /\ id >= MinId /\ id \notin call.inUse
           /\ MarkBecomes(id, Shared(Mark(id)))
           /\ \/ /\ call' = Idle
                 /\ TopBecomes(AddLocal(Top.locals, id), Top.used,
                               Top.lent \cup Range(call.borrowed) \cup Range(call.got) \cup {id},
                               Top.lost)
              \/ /\ call' = [call EXCEPT !.borrowed = Append(call.borrowed, id),
                                         !.inUse = {x \in call.inUse : x > id}]
                 /\ TopBecomes(AddLocal(Top.locals, id), Top.used, Top.lent, Top.lost)
<1> DEFINE passed == {used \in call.inUse : used < id /\ Matched(used, MinId)}
           next == [call EXCEPT !.borrowed = Append(call.borrowed, id),
                                !.inUse = call.inUse \ passed]
<1>1. /\ call.op = "borrow" /\ ~call.undoing /\ ~DoneBorrowing /\ UNCHANGED <<orphans, strays>>
      /\ id \in Lowest(Borrowable(MinId)) /\ BorrowStep(id, next)
      /\ qubits' = IF IsAllocatedForBorrowing(id) THEN [qubits EXCEPT ![id] = @ + 1] ELSE qubits
      /\ UNCHANGED <<NumQubits, NumAllocatedQubits, NumDisabledQubits, free, freeTail>>
  BY DEF BorrowNext, Taking, historyVars
<1>2. call.got = <<>>
  BY <1>1 DEF DoneBorrowing, IInv, CallInv, Typing, CallShape
<1>3. id \in Ids /\ id >= MinId /\ ~IsFree(id) /\ ~IsDisabled(id) /\ ~Matched(id, MinId)
  BY <1>1 DEF Lowest, Borrowable
<1>4. Mark(id) \notin {0, 2}
  BY <1>3, MarkMeaning DEF IInv, PoolInv
<1>5. \A u \in call.inUse : u \in Nat /\ u >= MinId /\ u \in Ids /\ ~IsFree(u) /\ ~IsDisabled(u)
  BY <1>1, MarkMeaning, CallFields DEF IInv, PoolInv, CallInv
<1>6. \A u \in call.inUse : Matched(u, MinId)
  BY <1>5 DEF Matched
<1>7. id \notin call.inUse
  BY <1>3, <1>6
<1>8. call.inUse \ passed = {x \in call.inUse : x > id}
  BY <1>5, <1>6, <1>7
<1>9. PoolInv' /\ MarkBecomes(id, Shared(Mark(id)))
  BY <1>1, <1>4, ShareEffect DEF IInv
<1>10. next = [call EXCEPT !.borrowed = Append(call.borrowed, id),
                           !.inUse = {x \in call.inUse : x > id}]
  BY <1>8
<1> HIDE DEF passed, next
<1> QED  BY <1>1, <1>2, <1>3, <1>4, <1>7, <1>9, <1>10, BorrowStepEffect DEF IInv

\* A round that finds nothing to borrow: a free id is allocated for borrowing.
LEMMA BorrowAllocatesEffect ==
    ASSUME IInv, NEW id \in Nat, BorrowAllocates(id)
    PROVE  /\ PoolInv' /\ call.op = "borrow" /\ ~call.undoing /\ UNCHANGED <<orphans, strays>>
           /\ Mark(id) = 0 /\ MarkBecomes(id, 3)
           /\ \/ /\ call' = Idle
                 /\ TopBecomes(AddLocal(Top.locals, id), Top.used,
                               Top.lent \cup Range(call.borrowed) \cup Range(call.got) \cup {id},
                               Top.lost)
              \/ /\ call' = [call EXCEPT !.got = Append(call.got, id),
                                         !.quota = Len(call.borrowed)]
                 /\ TopBecomes(AddLocal(Top.locals, id), Top.used, Top.lent, Top.lost)
<1> DEFINE next == [call EXCEPT !.got = Append(call.got, id), !.quota = Len(call.borrowed)]
<1>1. /\ call.op = "borrow" /\ ~call.undoing /\ UNCHANGED <<orphans, strays>>
      /\ AllocateOne(id, TRUE) /\ BorrowStep(id, next)
  BY DEF BorrowAllocates, Taking, historyVars
<1>2. PoolInv' /\ Mark(id) = 0 /\ MarkBecomes(id, 3)
  BY <1>1, AllocateOneEffect DEF IInv, MarkBecomes
<1> HIDE DEF next
<1>3. \/ /\ call' = Idle
         /\ TopBecomes(AddLocal(Top.locals, id), Top.used,
                       Top.lent \cup Range(call.borrowed) \cup Range(call.got) \cup {id}, Top.lost)
      \/ /\ call' = next
         /\ TopBecomes(AddLocal(Top.locals, id), Top.used, Top.lent, Top.lost)
  BY <1>1, BorrowStepEffect DEF IInv
<1> QED  BY <1>1, <1>2, <1>3 DEF next

\* Borrow(n) throws: at once, or after a rollback if it has allocated anything.
LEMMA BorrowFailsEffect ==
    ASSUME IInv, BorrowFails
    PROVE  /\ PoolInv' /\ SameMarks /\ call.op = "borrow" /\ ~call.undoing
           /\ UNCHANGED <<orphans, strays>>
           /\ \/ /\ call.got = <<>> /\ call' = Idle
                 /\ TopBecomes(Top.locals, Top.used, Top.lent, Top.lost \cup Range(call.borrowed))
              \/ /\ call.got # <<>> /\ call' = [call EXCEPT !.undoing = TRUE]
                 /\ UNCHANGED operationStack
<1>1. /\ call.op = "borrow" /\ ~call.undoing /\ UNCHANGED <<orphans, strays, poolVars>>
  BY DEF BorrowFails, Taking
<1>2. PoolInv' /\ SameMarks
  BY <1>1, PoolUnchanged DEF IInv
<1>3. CASE call.got = <<>>
  <2> DEFINE lost == Top.lost \cup Range(call.borrowed)
  <2>1. call' = Idle /\ SetTop([Top EXCEPT !.lost = lost])
    BY <1>3 DEF BorrowFails
  <2>2. lost \in SUBSET Nat /\ Typing
    BY CallFields DEF IInv
  <2> HIDE DEF lost
  <2>3. TopBecomes(Top.locals, Top.used, Top.lent, lost)
    BY <2>1, <2>2, TopEffect, CallFields
  <2> QED  BY <1>1, <1>2, <1>3, <2>1, <2>3 DEF lost
<1>4. CASE call.got # <<>>
  BY <1>1, <1>2, <1>4 DEF BorrowFails
<1> QED  BY <1>3, <1>4

\* The single-qubit Borrow: an id in use is lent, or a free one allocated outright.
LEMMA BorrowSingleEffect ==
    ASSUME IInv, NEW id \in Nat, BorrowSingle(id)
    PROVE  /\ PoolInv' /\ call = Idle /\ UNCHANGED <<call, orphans>> /\ ~DisableBorrowing
           /\ TopBecomes(AddLocal(Top.locals, id), Top.used, Top.lent \cup {id}, Top.lost)
           /\ \/ /\ Mark(id) \notin {0, 2} /\ id \notin QubitsInUse(Top)
                 /\ MarkBecomes(id, Shared(Mark(id))) /\ UNCHANGED strays
              \/ /\ Mark(id) = 0 /\ MarkBecomes(id, 1) /\ strays' = strays \cup {id}
<1> DEFINE locals == AddLocal(Top.locals, id)
           lent == Top.lent \cup {id}
           candidates == BusyIds \ QubitsInUse(Top)
           found == NumAllocatedQubits # Cardinality(QubitsInUse(Top)) /\ candidates # {}
<1>1. call = Idle /\ UNCHANGED <<call, orphans>> /\ ~DisableBorrowing
      /\ SetTop([Top EXCEPT !.locals = locals, !.lent = lent])
  BY DEF BorrowSingle
<1>2. TopBecomes(locals, Top.used, lent, Top.lost)
  <2>1. locals \in Bag /\ lent \in SUBSET Nat /\ Typing
    BY CallFields DEF IInv
  <2> HIDE DEF locals, lent
  <2> QED  BY <1>1, <2>1, TopEffect, CallFields
<1>3. CASE found
  <2>1. /\ id \in candidates
        /\ qubits' = IF IsAllocatedForBorrowing(id) THEN [qubits EXCEPT ![id] = @ + 1] ELSE qubits
        /\ UNCHANGED <<NumQubits, NumAllocatedQubits, NumDisabledQubits, free, freeTail, strays>>
    BY <1>3 DEF BorrowSingle, Lowest
  <2>2. Mark(id) \notin {0, 2} /\ id \notin QubitsInUse(Top)
    BY <2>1, MarkMeaning DEF BusyIds, FreeIds, DisabledIds, IInv, PoolInv
  <2>3. PoolInv' /\ MarkBecomes(id, Shared(Mark(id)))
    BY <2>1, <2>2, ShareEffect DEF IInv
  <2> QED  BY <1>1, <1>2, <2>1, <2>2, <2>3
<1>4. CASE ~found
  <2>1. AllocateOne(id, FALSE) /\ strays' = strays \cup {id}
    BY <1>4 DEF BorrowSingle
  <2>2. PoolInv' /\ Mark(id) = 0 /\ MarkBecomes(id, 1)
    BY <2>1, AllocateOneEffect DEF IInv, MarkBecomes
  <2> QED  BY <1>1, <1>2, <2>1, <2>2
<1> QED  BY <1>3, <1>4

\* The mark of a qubit that loses a borrower.
Unshared(mark) == IF mark = 3 THEN 0 ELSE IF mark > 3 THEN mark - 1 ELSE mark

\* Return: one loan less, and none left frees an id allocated for borrowing.
LEMMA ReturnEffect ==
    ASSUME IInv, NEW id \in Nat, Return(id)
    PROVE  /\ PoolInv' /\ id \in Top.lent /\ call = Idle /\ UNCHANGED <<call, orphans, strays>>
           /\ Mark(id) # 0 /\ MarkBecomes(id, Unshared(Mark(id)))
           /\ TopBecomes(RemoveLocal(Top.locals, id), Top.used, Top.lent \ {id}, Top.lost)
<1> DEFINE locals == RemoveLocal(Top.locals, id)
           lent == Top.lent \ {id}
<1>1. /\ id \in Top.lent /\ call = Idle /\ UNCHANGED <<call, orphans, strays>>
      /\ SetTop([Top EXCEPT !.lent = lent, !.locals = locals])
  BY DEF Return, historyVars
<1>2. TopBecomes(locals, Top.used, lent, Top.lost)
  <2>1. locals \in Bag /\ lent \in SUBSET Nat /\ Typing
    BY CallFields DEF IInv
  <2> HIDE DEF locals, lent
  <2> QED  BY <1>1, <2>1, TopEffect, CallFields
<1>3. /\ Mark(id) # 0 /\ Mark(id) \in Nat /\ id \in Ids /\ qubits[id] \in Nat /\ NumQubits \in Nat
      /\ Mark(id) = qubits[id] - NumQubits
  BY <1>1, Fields, ReachableInUse, MarkMeaning DEF IInv, PoolInv, PoolTyping
<1>4. CASE Mark(id) = 3
  <2>1. ReleaseOne(id)
    BY <1>3, <1>4 DEF Return, AllocatedForBorrowing, AllocatedForBorrowingAt
  <2> QED  BY <1>1, <1>2, <1>3, <1>4, <2>1, ReleaseOneEffect DEF IInv, MarkBecomes, Unshared
<1>5. CASE Mark(id) > 3
  <2>1. /\ qubits' = [qubits EXCEPT ![id] = qubits[id] - 1]
        /\ UNCHANGED <<NumQubits, NumAllocatedQubits, NumDisabledQubits, free, freeTail>>
    BY <1>3, <1>5 DEF Return, AllocatedForBorrowing, AllocatedForBorrowingAt,
       IsAllocatedForBorrowing
  <2>2. /\ qubits[id] - 1 \in Nat /\ qubits[id] - 1 > NumQubits
        /\ qubits[id] - 1 - NumQubits = Mark(id) - 1
        /\ NumAllocatedQubits' \in Int /\ NumDisabledQubits' \in Int
    BY <1>3, <1>5, <2>1 DEF IInv, PoolInv, PoolTyping
  <2>3. PoolInv' /\ MarkBecomes(id, Unshared(Mark(id)))
    <3>1. PICK marker \in Nat : marker = qubits[id] - 1
      BY <2>2
    <3>2. PoolInv' /\ MarkBecomes(id, marker - NumQubits)
      BY <1>3, <2>1, <2>2, <3>1, RemarkEffect DEF IInv, MarkBecomes
    <3> QED  BY <1>5, <2>2, <3>1, <3>2 DEF MarkBecomes, Unshared
  <2> QED  BY <1>1, <1>2, <1>3, <2>3
<1>6. CASE Mark(id) < 3
  <2>1. UNCHANGED poolVars
    BY <1>3, <1>6 DEF Return, AllocatedForBorrowing, AllocatedForBorrowingAt,
       IsAllocatedForBorrowing, poolVars
  <2>2. PoolInv' /\ SameMarks
    BY <2>1, PoolUnchanged DEF IInv
  <2>3. MarkBecomes(id, Unshared(Mark(id)))
    BY <1>3, <1>6, <2>2 DEF SameMarks, MarkBecomes, Unshared
  <2> QED  BY <1>1, <1>2, <1>3, <2>2, <2>3
<1> QED  BY <1>3, <1>4, <1>5, <1>6

-----------------------------------------------------------------------------
(* Sequences without repetition                                             *)

\* Appending adds one element, and a new one keeps the sequence injective.
LEMMA RangeAppend ==
    ASSUME NEW s \in Seq(Nat), NEW x \in Nat
    PROVE  /\ Range(Append(s, x)) = Range(s) \cup {x}
           /\ IsInjective(s) /\ x \notin Range(s) => IsInjective(Append(s, x))
<1>1. /\ Len(s) \in Nat /\ DOMAIN s = 1 .. Len(s)
      /\ DOMAIN Append(s, x) = 1 .. Len(s) + 1
      /\ \A i \in 1 .. Len(s) : Append(s, x)[i] = s[i]
      /\ Append(s, x)[Len(s) + 1] = x
  BY AppendProperties, LenProperties
<1> DEFINE t == Append(s, x)
<1> HIDE DEF t
<1>2. /\ Len(s) \in Nat /\ DOMAIN s = 1 .. Len(s) /\ DOMAIN t = 1 .. Len(s) + 1
      /\ \A i \in 1 .. Len(s) : t[i] = s[i]
      /\ t[Len(s) + 1] = x
  BY <1>1 DEF t
<1>3. Range(t) = Range(s) \cup {x}
  BY <1>2 DEF Range
<1>4. IsInjective(s) /\ x \notin Range(s) => IsInjective(t)
  BY <1>2 DEF Range, IsInjective
<1> QED  BY <1>3, <1>4 DEF t

\* The tail of an injective sequence has every element but the first.
LEMMA RangeTail ==
    ASSUME NEW s \in Seq(Nat), s # <<>>, IsInjective(s)
    PROVE  /\ Range(Tail(s)) = Range(s) \ {Head(s)}
           /\ IsInjective(Tail(s))
           /\ Len(s) = 1 => Range(s) = {Head(s)}
<1>1. /\ Len(s) \in Nat \ {0} /\ DOMAIN s = 1 .. Len(s) /\ Head(s) = s[1]
      /\ Tail(s) \in Seq(Nat) /\ Len(Tail(s)) = Len(s) - 1
      /\ DOMAIN Tail(s) = 1 .. Len(s) - 1
      /\ \A i \in 1 .. Len(s) - 1 : Tail(s)[i] = s[i + 1]
  BY HeadTailProperties, LenProperties, EmptySeq
<1>2. \A i, j \in 1 .. Len(s) : s[i] = s[j] => i = j
  BY <1>1 DEF IsInjective
<1>3. PICK n \in Nat \ {0} : n = Len(s)
  BY <1>1
<1>4. PICK t : t = Tail(s)
  OBVIOUS
<1>5. PICK h : h = Head(s)
  OBVIOUS
<1>6. /\ DOMAIN s = 1 .. n /\ h = s[1] /\ DOMAIN t = 1 .. n - 1
      /\ \A i \in 1 .. n - 1 : t[i] = s[i + 1]
      /\ \A i, j \in 1 .. n : s[i] = s[j] => i = j
  BY <1>1, <1>2, <1>3, <1>4, <1>5
<1>7. Range(t) = Range(s) \ {h}
  <2>1. \A i \in 1 .. n : i # 1 => i - 1 \in 1 .. n - 1 /\ t[i - 1] = s[i] /\ s[i] # h
    BY <1>6
  <2>2. \A i \in 1 .. n - 1 : i + 1 \in 1 .. n /\ t[i] = s[i + 1] /\ t[i] # h
    BY <1>6
  <2>3. Range(t) = {t[i] : i \in 1 .. n - 1} /\ Range(s) = {s[i] : i \in 1 .. n}
    BY <1>6 DEF Range
  <2> QED  BY <1>6, <2>1, <2>2, <2>3
<1>8. IsInjective(t)
  <2>1. \A i, j \in 1 .. n - 1 : t[i] = t[j] => i = j
    BY <1>6
  <2> QED  BY <1>6, <2>1 DEF IsInjective
<1>9. n = 1 => Range(s) = {h}
  BY <1>6 DEF Range
<1> QED  BY <1>3, <1>4, <1>5, <1>7, <1>8, <1>9

-----------------------------------------------------------------------------
(* Ownership                                                                *)

\* Owners change only with what the top frame owns.
LEMMA OwnersSame ==
    ASSUME Typing, Depth' = Depth,
           \A i \in 1 .. Depth : operationStack'[i].used = operationStack[i].used,
           UNCHANGED <<orphans, strays>>,
           \A x \in Nat : (call.op = "allocate" /\ x \in Range(call.got))'
                             <=> (call.op = "allocate" /\ x \in Range(call.got))
    PROVE  \A x \in Nat : Owners(x)' = Owners(x)
BY DEF Owners, Depth, Orphaned, Strayed, Calling

\* Ownership is exclusive as long as owners stay and no mark becomes or stops
\* being that of an owned qubit.
LEMMA OwnKept ==
    ASSUME OwnInv, \A x \in Nat : Owners(x)' = Owners(x),
           \A x \in Nat : \/ Mark(x)' = Mark(x)
                          \/ Mark(x) \notin {1, 2} /\ Mark(x)' # 1
                          \/ Mark(x)' = 2
    PROVE  OwnInv'
BY DEF OwnInv

\* Every action keeps ownership exclusive and in agreement with the marks.
LEMMA OwnStep ==
    ASSUME IInv, Next
    PROVE  OwnInv'
<1>a. Typing /\ OwnInv /\ CallInv /\ PoolInv /\ FrameInv /\ LoanInv
  BY DEF IInv
<1>b. Depth \in Nat \ {0} /\ Depth \in 1 .. Depth /\ Top = operationStack[Depth]
  BY <1>a, Fields
<1>1. ASSUME NEW n \in Nat, BeginAllocate(n) \/ BeginBorrow(n)
      PROVE  OwnInv'
  <2>1. /\ UNCHANGED <<poolVars, operationStack, orphans, strays>>
        /\ call'.got = <<>> /\ call.op = "idle"
    <3>1. CASE BeginAllocate(n)
      BY <3>1 DEF BeginAllocate, Idle, historyVars
    <3>2. CASE BeginBorrow(n)
      BY <3>2 DEF BeginBorrow, Idle, historyVars
    <3> QED  BY <1>1, <3>1, <3>2
  <2>4. \A x \in Nat : x \notin Range(call'.got)
    BY <2>1 DEF Range
  <2>2. \A x \in Nat : Mark(x)' = Mark(x)
    BY <2>1, <1>a, PoolUnchanged DEF SameMarks
  <2>3. \A x \in Nat : Owners(x)' = Owners(x)
    BY <2>1, <2>4, <1>a, OwnersSame DEF Depth
  <2> QED  BY <1>a, <2>2, <2>3, OwnKept
<1>3. ASSUME NEW id \in Nat, AllocateNext(id)
      PROVE  OwnInv'
  <2>1. /\ Mark(id) = 0 /\ MarkBecomes(id, 1) /\ call.op = "allocate"
        /\ UNCHANGED <<orphans, strays>>
    BY <1>3, AllocateNextEffect
  <2>2. Owners(id) = {}
    BY <2>1, <1>a DEF OwnInv
  <2>3. CASE /\ call' = Idle
             /\ TopBecomes(AddLocal(Top.locals, id), Top.used \cup Range(call.got) \cup {id},
                           Top.lent, Top.lost)
    <3>1. \A x \in Nat : x \in Range(call.got) => Owners(x) = {Calling}
      <4>1. \A x \in Nat : x \in Range(call.got) => Calling \in Owners(x)
        BY <2>1 DEF Owners
      <4> QED  BY <1>a, <4>1 DEF OwnInv
    <3>2. call'.op = "idle"
      BY <2>3 DEF Idle
    <3>3. \A x \in Nat : Owners(x)' = IF x \in Range(call.got) \cup {id} THEN {Depth} ELSE Owners(x)
      <4> SUFFICES ASSUME NEW x \in Nat
                   PROVE  Owners(x)' = IF x \in Range(call.got) \cup {id} THEN {Depth} ELSE Owners(x)
        OBVIOUS
      <4>1. \A o : o \in Owners(x)' <=>
                \/ o \in 1 .. Depth /\ x \in IF o = Depth THEN Top.used \cup Range(call.got) \cup {id}
                                             ELSE operationStack[o].used
                \/ o = Orphaned /\ x \in orphans.used
                \/ o = Strayed /\ x \in strays
        BY <2>1, <2>3, <3>2 DEF Owners, TopBecomes, Depth
      <4>2. \A o : o \in Owners(x) <=>
                \/ o \in 1 .. Depth /\ x \in operationStack[o].used
                \/ o = Orphaned /\ x \in orphans.used
                \/ o = Strayed /\ x \in strays
                \/ o = Calling /\ x \in Range(call.got)
        BY <2>1 DEF Owners, Depth
      <4>3. Calling \notin 1 .. Depth /\ Calling # Orphaned /\ Calling # Strayed
        BY <1>b DEF Calling, Orphaned, Strayed
      <4>4. CASE x \in Range(call.got) \cup {id}
        <5>1. \A o : o \in Owners(x) => o = Calling
          BY <2>2, <3>1, <4>4
        <5> QED  BY <1>b, <4>1, <4>2, <4>3, <4>4, <5>1
      <4>5. CASE x \notin Range(call.got) \cup {id}
        BY <1>b, <4>1, <4>2, <4>5
      <4> QED  BY <4>4, <4>5
    <3>4. \A x \in Nat : x \in Range(call.got) => Mark(x) = 1
      BY <1>a, <2>1 DEF CallInv
    <3> QED  BY <1>a, <2>1, <3>3, <3>4 DEF OwnInv, MarkBecomes
  <2>4. CASE /\ call' = [call EXCEPT !.got = Append(call.got, id)]
             /\ TopBecomes(AddLocal(Top.locals, id), Top.used, Top.lent, Top.lost)
    <3>1. call'.op = "allocate" /\ Range(call'.got) = Range(call.got) \cup {id}
      BY <1>a, <2>1, <2>4, RangeAppend, CallFields DEF Typing, CallShape
    <3>2. \A x \in Nat : Owners(x)' = IF x = id THEN {Calling} ELSE Owners(x)
      BY <1>b, <2>1, <2>2, <2>4, <3>1 DEF Owners, TopBecomes, Depth
    <3> QED  BY <1>a, <2>1, <3>2 DEF OwnInv, MarkBecomes
  <2> QED  BY <1>3, <2>3, <2>4, AllocateNextEffect
<1>4. ASSUME NEW id \in Nat, Release(id)
      PROVE  OwnInv'
  <2>1. /\ id \in Top.used /\ call = Idle /\ UNCHANGED <<call, orphans, strays>>
        /\ Depth' = Depth
        /\ \A i \in 1 .. Depth : operationStack'[i].used =
              IF i = Depth THEN Top.used \ {id} ELSE operationStack[i].used
        /\ \A x \in Nat : x # id => Mark(x)' = Mark(x)
        /\ Mark(id)' # 1
    <3>1. /\ id \in Top.used /\ call = Idle /\ UNCHANGED <<call, orphans, strays>>
          /\ \/ /\ Mark(id) = 2 /\ SameMarks
                /\ TopBecomes(Top.locals, Top.used \ {id}, Top.lent, Top.lost)
             \/ /\ MarkBecomes(id, 0)
                /\ TopBecomes(RemoveLocal(Top.locals, id), Top.used \ {id}, Top.lent, Top.lost)
      BY <1>4, <1>a, ReleaseEffect
    <3>2. CASE Mark(id) = 2 /\ SameMarks /\ TopBecomes(Top.locals, Top.used \ {id}, Top.lent, Top.lost)
      BY <3>1, <3>2 DEF TopBecomes, SameMarks
    <3>3. CASE MarkBecomes(id, 0)
               /\ TopBecomes(RemoveLocal(Top.locals, id), Top.used \ {id}, Top.lent, Top.lost)
      BY <3>1, <3>3 DEF TopBecomes, MarkBecomes
    <3> QED  BY <3>1, <3>2, <3>3
  <2>2. Owners(id) = {Depth}
    <3>1. Depth \in Owners(id)
      BY <1>b, <2>1 DEF Owners, Depth
    <3> QED  BY <1>a, <3>1 DEF OwnInv
  <2>3. \A x \in Nat : Owners(x)' = IF x = id THEN {} ELSE Owners(x)
    <3>1. \A x \in Nat : x # id => Owners(x)' = Owners(x)
      BY <1>b, <2>1 DEF Owners, Depth
    <3>2. Owners(id)' \subseteq Owners(id) /\ Depth \notin Owners(id)'
      BY <1>b, <2>1 DEF Owners, Depth, Orphaned, Strayed, Calling
    <3> QED  BY <2>2, <3>1, <3>2
  <2> QED  BY <1>a, <2>1, <2>3 DEF OwnInv
<1>5. ASSUME NEW id \in Nat, Disable(id)
      PROVE  OwnInv'
  <2>1. MarkBecomes(id, 2) /\ UNCHANGED <<operationStack, call, orphans, strays>>
    BY <1>5, DisableEffect
  <2>2. \A x \in Nat : Owners(x)' = Owners(x)
    BY <2>1, <1>a, OwnersSame DEF Depth
  <2> QED  BY <1>a, <2>1, <2>2, OwnKept DEF MarkBecomes
<1>6. ASSUME call.op = "borrow", call'.op # "allocate", UNCHANGED <<orphans, strays>>,
             NEW locals, NEW lent, NEW lost, TopBecomes(locals, Top.used, lent, lost)
      PROVE  \A x \in Nat : Owners(x)' = Owners(x)
  BY <1>6, <1>a, <1>b, OwnersSame DEF TopBecomes
<1>7. ASSUME NEW id \in Nat, BorrowNext(id)
      PROVE  OwnInv'
  <2>1. /\ Mark(id) \notin {0, 2} /\ MarkBecomes(id, Shared(Mark(id))) /\ Mark(id) \in Nat
    BY <1>7, <1>a, BorrowNextEffect, MarkMeaning DEF PoolInv
  <2>2. \A x \in Nat : Owners(x)' = Owners(x)
    <3>1. Idle.op # "allocate" /\ Idle' = Idle /\ call \in CallShape
      BY <1>a, IdleShape DEF Idle, Typing
    <3>2. call.op = "borrow" /\ UNCHANGED <<orphans, strays>>
      BY <1>7, BorrowNextEffect
    <3>3. call'.op # "allocate"
      BY <1>7, <3>1, <3>2, BorrowNextEffect DEF CallShape
    <3> QED  BY <1>7, <1>6, <3>2, <3>3, BorrowNextEffect
  <2> QED  BY <1>a, <2>1, <2>2, OwnKept DEF MarkBecomes, Shared
<1>8. ASSUME NEW id \in Nat, BorrowAllocates(id)
      PROVE  OwnInv'
  <2>1. Mark(id) = 0 /\ MarkBecomes(id, 3)
    BY <1>8, BorrowAllocatesEffect
  <2>2. \A x \in Nat : Owners(x)' = Owners(x)
    <3>1. Idle.op # "allocate" /\ Idle' = Idle /\ call \in CallShape
      BY <1>a, IdleShape DEF Idle, Typing
    <3>2. call.op = "borrow" /\ UNCHANGED <<orphans, strays>>
      BY <1>8, BorrowAllocatesEffect
    <3>3. call'.op # "allocate"
      BY <1>8, <3>1, <3>2, BorrowAllocatesEffect DEF CallShape
    <3> QED  BY <1>8, <1>6, <3>2, <3>3, BorrowAllocatesEffect
  <2> QED  BY <1>a, <2>1, <2>2, OwnKept DEF MarkBecomes
<1>9. ASSUME NEW id \in Nat, BorrowSingle(id)
      PROVE  OwnInv'
  <2>1. /\ call = Idle /\ UNCHANGED <<call, orphans>>
        /\ TopBecomes(AddLocal(Top.locals, id), Top.used, Top.lent \cup {id}, Top.lost)
    BY <1>9, BorrowSingleEffect
  <2>2. CASE Mark(id) \notin {0, 2} /\ MarkBecomes(id, Shared(Mark(id))) /\ UNCHANGED strays
    <3>1. \A x \in Nat : Owners(x)' = Owners(x)
      BY <1>a, <1>b, <2>1, <2>2, OwnersSame DEF TopBecomes
    <3>2. Mark(id) \in Nat
      BY <1>a, MarkMeaning DEF PoolInv
    <3> QED  BY <1>a, <2>2, <3>1, <3>2, OwnKept DEF MarkBecomes, Shared
  <2>3. CASE Mark(id) = 0 /\ MarkBecomes(id, 1) /\ strays' = strays \cup {id}
    <3>1. Owners(id) = {}
      BY <1>a, <2>3 DEF OwnInv
    <3>2. \A x \in Nat : Owners(x)' = IF x = id THEN {Strayed} ELSE Owners(x)
      BY <1>b, <2>1, <2>3, <3>1 DEF Owners, TopBecomes, Depth, Idle
    <3> QED  BY <1>a, <2>3, <3>2 DEF OwnInv, MarkBecomes
  <2> QED  BY <1>9, <2>2, <2>3, BorrowSingleEffect
<1>10. ASSUME NEW id \in Nat, Return(id)
       PROVE  OwnInv'
  <2>1. /\ call = Idle /\ UNCHANGED <<call, orphans, strays>>
        /\ TopBecomes(RemoveLocal(Top.locals, id), Top.used, Top.lent \ {id}, Top.lost)
        /\ MarkBecomes(id, Unshared(Mark(id))) /\ Mark(id) # 0
    BY <1>10, ReturnEffect
  <2>2. \A x \in Nat : Owners(x)' = Owners(x)
    BY <1>a, <1>b, <2>1, OwnersSame DEF TopBecomes
  <2>3. Mark(id) \in Nat
    BY <1>a, MarkMeaning DEF PoolInv
  <2> QED  BY <1>a, <2>1, <2>2, <2>3, OwnKept DEF MarkBecomes, Unshared
<1>11. ASSUME AllocateFails
       PROVE  OwnInv'
  <2>1. /\ UNCHANGED <<poolVars, operationStack, orphans, strays>>
        /\ call.op = "allocate"
        /\ \/ call.got = <<>> /\ call' = Idle
           \/ call' = [call EXCEPT !.undoing = TRUE]
    BY <1>11 DEF AllocateFails, Taking, historyVars
  <2>2. \A x \in Nat : (call.op = "allocate" /\ x \in Range(call.got))'
                        <=> (call.op = "allocate" /\ x \in Range(call.got))
    BY <1>a, <2>1, RangeType DEF Idle, Typing, CallShape
  <2>3. \A x \in Nat : Owners(x)' = Owners(x)
    BY <1>a, <2>1, <2>2, OwnersSame DEF Depth
  <2> QED  BY <1>a, <2>1, <2>3, OwnKept, PoolUnchanged DEF SameMarks
<1>12. ASSUME BorrowFails
       PROVE  OwnInv'
  <2>1. /\ SameMarks /\ call.op = "borrow" /\ UNCHANGED <<orphans, strays>>
        /\ \/ /\ call' = Idle
              /\ TopBecomes(Top.locals, Top.used, Top.lent, Top.lost \cup Range(call.borrowed))
           \/ call' = [call EXCEPT !.undoing = TRUE] /\ UNCHANGED operationStack
    BY <1>12, BorrowFailsEffect
  <2>2. call'.op # "allocate"
    <3>1. Idle.op # "allocate" /\ Idle' = Idle /\ call \in CallShape
      BY <1>a, IdleShape DEF Idle, Typing
    <3> QED  BY <2>1, <3>1 DEF CallShape
  <2>3. \A x \in Nat : Owners(x)' = Owners(x)
    BY <1>a, <1>b, <2>1, <2>2, OwnersSame DEF Depth, TopBecomes
  <2> QED  BY <1>a, <2>1, <2>3, OwnKept DEF SameMarks
<1>13. ASSUME RollbackNext
       PROVE  OwnInv'
  <2>0. PICK h : h = Head(call.got)
    OBVIOUS
  <2>1. /\ MarkBecomes(h, 0) /\ call.got # <<>> /\ h \in Nat /\ h \in Range(call.got)
        /\ UNCHANGED <<orphans, strays>> /\ Depth' = Depth
        /\ \A i \in 1 .. Depth : operationStack'[i].used = operationStack[i].used
        /\ \/ Len(call.got) = 1 /\ call' = Idle
           \/ call' = [call EXCEPT !.got = Tail(call.got)]
    BY <1>13, <1>b, <2>0, RollbackNextEffect DEF TopBecomes
  <2>2. /\ Range(Tail(call.got)) = Range(call.got) \ {h}
        /\ Len(call.got) = 1 => Range(call.got) = {h}
    BY <1>a, <2>0, <2>1, RangeTail, CallFields DEF CallInv
  <2>3. \/ call'.op # "allocate" /\ Range(call.got) = {h}
        \/ call'.op = call.op /\ Range(call'.got) = Range(call.got) \ {h}
    <3>1. Idle.op # "allocate" /\ Idle' = Idle /\ call \in CallShape
      BY <1>a, IdleShape DEF Idle, Typing
    <3>2. CASE Len(call.got) = 1 /\ call' = Idle
      BY <2>2, <3>1, <3>2
    <3>3. CASE call' = [call EXCEPT !.got = Tail(call.got)]
      BY <2>2, <3>1, <3>3 DEF CallShape
    <3> QED  BY <2>1, <3>2, <3>3
  <2>4. CASE call.op = "allocate"
    <3>1. Owners(h) = {Calling}
      <4>1. Calling \in Owners(h)
        BY <2>1, <2>4 DEF Owners
      <4> QED  BY <1>a, <2>1, <4>1 DEF OwnInv
    <3>2. \A x \in Nat : Owners(x)' = IF x = h THEN {} ELSE Owners(x)
      <4>0. \A x \in Nat : (call.op = "allocate" /\ x \in Range(call.got))'
                              <=> x \in Range(call.got) /\ x # h
        BY <2>3, <2>4
      <4>1. \A x \in Nat : x # h => Owners(x)' = Owners(x)
        BY <1>b, <2>1, <2>4, <4>0 DEF Owners, Depth
      <4>2. Owners(h)' \subseteq Owners(h) /\ Calling \notin Owners(h)'
        BY <1>b, <2>1, <4>0 DEF Owners, Depth, Orphaned, Strayed, Calling
      <4> QED  BY <3>1, <4>1, <4>2
    <3> QED  BY <1>a, <2>1, <3>2 DEF OwnInv, MarkBecomes
  <2>5. CASE call.op # "allocate"
    <3>1. call'.op # "allocate" /\ call.op = "borrow"
      BY <1>13, <2>3, <2>5, RollbackNextEffect
    <3>2. \A x \in Nat : Owners(x)' = Owners(x)
      BY <1>a, <2>1, <2>5, <3>1, OwnersSame
    <3>3. Mark(h) = 3
      BY <1>a, <2>1, <3>1 DEF CallInv
    <3> QED  BY <1>a, <2>1, <3>2, <3>3, OwnKept DEF MarkBecomes
  <2> QED  BY <2>4, <2>5
<1>14. ASSUME NEW args \in SUBSET Nat, OnOperationStart(args)
       PROVE  OwnInv'
  <2>1. /\ operationStack' = Append(operationStack, Frame(args))
        /\ UNCHANGED <<poolVars, call, orphans, strays>>
    BY <1>14 DEF OnOperationStart, historyVars
  <2>2. /\ Depth' = Depth + 1
        /\ \A i \in 1 .. Depth : operationStack'[i] = operationStack[i]
        /\ operationStack'[Depth + 1].used = {}
    BY <1>a, <2>1, AppendProperties, FrameType DEF Depth, Typing, Frame
  <2>3. \A x \in Nat : Owners(x)' = Owners(x)
    BY <1>b, <2>1, <2>2 DEF Owners, Depth
  <2> QED  BY <1>a, <2>1, <2>3, OwnKept, PoolUnchanged DEF SameMarks
<1>15. ASSUME NEW depth \in 1 .. Depth, PopTo(depth), call = Idle
       PROVE  OwnInv'
  <2>1. /\ UNCHANGED <<poolVars, call, strays>>
        /\ Depth' = depth
        /\ \A i \in 1 .. depth : operationStack'[i] = operationStack[i]
    BY <1>15, <1>a, <1>b, SubSeqProperties, Fields DEF PopTo, Typing, Depth
  <2>2. \A x : x \in orphans'.used <=>
            x \in orphans.used \/ \E i \in depth + 1 .. Depth : x \in operationStack[i].used
    BY <1>15 DEF PopTo, Abandoned, Depth
  <2>3. \A x \in Nat : \A o : o \in Owners(x)' <=>
            \/ o \in 1 .. depth /\ o \in Owners(x)
            \/ /\ o = Orphaned
               /\ \/ Orphaned \in Owners(x)
                  \/ \E i \in depth + 1 .. Depth : i \in Owners(x)
            \/ o = Strayed /\ o \in Owners(x)
    BY <1>15, <1>b, <2>1, <2>2 DEF Owners, Depth, Orphaned, Strayed, Calling, Idle
  <2>4. \A x \in Nat : /\ \A o, p \in Owners(x)' : o = p
                       /\ Owners(x)' # {} <=> Owners(x) # {}
    <3> SUFFICES ASSUME NEW x \in Nat
                 PROVE  /\ \A o, p \in Owners(x)' : o = p
                        /\ Owners(x)' # {} <=> Owners(x) # {}
      OBVIOUS
    <3>1. \A o, p \in Owners(x) : o = p
      BY <1>a DEF OwnInv
    <3>2. \A o \in Owners(x) : o \in 1 .. Depth \/ o = Orphaned \/ o = Strayed
      BY <1>15 DEF Owners, Depth, Idle
    <3>3. Orphaned \notin 1 .. Depth /\ Strayed \notin 1 .. Depth /\ Strayed # Orphaned
          /\ 1 .. Depth = (1 .. depth) \cup (depth + 1 .. Depth)
          /\ (1 .. depth) \cap (depth + 1 .. Depth) = {}
      BY <1>b DEF Orphaned, Strayed
    <3> QED  BY <2>3, <3>1, <3>2, <3>3
  <2>5. SameMarks
    BY <1>a, <2>1, PoolUnchanged
  <2> QED  BY <1>a, <2>4, <2>5 DEF OwnInv, SameMarks
<1>16. ASSUME OnOperationEnd \/ Fail
       PROVE  OwnInv'
  <2>1. call = Idle /\ \E depth \in 1 .. Depth : PopTo(depth)
    BY <1>16, <1>b DEF OnOperationEnd, Fail, Depth
  <2> QED  BY <1>15, <2>1
<1> QED  BY <1>a, NextCases, <1>1, <1>3, <1>4, <1>5, <1>7, <1>8, <1>9, <1>10, <1>11, <1>12,
            <1>13, <1>14, <1>16 DEF IInv, PoolInv

-----------------------------------------------------------------------------
(* Loans                                                                    *)

\* How the number of frames that have x on loan changes with the current frame.
LEMMA LoanFramesEffect ==
    ASSUME Typing, NEW locals, NEW used, NEW lent, NEW lost,
           TopBecomes(locals, used, lent, lost), NEW x \in Nat
    PROVE  /\ Cardinality(LoanFrames(x)) \in Nat /\ Cardinality(LoanFrames(x))' \in Nat
           /\ Cardinality(LoanFrames(x))' =
                Cardinality(LoanFrames(x)) + (IF x \in lent \cup lost THEN 1 ELSE 0)
                                           - (IF x \in Top.lent \cup Top.lost THEN 1 ELSE 0)
<1>1. Depth \in 1 .. Depth /\ Depth \in Nat /\ Top = operationStack[Depth] /\ Depth' = Depth
  BY Fields DEF TopBecomes
<1>2. PICK d \in Nat : d = Depth
  BY <1>1
<1>3. PICK S : S = LoanFrames(x)
  OBVIOUS
<1>4. PICK T : T = LoanFrames(x)'
  OBVIOUS
<1>5. d \in S <=> x \in Top.lent \cup Top.lost
  BY <1>1, <1>2, <1>3 DEF LoanFrames, Depth
<1>6. d \in T <=> x \in lent \cup lost
  BY <1>1, <1>2, <1>4 DEF LoanFrames, Depth, TopBecomes
<1>7. \A i : i # d => (i \in S <=> i \in T)
  BY <1>1, <1>2, <1>3, <1>4 DEF LoanFrames, Depth, TopBecomes
<1>8. IsFiniteSet(S)
  <2>1. IsFiniteSet(1 .. d) /\ S \in SUBSET (1 .. d)
    BY <1>2, <1>3, FS_Interval DEF LoanFrames, Depth
  <2> QED  BY <2>1, FS_Subset
<1>9. IsFiniteSet(T) /\ IsFiniteSet(S \ {d})
  <2>1. IsFiniteSet(1 .. d) /\ T \in SUBSET (1 .. d) /\ S \ {d} \in SUBSET S
    BY <1>1, <1>2, <1>4, FS_Interval DEF LoanFrames, Depth
  <2> QED  BY <1>8, <2>1, FS_Subset
<1>10. T \ {d} = S \ {d}
  BY <1>7
<1>11. /\ Cardinality(S) = Cardinality(S \ {d}) + (IF d \in S THEN 1 ELSE 0)
       /\ Cardinality(T) = Cardinality(T \ {d}) + (IF d \in T THEN 1 ELSE 0)
       /\ Cardinality(S) \in Nat /\ Cardinality(T) \in Nat /\ Cardinality(S \ {d}) \in Nat
  <2>1. Cardinality(S) \in Nat /\ Cardinality(T) \in Nat /\ Cardinality(S \ {d}) \in Nat
    BY <1>8, <1>9, FS_CardinalityType
  <2>2. Cardinality(S \ {d}) = IF d \in S THEN Cardinality(S) - 1 ELSE Cardinality(S)
    BY <1>8, FS_RemoveElement
  <2>3. Cardinality(T \ {d}) = IF d \in T THEN Cardinality(T) - 1 ELSE Cardinality(T)
    BY <1>9, FS_RemoveElement
  <2> QED  BY <2>1, <2>2, <2>3, <1>10
<1>12. Cardinality(T) = Cardinality(S) + (IF d \in T THEN 1 ELSE 0) - (IF d \in S THEN 1 ELSE 0)
  BY <1>10, <1>11
<1> QED  BY <1>3, <1>4, <1>5, <1>6, <1>11, <1>12

\* How the loans of x change with the current frame and the loop in progress.
LEMMA LoansEffect ==
    ASSUME Typing, LoanInv, UNCHANGED orphans, NEW locals, NEW used, NEW lent, NEW lost,
           TopBecomes(locals, used, lent, lost), NEW x \in Nat
    PROVE  /\ Loans(x) \in Nat /\ Loans(x)' \in Int
           /\ Loans(x)' = Loans(x) + (IF x \in lent \cup lost THEN 1 ELSE 0)
                                   - (IF x \in Top.lent \cup Top.lost THEN 1 ELSE 0)
                                   + (IF x \in Pending' THEN 1 ELSE 0)
                                   - (IF x \in Pending THEN 1 ELSE 0)
<1>1. PICK c : c = Cardinality(LoanFrames(x))
  OBVIOUS
<1>2. PICK e : e = Cardinality(LoanFrames(x))'
  OBVIOUS
<1>3. PICK r : r = OrphanLoans(x)
  OBVIOUS
<1>4. c \in Nat /\ e \in Nat /\ r \in Nat
      /\ e = c + (IF x \in lent \cup lost THEN 1 ELSE 0)
               - (IF x \in Top.lent \cup Top.lost THEN 1 ELSE 0)
  BY <1>1, <1>2, <1>3, LoanFramesEffect, LoansType
<1>5. Loans(x) = c + r + (IF x \in Pending THEN 1 ELSE 0)
  BY <1>1, <1>3, LoansType
<1>6. Loans(x)' = e + r + (IF x \in Pending' THEN 1 ELSE 0)
  BY <1>2, <1>3 DEF Loans, OrphanLoans
<1> QED  BY <1>4, <1>5, <1>6

\* A step that moves nothing in or out of the top frame's loans changes no count.
LEMMA SameLoans ==
    ASSUME Typing, LoanInv, UNCHANGED orphans, NEW locals, NEW used, NEW lent, NEW lost,
           TopBecomes(locals, used, lent, lost), lent \cup lost = Top.lent \cup Top.lost,
           Pending' = Pending
    PROVE  \A x \in Nat : Loans(x)' = Loans(x)
<1> SUFFICES ASSUME NEW x \in Nat
             PROVE  Loans(x)' = Loans(x)
  OBVIOUS
<1>1. /\ Loans(x) \in Nat /\ Loans(x)' \in Int
      /\ Loans(x)' = Loans(x) + (IF x \in lent \cup lost THEN 1 ELSE 0)
                              - (IF x \in Top.lent \cup Top.lost THEN 1 ELSE 0)
                              + (IF x \in Pending' THEN 1 ELSE 0)
                              - (IF x \in Pending THEN 1 ELSE 0)
  BY LoansEffect
<1> QED  BY <1>1

\* The ways in which one step may move a mark and the loans behind it.
LEMMA LoanKept ==
    ASSUME PoolInv, LoanInv, UNCHANGED orphans,
           \A x \in Nat :
            \/ Mark(x)' = Mark(x) /\ Loans(x)' = Loans(x)
            \/ Mark(x)' = 2 /\ Mark(x) # 0
            \/ Mark(x)' = 1 /\ Mark(x) \in {0, 1}
            \/ Mark(x)' = 3 /\ Mark(x) = 0 /\ Loans(x)' = 1
            \/ Mark(x)' = Mark(x) + 1 /\ Mark(x) >= 3 /\ Loans(x)' = Loans(x) + 1
            \/ Mark(x)' = Mark(x) - 1 /\ Mark(x) > 3 /\ Loans(x)' = Loans(x) - 1
            \/ Mark(x)' = 0 /\ Loans(x)' = 0 /\ x \notin DOMAIN orphans.lent
    PROVE  LoanInv'
<1>1. \A x \in Nat : Mark(x) \in Nat
  BY MarkMeaning DEF PoolInv
<1> SUFFICES ASSUME NEW x \in Nat
             PROVE  /\ Mark(x)' >= 3 => Loans(x)' = Mark(x)' - 2
                    /\ Mark(x)' = 0 => Loans(x)' = 0
                    /\ x \in DOMAIN orphans.lent =>
                         Mark(x)' >= 2 /\ orphans.lent[x] \in Nat \ {0}
  BY DEF LoanInv
<1>2. /\ Mark(x) >= 3 => Loans(x) = Mark(x) - 2
      /\ Mark(x) = 0 => Loans(x) = 0
      /\ x \in DOMAIN orphans.lent => Mark(x) >= 2 /\ orphans.lent[x] \in Nat \ {0}
      /\ Mark(x) \in Nat
  BY <1>1 DEF LoanInv
<1>3. \/ Mark(x)' = Mark(x) /\ Loans(x)' = Loans(x)
      \/ Mark(x)' = 2 /\ Mark(x) # 0
      \/ Mark(x)' = 1 /\ Mark(x) \in {0, 1}
      \/ Mark(x)' = 3 /\ Mark(x) = 0 /\ Loans(x)' = 1
      \/ Mark(x)' = Mark(x) + 1 /\ Mark(x) >= 3 /\ Loans(x)' = Loans(x) + 1
      \/ Mark(x)' = Mark(x) - 1 /\ Mark(x) > 3 /\ Loans(x)' = Loans(x) - 1
      \/ Mark(x)' = 0 /\ Loans(x)' = 0 /\ x \notin DOMAIN orphans.lent
  OBVIOUS
<1> QED  BY <1>2, <1>3

\* A step that keeps the stack keeps it as it is.
LEMMA SameTop ==
    ASSUME Typing, UNCHANGED operationStack
    PROVE  TopBecomes(Top.locals, Top.used, Top.lent, Top.lost)
BY Fields DEF TopBecomes, Depth

\* What the call has pending after a step that ends or extends it.
LEMMA PendingIdle ==
    ASSUME call' = Idle
    PROVE  Pending' = {}
BY DEF Pending, Idle

\* No frame has on loan what its own top frame could release or is about to take.
LEMMA UsedIsNotLent ==
    ASSUME IInv, NEW x \in Top.used, call = Idle, Mark(x) = 1
    PROVE  Loans(x) = 0 /\ x \notin DOMAIN orphans.lent /\ x \in Nat
<1>1. Depth \in 1 .. Depth /\ Top = operationStack[Depth] /\ Depth \in Nat /\ x \in Nat
  BY Fields DEF IInv
<1>2. \A i \in 1 .. Depth : x \notin operationStack[i].lent /\ x \notin operationStack[i].lost
  BY <1>1 DEF IInv, FrameInv
<1>3. LoanFrames(x) = {}
  BY <1>2 DEF LoanFrames, Depth
<1>4. x \notin DOMAIN orphans.lent
  BY <1>1 DEF IInv, LoanInv
<1>5. Loans(x) = Cardinality({}) + 0 + 0
  BY <1>3, <1>4 DEF Loans, Pending, Idle
<1> QED  BY <1>1, <1>4, <1>5, FS_EmptySet

\* What a loop that borrows has taken is on loan to it and to no frame it works for.
LEMMA PendingIsNew ==
    ASSUME IInv, call.op = "borrow"
    PROVE  /\ Pending = Range(call.borrowed) \cup Range(call.got)
           /\ \A x \in Pending : x \notin Top.lent \cup Top.lost
BY DEF IInv, CallInv, Pending

\* Beginning a call, and every round of Allocate(n), keep the loan counts exact.
LEMMA LoanStepAllocate ==
    ASSUME IInv,
           \/ \E n \in Nat : BeginAllocate(n) \/ BeginBorrow(n)
           \/ \E id \in Nat : AllocateNext(id)
           \/ AllocateFails
    PROVE  LoanInv'
<1>a. Typing /\ LoanInv /\ CallInv /\ PoolInv /\ call \in CallShape
  BY DEF IInv, Typing
<1>1. ASSUME NEW n \in Nat, BeginAllocate(n) \/ BeginBorrow(n)
      PROVE  LoanInv'
  <2>1. /\ UNCHANGED <<poolVars, operationStack, orphans>>
        /\ call'.got = <<>> /\ call'.borrowed = <<>> /\ call.op = "idle"
    <3>1. CASE BeginAllocate(n)
      BY <3>1 DEF BeginAllocate, Idle, historyVars
    <3>2. CASE BeginBorrow(n)
      BY <3>2 DEF BeginBorrow, Idle, historyVars
    <3> QED  BY <1>1, <3>1, <3>2
  <2>2. Pending' = {} /\ Pending = {}
    BY <2>1 DEF Pending, Range
  <2>3. \A x \in Nat : Loans(x)' = Loans(x)
    BY <1>a, <2>1, <2>2, SameTop, SameLoans
  <2> QED  BY <1>a, <2>1, <2>3, LoanKept, PoolUnchanged DEF SameMarks
<1>2. ASSUME NEW id \in Nat, AllocateNext(id)
      PROVE  LoanInv'
  <2>1. /\ Mark(id) = 0 /\ MarkBecomes(id, 1) /\ call.op = "allocate" /\ UNCHANGED orphans
        /\ \/ /\ call' = Idle
              /\ TopBecomes(AddLocal(Top.locals, id), Top.used \cup Range(call.got) \cup {id},
                            Top.lent, Top.lost)
           \/ /\ call' = [call EXCEPT !.got = Append(call.got, id)]
              /\ TopBecomes(AddLocal(Top.locals, id), Top.used, Top.lent, Top.lost)
    BY <1>2, AllocateNextEffect
  <2>2. Pending = {} /\ Pending' = {}
    <3>1. CASE call' = Idle
      BY <2>1, <3>1, PendingIdle DEF Pending
    <3>2. CASE call' = [call EXCEPT !.got = Append(call.got, id)]
      BY <1>a, <2>1, <3>2 DEF Pending, CallShape
    <3> QED  BY <2>1, <3>1, <3>2
  <2>3. \A x \in Nat : Loans(x)' = Loans(x)
    BY <1>a, <2>1, <2>2, SameLoans
  <2> QED  BY <1>a, <2>1, <2>3, LoanKept DEF MarkBecomes
<1>3. ASSUME AllocateFails
      PROVE  LoanInv'
  <2>1. /\ UNCHANGED <<poolVars, operationStack, orphans>>
        /\ call.op = "allocate"
        /\ call' = Idle \/ call' = [call EXCEPT !.undoing = TRUE]
    BY <1>3 DEF AllocateFails, Taking, historyVars
  <2>2. Pending = {} /\ Pending' = {}
    <3>1. CASE call' = Idle
      BY <2>1, <3>1, PendingIdle DEF Pending
    <3>2. CASE call' = [call EXCEPT !.undoing = TRUE]
      BY <1>a, <2>1, <3>2 DEF Pending, CallShape
    <3> QED  BY <2>1, <3>1, <3>2
  <2>3. \A x \in Nat : Loans(x)' = Loans(x)
    BY <1>a, <2>1, <2>2, SameTop, SameLoans
  <2> QED  BY <1>a, <2>1, <2>3, LoanKept, PoolUnchanged DEF SameMarks
<1> QED  BY <1>1, <1>2, <1>3

\* Release, Disable and Return keep the loan counts exact.
LEMMA LoanStepGiveBack ==
    ASSUME IInv, NEW id \in Nat, Release(id) \/ Disable(id) \/ Return(id)
    PROVE  LoanInv'
<1>a. Typing /\ LoanInv /\ CallInv /\ PoolInv /\ FrameInv /\ call \in CallShape
  BY DEF IInv, Typing
<1>b. Depth \in 1 .. Depth /\ Top = operationStack[Depth] /\ Depth \in Nat
  BY <1>a, Fields
<1>1. CASE Release(id)
  <2>1. /\ id \in Top.used /\ call = Idle /\ UNCHANGED <<call, orphans>>
        /\ \/ Mark(id) = 2 /\ SameMarks
           \/ Mark(id) = 1 /\ MarkBecomes(id, 0)
        /\ \E locals : TopBecomes(locals, Top.used \ {id}, Top.lent, Top.lost)
    BY <1>1, ReleaseEffect
  <2>2. Pending = {} /\ Pending' = {}
    BY <2>1 DEF Pending, Idle
  <2>3. \A x \in Nat : Loans(x)' = Loans(x)
    BY <1>a, <2>1, <2>2, SameLoans
  <2>4. Mark(id) = 1 => Loans(id) = 0 /\ id \notin DOMAIN orphans.lent
    BY <2>1, UsedIsNotLent
  <2>5. CASE Mark(id) = 2 /\ SameMarks
    BY <1>a, <2>1, <2>3, <2>5, LoanKept DEF SameMarks
  <2>6. CASE Mark(id) = 1 /\ MarkBecomes(id, 0)
    <3>1. Loans(id)' = 0
      BY <2>3, <2>4, <2>6
    <3>2. \A x \in Nat : x # id => Mark(x)' = Mark(x)
      BY <2>6 DEF MarkBecomes
    <3>3. Mark(id)' = 0
      BY <2>6 DEF MarkBecomes
    <3> QED  BY <1>a, <2>1, <2>3, <2>4, <2>6, <3>1, <3>2, <3>3, LoanKept
  <2> QED  BY <2>1, <2>5, <2>6
<1>2. CASE Disable(id)
  <2>1. /\ Mark(id) \notin {0, 2} /\ MarkBecomes(id, 2)
        /\ UNCHANGED <<operationStack, call, orphans>>
    BY <1>2, DisableEffect
  <2>2. Pending' = Pending
    BY <2>1 DEF Pending
  <2>3. \A x \in Nat : Loans(x)' = Loans(x)
    BY <1>a, <2>1, <2>2, SameTop, SameLoans
  <2> QED  BY <1>a, <2>1, <2>3, LoanKept DEF MarkBecomes
<1>3. CASE Return(id)
  <2>1. /\ id \in Top.lent /\ call = Idle /\ UNCHANGED <<call, orphans>>
        /\ Mark(id) # 0 /\ MarkBecomes(id, Unshared(Mark(id)))
        /\ TopBecomes(RemoveLocal(Top.locals, id), Top.used, Top.lent \ {id}, Top.lost)
    BY <1>3, ReturnEffect
  <2>2. Pending = {} /\ Pending' = {}
    BY <2>1 DEF Pending, Idle
  <2>3. id \notin Top.lost
    BY <1>a, <1>b, <2>1 DEF FrameInv
  <2>4. \A x \in Nat : x # id => Loans(x)' = Loans(x)
    BY <1>a, <2>1, <2>2, LoansEffect
  <2>5. Loans(id)' = Loans(id) - 1 /\ Loans(id) \in Nat
    BY <1>a, <2>1, <2>2, <2>3, LoansEffect
  <2>6. /\ Mark(id) \in Nat /\ (Mark(id) >= 3 => Loans(id) = Mark(id) - 2)
        /\ (id \in DOMAIN orphans.lent => orphans.lent[id] \in Nat \ {0})
    BY <1>a, MarkMeaning DEF PoolInv, LoanInv
  <2>7. \A x \in Nat : x # id => Mark(x)' = Mark(x)
    BY <2>1 DEF MarkBecomes
  <2>8. Mark(id)' = Unshared(Mark(id))
    BY <2>1 DEF MarkBecomes
  <2>9. CASE Mark(id) = 3
    <3>1. Mark(id)' = 0 /\ Loans(id)' = 0 /\ Loans(id) = 1
      BY <2>5, <2>6, <2>8, <2>9 DEF Unshared
    <3>2. id \notin DOMAIN orphans.lent
      <4>1. Depth \in LoanFrames(id)
        BY <1>b, <2>1 DEF LoanFrames, Depth
      <4>2. Cardinality(LoanFrames(id)) > 0 /\ Cardinality(LoanFrames(id)) \in Nat
        BY <1>a, <4>1, LoansType
      <4>3. Loans(id) = Cardinality(LoanFrames(id)) + OrphanLoans(id) + 0
        BY <1>a, <2>2, LoansType
      <4>4. OrphanLoans(id) \in Nat
        BY <1>a, LoansType
      <4>5. OrphanLoans(id) = 0
        BY <3>1, <4>2, <4>3, <4>4
      <4> QED  BY <2>6, <4>5 DEF OrphanLoans
    <3> QED  BY <1>a, <2>1, <2>4, <2>7, <3>1, <3>2, LoanKept
  <2>10. CASE Mark(id) > 3
    <3>1. Mark(id)' = Mark(id) - 1
      BY <2>8, <2>10 DEF Unshared
    <3> QED  BY <1>a, <2>1, <2>4, <2>5, <2>7, <2>10, <3>1, LoanKept
  <2>11. CASE Mark(id) = 1 \/ Mark(id) = 2
    <3>1. Mark(id)' = Mark(id)
      BY <2>8, <2>11 DEF Unshared
    <3> QED  BY <1>a, <2>1, <2>4, <2>7, <2>11, <3>1, LoanKept
  <2> QED  BY <2>1, <2>6, <2>9, <2>10, <2>11
<1> QED  BY <1>1, <1>2, <1>3

\* A loop that borrows takes one more id: on loan to the loop, or with all it has
\* to the frame it works for.
LEMMA BorrowLoans ==
    ASSUME Typing, LoanInv, UNCHANGED orphans, NEW id \in Nat, NEW locals, NEW used,
           id \notin Pending, id \notin Top.lent \cup Top.lost,
           \A x \in Pending : x \notin Top.lent \cup Top.lost,
           \/ /\ TopBecomes(locals, used, Top.lent \cup Pending \cup {id}, Top.lost)
              /\ Pending' = {}
           \/ /\ TopBecomes(locals, used, Top.lent, Top.lost)
              /\ Pending' = Pending \cup {id}
    PROVE  \A x \in Nat : Loans(x) \in Nat /\ Loans(x)' = IF x = id THEN Loans(x) + 1 ELSE Loans(x)
<1> SUFFICES ASSUME NEW x \in Nat
             PROVE  Loans(x) \in Nat /\ Loans(x)' = IF x = id THEN Loans(x) + 1 ELSE Loans(x)
  OBVIOUS
<1>1. CASE /\ TopBecomes(locals, used, Top.lent \cup Pending \cup {id}, Top.lost)
           /\ Pending' = {}
  <2>1. PICK lent, lost : lent = Top.lent \cup Pending \cup {id} /\ lost = Top.lost
    OBVIOUS
  <2>2. TopBecomes(locals, used, lent, lost)
    BY <1>1, <2>1, Zenon
  <2>3. /\ Loans(x) \in Nat /\ Loans(x)' \in Int
        /\ Loans(x)' = Loans(x) + (IF x \in lent \cup lost THEN 1 ELSE 0)
                                - (IF x \in Top.lent \cup Top.lost THEN 1 ELSE 0)
                                + (IF x \in Pending' THEN 1 ELSE 0)
                                - (IF x \in Pending THEN 1 ELSE 0)
    BY <2>2, LoansEffect
  <2> QED  BY <1>1, <2>1, <2>3
<1>2. CASE /\ TopBecomes(locals, used, Top.lent, Top.lost)
           /\ Pending' = Pending \cup {id}
  <2>1. PICK lent, lost : lent = Top.lent /\ lost = Top.lost
    OBVIOUS
  <2>2. TopBecomes(locals, used, lent, lost)
    BY <1>2, <2>1, Zenon
  <2>3. /\ Loans(x) \in Nat /\ Loans(x)' \in Int
        /\ Loans(x)' = Loans(x) + (IF x \in lent \cup lost THEN 1 ELSE 0)
                                - (IF x \in Top.lent \cup Top.lost THEN 1 ELSE 0)
                                + (IF x \in Pending' THEN 1 ELSE 0)
                                - (IF x \in Pending THEN 1 ELSE 0)
    BY <2>2, LoansEffect
  <2> QED  BY <1>2, <2>1, <2>3
<1> QED  BY <1>1, <1>2

\* Every way of borrowing keeps the loan counts exact.
LEMMA LoanStepBorrow ==
    ASSUME IInv, NEW id \in Nat, BorrowNext(id) \/ BorrowAllocates(id) \/ BorrowSingle(id)
    PROVE  LoanInv'
<1>a. Typing /\ LoanInv /\ CallInv /\ PoolInv /\ call \in CallShape
  BY DEF IInv, Typing
<1>m. \A x \in Nat : Mark(x) \in Nat
  BY <1>a, MarkMeaning DEF PoolInv
<1>s. ASSUME UNCHANGED orphans, Mark(id) \notin {0, 2}, MarkBecomes(id, Shared(Mark(id))),
             \A x \in Nat : Loans(x)' = IF x = id THEN Loans(x) + 1 ELSE Loans(x)
      PROVE  LoanInv'
  <2>1. \A x \in Nat : x # id => Mark(x)' = Mark(x) /\ Loans(x)' = Loans(x)
    BY <1>s DEF MarkBecomes
  <2>2. Mark(id)' = Shared(Mark(id)) /\ Loans(id)' = Loans(id) + 1
    BY <1>s DEF MarkBecomes
  <2>3. CASE Mark(id) >= 3
    <3>1. Mark(id)' = Mark(id) + 1
      BY <2>2, <2>3 DEF Shared
    <3> QED  BY <1>a, <1>s, <2>1, <2>2, <2>3, <3>1, LoanKept
  <2>4. CASE Mark(id) = 1
    <3>1. Mark(id)' = 1
      BY <2>2, <2>4 DEF Shared
    <3> QED  BY <1>a, <1>s, <2>1, <2>4, <3>1, LoanKept
  <2> QED  BY <1>m, <1>s, <2>3, <2>4
<1>n. Range(call.got) \subseteq Nat /\ Range(call.borrowed) \subseteq Nat
      /\ call.got \in Seq(Nat) /\ call.borrowed \in Seq(Nat)
  BY <1>a, CallFields
<1>1. CASE BorrowNext(id)
  <2>1. /\ call.op = "borrow" /\ ~call.undoing /\ call.got = <<>> /\ UNCHANGED orphans
        /\ Mark(id) \notin {0, 2} /\ id >= MinId /\ id \notin call.inUse
        /\ MarkBecomes(id, Shared(Mark(id)))
        /\ \/ /\ call' = Idle
              /\ TopBecomes(AddLocal(Top.locals, id), Top.used,
                            Top.lent \cup Range(call.borrowed) \cup Range(call.got) \cup {id},
                            Top.lost)
           \/ /\ call' = [call EXCEPT !.borrowed = Append(call.borrowed, id),
                                      !.inUse = {x \in call.inUse : x > id}]
              /\ TopBecomes(AddLocal(Top.locals, id), Top.used, Top.lent, Top.lost)
    BY <1>1, BorrowNextEffect
  <2>2. /\ Pending = Range(call.borrowed) /\ Range(call.got) = {}
        /\ \A x \in Pending : x \notin Top.lent \cup Top.lost
    BY <1>n, <2>1, PendingIsNew, RangeType
  <2>3. MinId \in Nat /\ \A x \in Range(call.borrowed) : x < MinId /\ x \in Nat
    <3>1. MinId \in Nat
      BY <1>n, ElementOfSeq, EmptySeq DEF MinId
    <3> QED  BY <1>a, <1>n, <2>1, <3>1 DEF CallInv
  <2>4. id \notin Pending
    BY <2>1, <2>2, <2>3
  <2>5. id \notin Top.lent \cup Top.lost
    BY <1>a, <2>1, <2>3 DEF CallInv
  <2>6. \A x \in Nat : Loans(x)' = IF x = id THEN Loans(x) + 1 ELSE Loans(x)
    <3>1. CASE /\ call' = Idle
               /\ TopBecomes(AddLocal(Top.locals, id), Top.used,
                             Top.lent \cup Range(call.borrowed) \cup Range(call.got) \cup {id},
                             Top.lost)
      <4>1. Top.lent \cup Range(call.borrowed) \cup Range(call.got) \cup {id}
              = Top.lent \cup Pending \cup {id}
        BY <2>2
      <4>2. TopBecomes(AddLocal(Top.locals, id), Top.used, Top.lent \cup Pending \cup {id}, Top.lost)
        BY <3>1, <4>1
      <4> QED  BY <1>a, <2>1, <2>2, <2>4, <2>5, <3>1, <4>2, PendingIdle, BorrowLoans
    <3>2. CASE /\ call' = [call EXCEPT !.borrowed = Append(call.borrowed, id),
                                       !.inUse = {x \in call.inUse : x > id}]
               /\ TopBecomes(AddLocal(Top.locals, id), Top.used, Top.lent, Top.lost)
      <4>1. /\ call'.op = "borrow" /\ call'.borrowed = Append(call.borrowed, id)
            /\ call'.got = call.got
        BY <1>a, <2>1, <3>2 DEF CallShape
      <4>2. Pending' = Pending \cup {id}
        BY <1>n, <2>2, <4>1, RangeAppend DEF Pending
      <4> QED  BY <1>a, <2>1, <2>2, <2>4, <2>5, <3>2, <4>2, BorrowLoans
    <3> QED  BY <2>1, <3>1, <3>2
  <2> QED  BY <1>s, <2>1, <2>6
<1>2. CASE BorrowAllocates(id)
  <2>1. /\ call.op = "borrow" /\ UNCHANGED orphans
        /\ Mark(id) = 0 /\ MarkBecomes(id, 3)
        /\ \/ /\ call' = Idle
              /\ TopBecomes(AddLocal(Top.locals, id), Top.used,
                            Top.lent \cup Range(call.borrowed) \cup Range(call.got) \cup {id},
                            Top.lost)
           \/ /\ call' = [call EXCEPT !.got = Append(call.got, id),
                                      !.quota = Len(call.borrowed)]
              /\ TopBecomes(AddLocal(Top.locals, id), Top.used, Top.lent, Top.lost)
    BY <1>2, BorrowAllocatesEffect
  <2>2. /\ Pending = Range(call.borrowed) \cup Range(call.got)
        /\ \A x \in Pending : x \notin Top.lent \cup Top.lost
    BY <2>1, PendingIsNew
  <2>3. Loans(id) = 0 /\ LoanFrames(id) = {} /\ id \notin Pending
    BY <1>a, <2>1, LoansType DEF LoanInv
  <2>4. id \notin Top.lent \cup Top.lost
    BY <1>a, <2>3, Fields DEF LoanFrames, Depth
  <2>5. \A x \in Nat : Loans(x)' = IF x = id THEN Loans(x) + 1 ELSE Loans(x)
    <3>1. CASE /\ call' = Idle
               /\ TopBecomes(AddLocal(Top.locals, id), Top.used,
                             Top.lent \cup Range(call.borrowed) \cup Range(call.got) \cup {id},
                             Top.lost)
      <4>1. Top.lent \cup Range(call.borrowed) \cup Range(call.got) \cup {id}
              = Top.lent \cup Pending \cup {id}
        BY <2>2
      <4>2. TopBecomes(AddLocal(Top.locals, id), Top.used, Top.lent \cup Pending \cup {id}, Top.lost)
        BY <3>1, <4>1
      <4> QED  BY <1>a, <2>1, <2>2, <2>3, <2>4, <3>1, <4>2, PendingIdle, BorrowLoans
    <3>2. CASE /\ call' = [call EXCEPT !.got = Append(call.got, id),
                                       !.quota = Len(call.borrowed)]
               /\ TopBecomes(AddLocal(Top.locals, id), Top.used, Top.lent, Top.lost)
      <4>1. /\ call'.op = "borrow" /\ call'.got = Append(call.got, id)
            /\ call'.borrowed = call.borrowed
        BY <1>a, <2>1, <3>2 DEF CallShape
      <4>2. Pending' = Pending \cup {id}
        BY <1>n, <2>2, <4>1, RangeAppend DEF Pending
      <4> QED  BY <1>a, <2>1, <2>2, <2>3, <2>4, <3>2, <4>2, BorrowLoans
    <3> QED  BY <2>1, <3>1, <3>2
  <2>6. Mark(id)' = 3 /\ Loans(id)' = 1
    BY <2>1, <2>3, <2>5 DEF MarkBecomes
  <2>7. \A x \in Nat : x # id => Mark(x)' = Mark(x) /\ Loans(x)' = Loans(x)
    BY <2>1, <2>5 DEF MarkBecomes
  <2> QED  BY <1>a, <2>1, <2>6, <2>7, LoanKept
<1>3. CASE BorrowSingle(id)
  <2>1. /\ call = Idle /\ UNCHANGED <<call, orphans>> /\ ~DisableBorrowing
        /\ TopBecomes(AddLocal(Top.locals, id), Top.used, Top.lent \cup {id}, Top.lost)
        /\ \/ /\ Mark(id) \notin {0, 2} /\ id \notin QubitsInUse(Top)
              /\ MarkBecomes(id, Shared(Mark(id)))
           \/ Mark(id) = 0 /\ MarkBecomes(id, 1)
    BY <1>3, BorrowSingleEffect
  <2>2. Pending = {} /\ Pending' = {}
    BY <2>1 DEF Pending, Idle
  <2>3. CASE Mark(id) = 0 /\ MarkBecomes(id, 1)
    <3>1. \A x \in Nat : x # id => Loans(x)' = Loans(x)
      <4> SUFFICES ASSUME NEW x \in Nat, x # id
                   PROVE  Loans(x)' = Loans(x)
        OBVIOUS
      <4>1. PICK lent, lost : lent = Top.lent \cup {id} /\ lost = Top.lost
        OBVIOUS
      <4>2. TopBecomes(AddLocal(Top.locals, id), Top.used, lent, lost)
        BY <2>1, <4>1, Zenon
      <4>3. /\ Loans(x) \in Nat /\ Loans(x)' \in Int
            /\ Loans(x)' = Loans(x) + (IF x \in lent \cup lost THEN 1 ELSE 0)
                                    - (IF x \in Top.lent \cup Top.lost THEN 1 ELSE 0)
                                    + (IF x \in Pending' THEN 1 ELSE 0)
                                    - (IF x \in Pending THEN 1 ELSE 0)
        BY <1>a, <2>1, <4>2, LoansEffect
      <4> QED  BY <2>2, <4>1, <4>3
    <3>2. \A x \in Nat : x # id => Mark(x)' = Mark(x)
      BY <2>3 DEF MarkBecomes
    <3>3. Mark(id)' = 1
      BY <2>3 DEF MarkBecomes
    <3> QED  BY <1>a, <2>1, <2>3, <3>1, <3>2, <3>3, LoanKept
  <2>4. CASE /\ Mark(id) \notin {0, 2} /\ id \notin QubitsInUse(Top)
             /\ MarkBecomes(id, Shared(Mark(id)))
    <3>1. ~IsDisabled(id)
      BY <1>a, <2>4, MarkMeaning DEF PoolInv
    <3>2. Top.lent \cup Top.lost \subseteq DOMAIN Top.locals
      BY <2>1, Fields DEF IInv, LocalsExact, Depth, Top
    <3>3. id \notin Top.lent \cup Top.lost
      BY <2>4, <3>1, <3>2 DEF QubitsInUse
    <3>4. Top.lent \cup Pending \cup {id} = Top.lent \cup {id}
      BY <2>2
    <3>5. TopBecomes(AddLocal(Top.locals, id), Top.used, Top.lent \cup Pending \cup {id}, Top.lost)
      BY <2>1, <3>4
    <3>6. \A x \in Nat : Loans(x)' = IF x = id THEN Loans(x) + 1 ELSE Loans(x)
      BY <1>a, <2>1, <2>2, <3>3, <3>5, BorrowLoans
    <3> QED  BY <1>s, <2>1, <2>4, <3>6
  <2> QED  BY <2>1, <2>3, <2>4
<1> QED  BY <1>1, <1>2, <1>3

\* A loop that borrowed ends by throwing: what it borrowed is lost to its frame.
LEMMA LostLoans ==
    ASSUME Typing, LoanInv, UNCHANGED orphans, NEW locals, NEW used, NEW borrowed, NEW h,
           TopBecomes(locals, used, Top.lent, Top.lost \cup borrowed), Pending' = {},
           Pending = borrowed \cup {h} \/ Pending = borrowed, h \notin borrowed,
           \A x \in Pending : x \notin Top.lent \cup Top.lost
    PROVE  \A x \in Nat : /\ Loans(x) \in Nat
                          /\ Loans(x)' = IF x = h /\ h \in Pending THEN Loans(x) - 1 ELSE Loans(x)
<1> SUFFICES ASSUME NEW x \in Nat
             PROVE  /\ Loans(x) \in Nat
                    /\ Loans(x)' = IF x = h /\ h \in Pending THEN Loans(x) - 1 ELSE Loans(x)
  OBVIOUS
<1>1. PICK lent, lost : lent = Top.lent /\ lost = Top.lost \cup borrowed
  OBVIOUS
<1>2. TopBecomes(locals, used, lent, lost)
  BY <1>1, Zenon
<1>3. /\ Loans(x) \in Nat /\ Loans(x)' \in Int
      /\ Loans(x)' = Loans(x) + (IF x \in lent \cup lost THEN 1 ELSE 0)
                              - (IF x \in Top.lent \cup Top.lost THEN 1 ELSE 0)
                              + (IF x \in Pending' THEN 1 ELSE 0)
                              - (IF x \in Pending THEN 1 ELSE 0)
  BY <1>2, LoansEffect
<1> QED  BY <1>1, <1>3

\* A step that changes no frame's loans: only what is pending counts.
LEMMA PendingLoans ==
    ASSUME Typing, LoanInv, UNCHANGED orphans, NEW locals, NEW used,
           TopBecomes(locals, used, Top.lent, Top.lost), NEW x \in Nat
    PROVE  /\ Loans(x) \in Nat
           /\ Loans(x)' = Loans(x) + (IF x \in Pending' THEN 1 ELSE 0)
                                   - (IF x \in Pending THEN 1 ELSE 0)
<1>1. PICK lent, lost : lent = Top.lent /\ lost = Top.lost
  OBVIOUS
<1>2. TopBecomes(locals, used, lent, lost)
  BY <1>1, Zenon
<1>3. /\ Loans(x) \in Nat /\ Loans(x)' \in Int
      /\ Loans(x)' = Loans(x) + (IF x \in lent \cup lost THEN 1 ELSE 0)
                              - (IF x \in Top.lent \cup Top.lost THEN 1 ELSE 0)
                              + (IF x \in Pending' THEN 1 ELSE 0)
                              - (IF x \in Pending THEN 1 ELSE 0)
  BY <1>2, LoansEffect
<1> QED  BY <1>1, <1>3

\* Borrow(n)'s exception and rollback keep the loan counts exact.
LEMMA LoanStepThrow ==
    ASSUME IInv, BorrowFails \/ RollbackNext
    PROVE  LoanInv'
<1>a. Typing /\ LoanInv /\ CallInv /\ PoolInv /\ call \in CallShape
  BY DEF IInv, Typing
<1>n. Range(call.got) \subseteq Nat /\ Range(call.borrowed) \subseteq Nat
      /\ call.got \in Seq(Nat) /\ call.borrowed \in Seq(Nat)
  BY <1>a, CallFields
<1>1. CASE BorrowFails
  <2>1. /\ SameMarks /\ call.op = "borrow" /\ UNCHANGED orphans
        /\ \/ /\ call.got = <<>> /\ call' = Idle
              /\ TopBecomes(Top.locals, Top.used, Top.lent, Top.lost \cup Range(call.borrowed))
           \/ call' = [call EXCEPT !.undoing = TRUE] /\ UNCHANGED operationStack
    BY <1>1, BorrowFailsEffect
  <2>2. /\ Pending = Range(call.borrowed) \cup Range(call.got)
        /\ \A x \in Pending : x \notin Top.lent \cup Top.lost
    BY <2>1, PendingIsNew
  <2>3. CASE /\ call.got = <<>> /\ call' = Idle
             /\ TopBecomes(Top.locals, Top.used, Top.lent, Top.lost \cup Range(call.borrowed))
    <3>1. Pending = Range(call.borrowed) /\ Pending' = {}
      BY <1>n, <2>2, <2>3, RangeType, PendingIdle
    <3>2. -1 \notin Range(call.borrowed)
      BY <1>n
    <3>3. \A x \in Nat : Loans(x)' = Loans(x)
      BY <1>a, <2>1, <2>2, <2>3, <3>1, <3>2, LostLoans
    <3> QED  BY <1>a, <2>1, <3>3, LoanKept DEF SameMarks
  <2>4. CASE call' = [call EXCEPT !.undoing = TRUE] /\ UNCHANGED operationStack
    <3>1. Pending' = Pending
      BY <1>a, <2>4 DEF Pending, CallShape
    <3>2. \A x \in Nat : Loans(x)' = Loans(x)
      BY <1>a, <2>1, <2>4, <3>1, SameTop, SameLoans
    <3> QED  BY <1>a, <2>1, <3>2, LoanKept DEF SameMarks
  <2> QED  BY <2>1, <2>3, <2>4
<1>2. CASE RollbackNext
  <2>0. PICK h : h = Head(call.got)
    OBVIOUS
  <2>1. /\ MarkBecomes(h, 0) /\ call.got # <<>> /\ h \in Nat /\ h \in Range(call.got)
        /\ UNCHANGED orphans /\ call.op \in {"allocate", "borrow"}
        /\ \/ /\ Len(call.got) = 1 /\ call' = Idle
              /\ \E locals : TopBecomes(locals, Top.used, Top.lent,
                                        Top.lost \cup Range(call.borrowed))
           \/ /\ call' = [call EXCEPT !.got = Tail(call.got)]
              /\ \E locals : TopBecomes(locals, Top.used, Top.lent, Top.lost)
    BY <1>2, <2>0, RollbackNextEffect
  <2>2. /\ Range(Tail(call.got)) = Range(call.got) \ {h}
        /\ Len(call.got) = 1 => Range(call.got) = {h}
    BY <1>a, <1>n, <2>0, <2>1, RangeTail DEF CallInv
  <2>m. \A x \in Nat : x # h => Mark(x)' = Mark(x)
    BY <2>1 DEF MarkBecomes
  <2>z. Mark(h)' = 0
    BY <2>1 DEF MarkBecomes
  <2>3. CASE call.op = "allocate"
    <3>1. Mark(h) = 1 /\ Loans(h) = 0 /\ Range(call.borrowed) = {}
      BY <1>a, <1>n, <2>1, <2>3, RangeType DEF CallInv
    <3>2. Pending = {}
      BY <2>3 DEF Pending
    <3>3. Pending' = {}
      <4>1. CASE call' = Idle
        BY <4>1, PendingIdle
      <4>2. CASE call' = [call EXCEPT !.got = Tail(call.got)]
        BY <1>a, <2>3, <4>2 DEF Pending, CallShape
      <4> QED  BY <2>1, <4>1, <4>2
    <3>4. \E locals : TopBecomes(locals, Top.used, Top.lent, Top.lost)
      <4>1. Top.lost \cup Range(call.borrowed) = Top.lost
        BY <3>1
      <4> QED  BY <2>1, <4>1
    <3>5. \A x \in Nat : Loans(x)' = Loans(x)
      BY <1>a, <2>1, <3>2, <3>3, <3>4, SameLoans
    <3>6. h \notin DOMAIN orphans.lent
      BY <1>a, <2>1, <3>1 DEF LoanInv
    <3>7. Loans(h)' = 0
      BY <2>1, <3>1, <3>5
    <3> QED  BY <1>a, <2>1, <2>m, <2>z, <3>5, <3>6, <3>7, LoanKept
  <2>4. CASE call.op = "borrow"
    <3>1. /\ Pending = Range(call.borrowed) \cup Range(call.got)
          /\ \A x \in Pending : x \notin Top.lent \cup Top.lost
      BY <2>4, PendingIsNew
    <3>2. /\ Mark(h) = 3 /\ h \notin Range(call.borrowed) /\ h \in Pending
          /\ \A x \in Range(call.got) : x \notin Range(call.borrowed)
      BY <1>a, <2>1, <2>4, <3>1 DEF CallInv
    <3>3. Loans(h) = 1
      BY <1>a, <2>1, <3>2 DEF LoanInv
    <3>4. h \notin DOMAIN orphans.lent
      <4>1. /\ Loans(h) = Cardinality(LoanFrames(h)) + OrphanLoans(h) + 1
            /\ Cardinality(LoanFrames(h)) \in Nat /\ OrphanLoans(h) \in Nat
        BY <1>a, <2>1, <3>2, LoansType
      <4>2. OrphanLoans(h) = 0
        BY <3>3, <4>1
      <4> QED  BY <1>a, <2>1, <4>2 DEF OrphanLoans, LoanInv
    <3>5. \A x \in Nat : x # h => Loans(x)' = Loans(x)
      <4>1. CASE /\ Len(call.got) = 1 /\ call' = Idle
                 /\ \E locals : TopBecomes(locals, Top.used, Top.lent,
                                           Top.lost \cup Range(call.borrowed))
        <5>1. Pending = Range(call.borrowed) \cup {h} /\ Pending' = {}
          BY <2>2, <3>1, <4>1, PendingIdle
        <5> QED  BY <1>a, <2>1, <3>1, <3>2, <4>1, <5>1, LostLoans
      <4>2. CASE /\ call' = [call EXCEPT !.got = Tail(call.got)]
                 /\ \E locals : TopBecomes(locals, Top.used, Top.lent, Top.lost)
        <5>1. call'.op = "borrow" /\ call'.got = Tail(call.got) /\ call'.borrowed = call.borrowed
          BY <1>a, <2>4, <4>2 DEF CallShape
        <5>2. Pending' = Pending \ {h}
          BY <2>2, <3>1, <3>2, <5>1 DEF Pending
        <5> SUFFICES ASSUME NEW x \in Nat, x # h
                     PROVE  Loans(x)' = Loans(x)
          OBVIOUS
        <5>3. PICK locals : TopBecomes(locals, Top.used, Top.lent, Top.lost)
          BY <4>2
        <5>4. /\ Loans(x) \in Nat
              /\ Loans(x)' = Loans(x) + (IF x \in Pending' THEN 1 ELSE 0)
                                      - (IF x \in Pending THEN 1 ELSE 0)
          BY <1>a, <2>1, <5>3, PendingLoans
        <5> QED  BY <5>2, <5>4
      <4> QED  BY <2>1, <4>1, <4>2
    <3>6. Loans(h)' = 0
      <4>1. CASE /\ Len(call.got) = 1 /\ call' = Idle
                 /\ \E locals : TopBecomes(locals, Top.used, Top.lent,
                                           Top.lost \cup Range(call.borrowed))
        <5>1. Pending = Range(call.borrowed) \cup {h} /\ Pending' = {}
          BY <2>2, <3>1, <4>1, PendingIdle
        <5>2. Loans(h)' = Loans(h) - 1
          BY <1>a, <2>1, <3>1, <3>2, <4>1, <5>1, LostLoans
        <5> QED  BY <3>3, <5>2
      <4>2. CASE /\ call' = [call EXCEPT !.got = Tail(call.got)]
                 /\ \E locals : TopBecomes(locals, Top.used, Top.lent, Top.lost)
        <5>1. call'.op = "borrow" /\ call'.got = Tail(call.got) /\ call'.borrowed = call.borrowed
          BY <1>a, <2>4, <4>2 DEF CallShape
        <5>2. h \notin Pending'
          BY <2>2, <3>1, <3>2, <5>1 DEF Pending
        <5>3. PICK locals : TopBecomes(locals, Top.used, Top.lent, Top.lost)
          BY <4>2
        <5>4. /\ Loans(h) \in Nat
              /\ Loans(h)' = Loans(h) + (IF h \in Pending' THEN 1 ELSE 0)
                                      - (IF h \in Pending THEN 1 ELSE 0)
          BY <1>a, <2>1, <5>3, PendingLoans
        <5> QED  BY <3>2, <3>3, <5>2, <5>4
      <4> QED  BY <2>1, <4>1, <4>2
    <3> QED  BY <1>a, <2>1, <2>m, <2>z, <3>4, <3>5, <3>6, LoanKept
  <2> QED  BY <2>1, <2>3, <2>4
<1> QED  BY <1>1, <1>2

\* A set of stack positions is finite.
LEMMA FiniteBelow ==
    ASSUME NEW d \in Nat, NEW T, T \subseteq 1 .. d
    PROVE  IsFiniteSet(T) /\ Cardinality(T) \in Nat
<1>1. IsFiniteSet(1 .. d) /\ T \in SUBSET (1 .. d)
  BY FS_Interval
<1> QED  BY <1>1, FS_Subset, FS_CardinalityType

\* Ending the frames above depth moves their loans to the orphans.
LEMMA PopLoans ==
    ASSUME IInv, NEW depth \in 1 .. Depth, PopTo(depth), NEW x \in Nat
    PROVE  /\ Mark(x) >= 3 => OrphanLoans(x)' + Cardinality(LoanFrames(x))' =
                                OrphanLoans(x) + Cardinality(LoanFrames(x))
           /\ Mark(x) = 0 => /\ OrphanLoans(x)' = 0 /\ Cardinality(LoanFrames(x))' = 0
           /\ x \in DOMAIN orphans'.lent => Mark(x) >= 3 /\ orphans'.lent[x] \in Nat \ {0}
<1>a. Typing /\ LoanInv /\ PoolInv /\ PoolTyping /\ Depth \in Nat
  BY Fields DEF IInv, PoolInv
<1>1. PICK d \in Nat : d = Depth
  BY <1>a
<1>2. /\ Depth' = depth /\ depth \in 1 .. d
      /\ \A i \in 1 .. depth : operationStack'[i] = operationStack[i]
  BY <1>1, <1>a, SubSeqProperties, Fields DEF PopTo, Typing, Depth
<1>3. PICK E : E = {i \in depth + 1 .. Len(operationStack) :
                        x \in operationStack[i].lent \cup operationStack[i].lost}
  OBVIOUS
<1>4. PICK S : S = LoanFrames(x)
  OBVIOUS
<1>5. PICK T : T = LoanFrames(x)'
  OBVIOUS
<1>6. S = T \cup E /\ T \cap E = {} /\ T \subseteq 1 .. d /\ E \subseteq 1 .. d
  BY <1>1, <1>2, <1>3, <1>4, <1>5 DEF LoanFrames, Depth
<1>7. IsFiniteSet(T) /\ IsFiniteSet(E)
  BY <1>6, FiniteBelow
<1>8. /\ Cardinality(S) = Cardinality(T) + Cardinality(E)
      /\ Cardinality(S) \in Nat /\ Cardinality(T) \in Nat /\ Cardinality(E) \in Nat
  <2>1. /\ Cardinality(T) \in Nat /\ Cardinality(E) \in Nat /\ Cardinality(T \cap E) = 0
    BY <1>6, <1>7, FS_CardinalityType, FS_EmptySet
  <2>2. Cardinality(T \cup E) = Cardinality(T) + Cardinality(E) - Cardinality(T \cap E)
    BY <1>7, FS_Union
  <2> QED  BY <1>6, <2>1, <2>2
<1>9. PICK r : r = OrphanLoans(x)
  OBVIOUS
<1>10. r \in Nat
  BY <1>a, <1>9, LoansType
<1>11. /\ x \in DOMAIN orphans'.lent <=>
            x \in Ids /\ IsAllocatedForBorrowing(x) /\ Cardinality(E) + r > 0
       /\ x \in DOMAIN orphans'.lent => orphans'.lent[x] = Cardinality(E) + r
  BY <1>3, <1>9 DEF PopTo, Abandoned, OrphanLoans
<1>12. x \in Ids => (IsAllocatedForBorrowing(x) <=> Mark(x) >= 3)
  BY <1>a, MarkMeaning
<1>13. /\ Mark(x) # 0 => x \in Ids
       /\ Mark(x) \in Nat
  BY <1>a, MarkMeaning
<1>14. OrphanLoans(x)' = IF x \in DOMAIN orphans'.lent THEN Cardinality(E) + r ELSE 0
  BY <1>11 DEF OrphanLoans
<1>15. Mark(x) >= 3 => OrphanLoans(x)' = Cardinality(E) + r
  BY <1>8, <1>10, <1>11, <1>12, <1>13, <1>14
<1>16. Mark(x) = 0 => OrphanLoans(x)' = 0 /\ Cardinality(T) = 0
  <2>1. ASSUME Mark(x) = 0
        PROVE  OrphanLoans(x)' = 0 /\ Cardinality(T) = 0
    <3>1. x \notin DOMAIN orphans'.lent
      BY <1>11, <1>12, <2>1
    <3>2. Loans(x) = 0
      BY <1>a, <2>1 DEF LoanInv
    <3>3. S = {}
      BY <1>a, <1>4, <3>2, LoansType
    <3>4. T = {}
      BY <1>6, <3>3
    <3> QED  BY <1>14, <3>1, <3>4, FS_EmptySet
  <2> QED  BY <2>1
<1>17. Mark(x) >= 3 => OrphanLoans(x)' + Cardinality(T) = r + Cardinality(S)
  BY <1>8, <1>10, <1>15
<1>18. x \in DOMAIN orphans'.lent => Mark(x) >= 3 /\ orphans'.lent[x] \in Nat \ {0}
  BY <1>8, <1>10, <1>11, <1>12
<1> QED  BY <1>4, <1>5, <1>9, <1>16, <1>17, <1>18

\* Starting, ending and failing operations keep the loan counts exact.
LEMMA LoanStepStack ==
    ASSUME IInv,
           \/ \E args \in SUBSET Nat : OnOperationStart(args)
           \/ OnOperationEnd \/ Fail
    PROVE  LoanInv'
<1>a. Typing /\ LoanInv /\ PoolInv /\ PoolTyping
  BY DEF IInv, PoolInv
<1>b. Depth \in Nat \ {0} /\ Depth \in 1 .. Depth
  BY <1>a, Fields
<1>1. ASSUME NEW args \in SUBSET Nat, OnOperationStart(args)
      PROVE  LoanInv'
  <2>1. /\ operationStack' = Append(operationStack, Frame(args))
        /\ UNCHANGED <<poolVars, call, orphans, strays>>
    BY <1>1 DEF OnOperationStart, historyVars
  <2>2. /\ Depth' = Depth + 1
        /\ \A i \in 1 .. Depth : operationStack'[i] = operationStack[i]
        /\ operationStack'[Depth + 1].lent = {} /\ operationStack'[Depth + 1].lost = {}
    BY <1>a, <2>1, AppendProperties, FrameType DEF Depth, Typing, Frame
  <2>3. \A x \in Nat : LoanFrames(x)' = LoanFrames(x)
    BY <1>b, <2>2 DEF LoanFrames, Depth
  <2>4. Pending' = Pending
    BY <2>1 DEF Pending
  <2>5. \A x \in Nat : Loans(x)' = Loans(x)
    BY <2>1, <2>3, <2>4 DEF Loans
  <2> QED  BY <1>a, <2>1, <2>5, LoanKept, PoolUnchanged DEF SameMarks
<1>2. ASSUME NEW depth \in 1 .. Depth, PopTo(depth), call = Idle
      PROVE  LoanInv'
  <2>1. UNCHANGED <<poolVars, call>> /\ Pending = {} /\ Pending' = {}
    BY <1>2 DEF PopTo, Pending, Idle
  <2>2. SameMarks
    BY <1>a, <2>1, PoolUnchanged
  <2> SUFFICES ASSUME NEW x \in Nat
               PROVE  /\ Mark(x)' >= 3 => Loans(x)' = Mark(x)' - 2
                      /\ Mark(x)' = 0 => Loans(x)' = 0
                      /\ x \in DOMAIN orphans'.lent =>
                           Mark(x)' >= 2 /\ orphans'.lent[x] \in Nat \ {0}
    BY DEF LoanInv
  <2>3. Mark(x)' = Mark(x) /\ Mark(x) \in Nat
    BY <1>a, <2>2, MarkMeaning DEF SameMarks
  <2>4. /\ Mark(x) >= 3 => OrphanLoans(x)' + Cardinality(LoanFrames(x))' =
                                OrphanLoans(x) + Cardinality(LoanFrames(x))
        /\ Mark(x) = 0 => /\ OrphanLoans(x)' = 0 /\ Cardinality(LoanFrames(x))' = 0
        /\ x \in DOMAIN orphans'.lent => Mark(x) >= 3 /\ orphans'.lent[x] \in Nat \ {0}
    BY <1>2, PopLoans
  <2>5. /\ Loans(x) = Cardinality(LoanFrames(x)) + OrphanLoans(x) + 0
        /\ Cardinality(LoanFrames(x)) \in Nat /\ OrphanLoans(x) \in Nat
    BY <1>a, <2>1, LoansType
  <2>6. Loans(x)' = Cardinality(LoanFrames(x))' + OrphanLoans(x)' + 0
    BY <2>1 DEF Loans, OrphanLoans
  <2>7. Mark(x) >= 3 => OrphanLoans(x)' \in Int /\ Cardinality(LoanFrames(x))' \in Int
    <3>1. OrphanLoans(x)' \in Int
      BY <2>3, <2>4 DEF OrphanLoans
    <3>2. Cardinality(LoanFrames(x))' \in Int
      <4>1. PICK T : T = LoanFrames(x)'
        OBVIOUS
      <4>2. PICK d \in Nat : d = Depth'
        BY <1>2, <1>a, <1>b, SubSeqProperties, Fields DEF PopTo, Typing, Depth
      <4>3. T \subseteq 1 .. d
        BY <4>1, <4>2 DEF LoanFrames, Depth
      <4>4. Cardinality(T) \in Nat
        BY <4>3, FiniteBelow
      <4> QED  BY <4>1, <4>4
    <3> QED  BY <3>1, <3>2
  <2>8. Mark(x) >= 3 => Loans(x)' = Loans(x)
    BY <2>4, <2>5, <2>6, <2>7
  <2>9. Mark(x) >= 3 => Loans(x) = Mark(x) - 2
    BY <1>a DEF LoanInv
  <2> QED  BY <2>3, <2>4, <2>6, <2>8, <2>9
<1>3. ASSUME OnOperationEnd \/ Fail
      PROVE  LoanInv'
  <2>1. call = Idle /\ \E depth \in 1 .. Depth : PopTo(depth)
    BY <1>3, <1>b DEF OnOperationEnd, Fail, Depth
  <2> QED  BY <1>2, <2>1
<1> QED  BY <1>1, <1>3

\* Every action keeps the loan counts exact.
LEMMA LoanStep ==
    ASSUME IInv, Next
    PROVE  LoanInv'
BY NextCases, LoanStepAllocate, LoanStepGiveBack, LoanStepBorrow, LoanStepThrow, LoanStepStack
   DEF IInv, PoolInv

-----------------------------------------------------------------------------
(* Frames                                                                   *)

\* What the top frame's new fields have to satisfy for FrameInv to survive.
LEMMA FrameKept ==
    ASSUME Typing, FrameInv, NEW locals, NEW used, NEW lent, NEW lost,
           TopBecomes(locals, used, lent, lost),
           \A x \in Nat : x \in lent => x \notin lost /\ x \notin Top.args,
           \A x \in Nat : x \in used => x \notin lent /\ x \notin lost,
           \A x \in Nat : x \in used => x \in Top.used \/ LoanFrames(x) = {}
    PROVE  FrameInv'
<1>1. Depth \in Nat \ {0} /\ Depth \in 1 .. Depth /\ Top = operationStack[Depth] /\ Depth' = Depth
  BY Fields DEF TopBecomes
<1>2. PICK d \in Nat : d = Depth
  BY <1>1
<1> SUFFICES ASSUME NEW i \in 1 .. d, NEW x \in Nat
             PROVE  /\ x \in operationStack'[i].lent =>
                        x \notin operationStack'[i].lost /\ x \notin operationStack'[i].args
                    /\ x \in operationStack'[i].args =>
                        \E j \in 1 .. i - 1 : \/ x \in operationStack'[j].used
                                              \/ x \in operationStack'[j].lent
                    /\ \A j \in 1 .. d :
                        /\ x \in operationStack'[j].used
                        /\ x \in operationStack'[i].lent \/ x \in operationStack'[i].lost
                        => j < i
  BY <1>1, <1>2 DEF FrameInv
<1>3. \A j \in 1 .. d :
        /\ operationStack'[j].args = operationStack[j].args
        /\ operationStack'[j].used = IF j = d THEN used ELSE operationStack[j].used
        /\ operationStack'[j].lent = IF j = d THEN lent ELSE operationStack[j].lent
        /\ operationStack'[j].lost = IF j = d THEN lost ELSE operationStack[j].lost
  BY <1>2 DEF TopBecomes
<1>4. /\ x \in operationStack[i].lent =>
            x \notin operationStack[i].lost /\ x \notin operationStack[i].args
      /\ x \in operationStack[i].args =>
            \E j \in 1 .. i - 1 : \/ x \in operationStack[j].used
                                  \/ x \in operationStack[j].lent
      /\ \A j \in 1 .. d :
            /\ x \in operationStack[j].used
            /\ x \in operationStack[i].lent \/ x \in operationStack[i].lost
            => j < i
  BY <1>2 DEF FrameInv
<1>5. /\ x \in operationStack'[i].lent =>
            x \notin operationStack'[i].lost /\ x \notin operationStack'[i].args
  BY <1>1, <1>2, <1>3, <1>4
<1>6. x \in operationStack'[i].args =>
            \E j \in 1 .. i - 1 : \/ x \in operationStack'[j].used
                                  \/ x \in operationStack'[j].lent
  <2>1. \A j \in 1 .. i - 1 : j \in 1 .. d /\ j # d
    BY <1>2
  <2> QED  BY <1>3, <1>4, <2>1
<1>7. ASSUME NEW j \in 1 .. d, x \in operationStack'[j].used,
             x \in operationStack'[i].lent \/ x \in operationStack'[i].lost
      PROVE  j < i
  <2>1. CASE i = d
    BY <1>1, <1>2, <1>3, <1>7, <2>1
  <2>2. CASE i # d /\ j # d
    BY <1>3, <1>4, <1>7, <2>2
  <2>3. CASE i # d /\ j = d
    <3>1. x \in operationStack[i].lent \/ x \in operationStack[i].lost
      BY <1>3, <1>7, <2>3
    <3>2. i \in LoanFrames(x)
      BY <1>2, <3>1 DEF LoanFrames, Depth
    <3>3. x \in operationStack[j].used
      BY <1>1, <1>2, <1>3, <1>7, <2>3, <3>2
    <3> QED  BY <1>4, <3>1, <3>3
  <2> QED  BY <2>1, <2>2, <2>3
<1> QED  BY <1>5, <1>6, <1>7

\* What a frame of the stack can reach.
Reach == Top.args \cup Top.used \cup Top.lent \cup Top.lost

\* A free id, or one on loan to nobody, is not held on loan; a free one is held by nobody.
LEMMA FreshIsNotReached ==
    ASSUME IInv, NEW x \in Nat, Mark(x) = 0 \/ Loans(x) = 0
    PROVE  /\ LoanFrames(x) = {} /\ x \notin Top.lent /\ x \notin Top.lost
           /\ Mark(x) = 0 => x \notin Reach
<1>a. Typing /\ LoanInv
  BY DEF IInv
<1>1. Loans(x) = 0
  BY <1>a DEF LoanInv
<1>2. LoanFrames(x) = {}
  BY <1>a, <1>1, LoansType
<1>3. Depth \in 1 .. Depth /\ Top = operationStack[Depth]
  BY <1>a, Fields
<1>4. Mark(x) = 0 => x \notin Reach
  BY <1>3, ReachableInUse DEF Reach
<1>5. x \notin Top.lent /\ x \notin Top.lost
  BY <1>2, <1>3 DEF LoanFrames, Depth
<1> QED  BY <1>2, <1>4, <1>5

\* What the two borrow loops take is new to the current frame.
LEMMA BorrowedIsNotReached ==
    ASSUME IInv, NEW id \in Nat,
           \/ BorrowNext(id) \/ BorrowAllocates(id) \/ BorrowSingle(id)
    PROVE  id \notin Reach
<1>a. Typing /\ LoanInv /\ CallInv /\ PoolInv /\ PoolTyping /\ call \in CallShape
  BY DEF IInv, Typing, PoolInv
<1>1. CASE BorrowNext(id)
  <2>1. /\ call.op = "borrow" /\ Mark(id) \notin {0, 2} /\ id >= MinId /\ id \notin call.inUse
    BY <1>1, BorrowNextEffect
  <2>2. MinId \in Nat
    BY <1>a, ElementOfSeq, EmptySeq, CallFields DEF MinId
  <2> QED  BY <1>a, <2>1, <2>2 DEF CallInv, Reach
<1>2. CASE BorrowAllocates(id)
  BY <1>2, BorrowAllocatesEffect, FreshIsNotReached
<1>3. CASE BorrowSingle(id)
  <2>1. /\ call = Idle /\ ~DisableBorrowing
        /\ \/ Mark(id) \notin {0, 2} /\ id \notin QubitsInUse(Top)
           \/ Mark(id) = 0
    BY <1>3, BorrowSingleEffect
  <2>2. CASE Mark(id) = 0
    BY <2>2, FreshIsNotReached
  <2>3. CASE Mark(id) \notin {0, 2} /\ id \notin QubitsInUse(Top)
    <3>1. ~IsDisabled(id)
      BY <1>a, <2>3, MarkMeaning
    <3>2. Top.used \cup Top.lent \cup Top.lost \subseteq DOMAIN Top.locals
      BY <2>1, Fields DEF IInv, LocalsExact, Depth, Top
    <3> QED  BY <2>3, <3>1, <3>2 DEF QubitsInUse, Reach
  <2> QED  BY <2>1, <2>2, <2>3
<1> QED  BY <1>1, <1>2, <1>3

\* FrameInv, read for the top frame.
LEMMA TopIsExclusive ==
    ASSUME Typing, FrameInv
    PROVE  \A x \in Nat : /\ x \in Top.lent => x \notin Top.lost /\ x \notin Top.args
                          /\ x \in Top.used => x \notin Top.lent /\ x \notin Top.lost
<1>1. Depth \in Nat \ {0} /\ Depth \in 1 .. Depth /\ Top = operationStack[Depth]
  BY Fields
<1>2. PICK d \in Nat : d = Depth
  BY <1>1
<1>3. \A x \in Nat : \A j \in 1 .. d :
        x \in operationStack[j].used /\ (x \in operationStack[d].lent \/ x \in operationStack[d].lost)
        => j < d
  BY <1>1, <1>2 DEF FrameInv
<1>4. ~(d < d)
  BY <1>2
<1> QED  BY <1>1, <1>2, <1>3, <1>4 DEF FrameInv

\* Every step of a call keeps the frames in order.
LEMMA FrameStepCalls ==
    ASSUME IInv,
           \/ \E id \in Nat : \/ AllocateNext(id) \/ Release(id) \/ Return(id)
                              \/ BorrowNext(id) \/ BorrowAllocates(id) \/ BorrowSingle(id)
           \/ BorrowFails \/ RollbackNext
    PROVE  FrameInv'
<1>a. Typing /\ LoanInv /\ CallInv /\ FrameInv /\ call \in CallShape
  BY DEF IInv, Typing
<1>t. \A x \in Nat : /\ x \in Top.lent => x \notin Top.lost /\ x \notin Top.args
                     /\ x \in Top.used => x \notin Top.lent /\ x \notin Top.lost
  BY <1>a, TopIsExclusive
<1>n. Range(call.got) \subseteq Nat /\ Range(call.borrowed) \subseteq Nat
      /\ call.got \in Seq(Nat) /\ call.borrowed \in Seq(Nat)
  BY <1>a, CallFields
<1>1. ASSUME NEW id \in Nat, AllocateNext(id)
      PROVE  FrameInv'
  <2>1. /\ Mark(id) = 0 /\ call.op = "allocate"
        /\ \/ TopBecomes(AddLocal(Top.locals, id), Top.used \cup Range(call.got) \cup {id},
                         Top.lent, Top.lost)
           \/ TopBecomes(AddLocal(Top.locals, id), Top.used, Top.lent, Top.lost)
    BY <1>1, AllocateNextEffect
  <2>2. \A x \in Range(call.got) \cup {id} :
            LoanFrames(x) = {} /\ x \notin Top.lent /\ x \notin Top.lost
    BY <1>a, <1>n, <2>1, FreshIsNotReached DEF CallInv
  <2>3. PICK used : used = Top.used \cup Range(call.got) \cup {id}
    OBVIOUS
  <2>4. CASE TopBecomes(AddLocal(Top.locals, id), used, Top.lent, Top.lost)
    BY <1>a, <1>t, <2>2, <2>3, <2>4, FrameKept
  <2>5. CASE TopBecomes(AddLocal(Top.locals, id), Top.used, Top.lent, Top.lost)
    BY <1>a, <1>t, <2>5, FrameKept
  <2> QED  BY <2>1, <2>3, <2>4, <2>5
<1>2. ASSUME NEW id \in Nat, Release(id) \/ Return(id)
      PROVE  FrameInv'
  <2>1. \E locals, used, lent :
            /\ TopBecomes(locals, used, lent, Top.lost)
            /\ used \subseteq Top.used /\ lent \subseteq Top.lent
    <3>1. CASE Release(id)
      <4>1. \E locals : TopBecomes(locals, Top.used \ {id}, Top.lent, Top.lost)
        BY <3>1, ReleaseEffect
      <4> QED  BY <4>1
    <3>2. CASE Return(id)
      <4>1. \E locals : TopBecomes(locals, Top.used, Top.lent \ {id}, Top.lost)
        BY <3>2, ReturnEffect
      <4> QED  BY <4>1
    <3> QED  BY <1>2, <3>1, <3>2
  <2>2. PICK locals, used, lent :
            /\ TopBecomes(locals, used, lent, Top.lost)
            /\ used \subseteq Top.used /\ lent \subseteq Top.lent
    BY <2>1
  <2> QED  BY <1>a, <1>t, <2>2, FrameKept
<1>3. ASSUME NEW id \in Nat, BorrowNext(id) \/ BorrowAllocates(id)
      PROVE  FrameInv'
  <2>1. /\ call.op = "borrow" /\ call.borrowed \in Seq(Nat)
        /\ \/ TopBecomes(AddLocal(Top.locals, id), Top.used,
                         Top.lent \cup Range(call.borrowed) \cup Range(call.got) \cup {id},
                         Top.lost)
           \/ TopBecomes(AddLocal(Top.locals, id), Top.used, Top.lent, Top.lost)
    BY <1>3, <1>n, BorrowNextEffect, BorrowAllocatesEffect
  <2>2. \A x \in Range(call.borrowed) \cup Range(call.got) \cup {id} : x \notin Reach
    <3>1. id \notin Reach
      BY <1>3, BorrowedIsNotReached
    <3> QED  BY <1>a, <2>1, <3>1 DEF CallInv, Pending, Reach
  <2>3. PICK lent : lent = Top.lent \cup Range(call.borrowed) \cup Range(call.got) \cup {id}
    OBVIOUS
  <2>4. CASE TopBecomes(AddLocal(Top.locals, id), Top.used, lent, Top.lost)
    BY <1>a, <1>t, <2>2, <2>3, <2>4, FrameKept DEF Reach
  <2>5. CASE TopBecomes(AddLocal(Top.locals, id), Top.used, Top.lent, Top.lost)
    BY <1>a, <1>t, <2>5, FrameKept
  <2> QED  BY <2>1, <2>3, <2>4, <2>5
<1>4. ASSUME NEW id \in Nat, BorrowSingle(id)
      PROVE  FrameInv'
  <2>1. TopBecomes(AddLocal(Top.locals, id), Top.used, Top.lent \cup {id}, Top.lost)
    BY <1>4, BorrowSingleEffect
  <2>2. id \notin Reach
    BY <1>4, BorrowedIsNotReached
  <2>3. PICK lent : lent = Top.lent \cup {id}
    OBVIOUS
  <2> QED  BY <1>a, <1>t, <2>1, <2>2, <2>3, FrameKept DEF Reach
<1>5. ASSUME BorrowFails \/ RollbackNext
      PROVE  FrameInv'
  <2>1. \/ \E locals : TopBecomes(locals, Top.used, Top.lent, Top.lost \cup Range(call.borrowed))
        \/ \E locals : TopBecomes(locals, Top.used, Top.lent, Top.lost)
    BY <1>5, <1>a, BorrowFailsEffect, RollbackNextEffect, SameTop
  <2>2. call.borrowed = <<>> \/ call.op = "borrow"
    BY <1>a DEF CallInv, Idle, CallShape
  <2>3. \A x \in Range(call.borrowed) : x \notin Top.used /\ x \notin Top.lent /\ x \in Nat
    BY <1>a, <1>n, <2>2, RangeType DEF CallInv, Pending
  <2>4. PICK lost : lost = Top.lost \cup Range(call.borrowed)
    OBVIOUS
  <2>5. CASE \E locals : TopBecomes(locals, Top.used, Top.lent, lost)
    BY <1>a, <1>t, <2>3, <2>4, <2>5, FrameKept
  <2>6. CASE \E locals : TopBecomes(locals, Top.used, Top.lent, Top.lost)
    BY <1>a, <1>t, <2>6, FrameKept
  <2> QED  BY <2>1, <2>4, <2>5, <2>6
<1> QED  BY <1>1, <1>2, <1>3, <1>4, <1>5

\* FrameInv depends on the stack alone.
LEMMA FrameSame ==
    ASSUME FrameInv, UNCHANGED operationStack
    PROVE  FrameInv'
BY DEF FrameInv, Depth

\* Every action keeps the frames in order.
LEMMA FrameStep ==
    ASSUME IInv, Next
    PROVE  FrameInv'
<1>a. Typing /\ FrameInv /\ PoolTyping
  BY DEF IInv, PoolInv
<1>b. Depth \in Nat \ {0} /\ Depth \in 1 .. Depth /\ Top = operationStack[Depth]
  BY <1>a, Fields
<1>1. ASSUME \/ \E n \in Nat : BeginAllocate(n) \/ BeginBorrow(n)
             \/ \E id \in Nat : Disable(id)
             \/ AllocateFails
      PROVE  FrameInv'
  BY <1>1, <1>a, FrameSame DEF BeginAllocate, BeginBorrow, Disable, AllocateFails
<1>2. ASSUME NEW args \in SUBSET Nat, OnOperationStart(args)
      PROVE  FrameInv'
  <2>1. PICK d \in Nat : d = Depth
    BY <1>b
  <2>2. /\ Depth' = d + 1
        /\ \A i \in 1 .. d : operationStack'[i] = operationStack[i]
        /\ operationStack'[d + 1] = Frame(args)
    BY <1>a, <1>2, <2>1, AppendProperties, FrameType DEF Depth, Typing, OnOperationStart
  <2>3. /\ operationStack'[d + 1].lent = {} /\ operationStack'[d + 1].lost = {}
        /\ operationStack'[d + 1].args = args /\ operationStack'[d + 1].used = {}
    BY <2>2 DEF Frame
  <2>4. d \in 1 .. d
    BY <1>b, <2>1
  <2>5. \A x \in args : \E j \in 1 .. d : x \in operationStack[j].used \/ x \in operationStack[j].lent
    <3>1. args \subseteq Top.args \cup Top.used \cup Top.lent
      BY <1>2 DEF OnOperationStart
    <3>2. \A x \in Top.args : \E j \in 1 .. d - 1 : \/ x \in operationStack[j].used
                                                   \/ x \in operationStack[j].lent
      BY <1>2, <1>a, <1>b, <2>1, <2>4, CallFields DEF FrameInv
    <3>3. \A j \in 1 .. d - 1 : j \in 1 .. d
      BY <2>1
    <3> QED  BY <1>b, <2>1, <2>4, <3>1, <3>2, <3>3
  <2> SUFFICES ASSUME NEW i \in 1 .. d + 1, NEW x \in Nat
               PROVE  /\ x \in operationStack'[i].lent =>
                            x \notin operationStack'[i].lost /\ x \notin operationStack'[i].args
                      /\ x \in operationStack'[i].args =>
                            \E j \in 1 .. i - 1 : \/ x \in operationStack'[j].used
                                                  \/ x \in operationStack'[j].lent
                      /\ \A j \in 1 .. d + 1 :
                            /\ x \in operationStack'[j].used
                            /\ x \in operationStack'[i].lent \/ x \in operationStack'[i].lost
                            => j < i
    BY <2>2 DEF FrameInv
  <2>6. CASE i = d + 1
    <3>1. i - 1 = d
      BY <2>1, <2>6
    <3> QED  BY <2>1, <2>2, <2>3, <2>5, <2>6, <3>1
  <2>7. CASE i # d + 1
    <3>1. i \in 1 .. d /\ \A j \in 1 .. d + 1 : j # d + 1 => j \in 1 .. d
      BY <2>1, <2>7
    <3>2. \A j \in 1 .. i - 1 : j \in 1 .. d
      BY <2>1, <3>1
    <3> QED  BY <1>a, <2>1, <2>2, <2>3, <3>1, <3>2 DEF FrameInv
  <2> QED  BY <2>6, <2>7
<1>3. ASSUME NEW depth \in 1 .. Depth, PopTo(depth)
      PROVE  FrameInv'
  <2>1. /\ Depth' = depth
        /\ \A i \in 1 .. depth : operationStack'[i] = operationStack[i]
    BY <1>3, <1>a, <1>b, SubSeqProperties, Fields DEF PopTo, Typing, Depth
  <2>2. \A i \in 1 .. depth : i \in 1 .. Depth /\ \A j \in 1 .. i - 1 : j \in 1 .. depth
    BY <1>b, <1>3
  <2> QED  BY <1>a, <2>1, <2>2 DEF FrameInv
<1>4. ASSUME OnOperationEnd \/ Fail
      PROVE  FrameInv'
  <2>1. \E depth \in 1 .. Depth : PopTo(depth)
    BY <1>4, <1>b DEF OnOperationEnd, Fail, Depth
  <2> QED  BY <1>3, <2>1
<1> QED  BY <1>a, NextCases, FrameStepCalls, <1>1, <1>2, <1>4

-----------------------------------------------------------------------------
(* Locals                                                                   *)

\* What the locals of the current frame must list.
Held == Top.used \cup Top.lent \cup Top.lost \cup Range(call.borrowed) \cup Range(call.got)

\* The disabled ids are those marked 2.
LEMMA DisabledMark ==
    ASSUME PoolTyping
    PROVE  \A x \in Nat : x \in DisabledIds <=> Mark(x) = 2
BY MarkMeaning DEF DisabledIds

\* The same of the next state.
LEMMA DisabledMarkNext ==
    ASSUME PoolTyping'
    PROVE  \A x \in Nat : Mark(x)' = 2 => x \in DisabledIds'
<1> SUFFICES ASSUME NEW x \in Nat, Mark(x)' = 2
             PROVE  x \in DisabledIds'
  OBVIOUS
<1>1. x \in Ids' /\ qubits'[x] - NumQubits' = 2
  BY DEF Mark
<1>2. qubits'[x] \in Nat /\ NumQubits' \in Nat
  BY <1>1 DEF PoolTyping
<1>3. qubits'[x] = NumQubits' + 2
  BY <1>1, <1>2
<1> QED  BY <1>1, <1>3 DEF DisabledIds, IsDisabled, Disabled, DisabledAt

\* LocalsExact, read for the top frame: its locals are what it holds, each counted once.
LEMMA TopLocals ==
    ASSUME Typing, LocalsExact, PoolTyping, ~DisableBorrowing
    PROVE  /\ Held \subseteq DOMAIN Top.locals /\ DOMAIN Top.locals \subseteq Nat
           /\ \A x \in DOMAIN Top.locals : Top.locals[x] = 1 /\ (x \in Held \/ Mark(x) = 2)
<1>1. Depth \in 1 .. Depth /\ Top = operationStack[Depth] /\ Depth = Len(operationStack)
  BY Fields DEF Depth
<1>2. DOMAIN Top.locals \subseteq Nat
  BY CallFields DEF Bag
<1> QED  BY <1>1, <1>2, DisabledMark DEF LocalsExact, Held

\* What the top frame's new fields have to satisfy for LocalsExact to survive.
LEMMA LocalsKept ==
    ASSUME Typing, LocalsExact, PoolTyping, PoolTyping', ~DisableBorrowing,
           NEW locals, NEW used, NEW lent, NEW lost, TopBecomes(locals, used, lent, lost),
           \A x \in Nat : Mark(x) = 2 => Mark(x)' = 2,
           NEW held,
           held = used \cup lent \cup lost \cup Range(call'.borrowed) \cup Range(call'.got),
           held \subseteq DOMAIN locals,
           \A x \in DOMAIN locals : x \in Nat /\ locals[x] = 1 /\ (x \in held \/ Mark(x)' = 2)
    PROVE  LocalsExact'
<1>1. PICK d \in Nat : d = Depth /\ d \in 1 .. d /\ Depth' = d
  BY Fields DEF TopBecomes
<1>2. Len(operationStack) = d /\ Len(operationStack') = d
  BY <1>1 DEF Depth
<1>3. \A x \in Nat : x \in DisabledIds => x \in DisabledIds'
  BY DisabledMark, DisabledMarkNext
<1>4. \A i \in 1 .. d : DOMAIN operationStack[i].locals \subseteq Nat
  <2>1. \A i \in 1 .. d : operationStack[i].locals \in Bag
    BY <1>1, Fields
  <2>2. \A b \in Bag : DOMAIN b \subseteq Nat
    BY DEF Bag
  <2> QED  BY <2>1, <2>2
<1>5. \A i \in 1 .. d :
        /\ operationStack'[i].locals = IF i = d THEN locals ELSE operationStack[i].locals
        /\ operationStack'[i].used = IF i = d THEN used ELSE operationStack[i].used
        /\ operationStack'[i].lent = IF i = d THEN lent ELSE operationStack[i].lent
        /\ operationStack'[i].lost = IF i = d THEN lost ELSE operationStack[i].lost
  BY <1>1 DEF TopBecomes
<1>6. ASSUME NEW i \in 1 .. d, i # d
      PROVE  LET frame == operationStack'[i]
                 own == frame.used \cup frame.lent \cup frame.lost
             IN  /\ own \subseteq DOMAIN frame.locals
                 /\ DOMAIN frame.locals \subseteq own \cup DisabledIds'
                 /\ \A x \in DOMAIN frame.locals : frame.locals[x] = 1
  <2>1. LET frame == operationStack[i]
            own == frame.used \cup frame.lent \cup frame.lost
        IN  /\ own \subseteq DOMAIN frame.locals
            /\ DOMAIN frame.locals \subseteq own \cup DisabledIds
            /\ \A x \in DOMAIN frame.locals : frame.locals[x] = 1
    BY <1>2, <1>6 DEF LocalsExact
  <2> QED  BY <1>3, <1>4, <1>5, <1>6, <2>1
<1>7. /\ held \subseteq DOMAIN locals
      /\ DOMAIN locals \subseteq held \cup DisabledIds'
      /\ \A x \in DOMAIN locals : locals[x] = 1
  BY DisabledMarkNext
<1>8. /\ operationStack'[d].locals = locals /\ operationStack'[d].used = used
      /\ operationStack'[d].lent = lent /\ operationStack'[d].lost = lost
  BY <1>1, <1>5
<1> QED  BY <1>2, <1>6, <1>7, <1>8 DEF LocalsExact

\* Taking a new id adds it to what is held and to the locals alike.
LEMMA LocalsAdd ==
    ASSUME Typing, LocalsExact, PoolTyping, PoolTyping', ~DisableBorrowing, NEW id \in Nat,
           id \notin Held, Mark(id) # 2, \A x \in Nat : Mark(x) = 2 => Mark(x)' = 2,
           NEW used, NEW lent, NEW lost, TopBecomes(AddLocal(Top.locals, id), used, lent, lost),
           used \cup lent \cup lost \cup Range(call'.borrowed) \cup Range(call'.got)
             = Held \cup {id}
    PROVE  LocalsExact'
<1>1. PICK old : old = Top.locals
  OBVIOUS
<1>2. PICK locals : locals = AddLocal(old, id)
  OBVIOUS
<1>3. PICK held : held = Held
  OBVIOUS
<1>4. /\ held \subseteq DOMAIN old /\ DOMAIN old \subseteq Nat
      /\ \A x \in DOMAIN old : old[x] = 1 /\ (x \in held \/ Mark(x) = 2)
  BY <1>1, <1>3, TopLocals
<1>5. id \notin DOMAIN old
  BY <1>3, <1>4
<1>6. /\ DOMAIN locals = DOMAIN old \cup {id}
      /\ \A x \in DOMAIN locals : locals[x] = 1
  BY <1>2, <1>4, <1>5 DEF AddLocal
<1>7. TopBecomes(locals, used, lent, lost)
  BY <1>1, <1>2
<1>8. PICK next : next = held \cup {id}
  OBVIOUS
<1>9. next = used \cup lent \cup lost \cup Range(call'.borrowed) \cup Range(call'.got)
  BY <1>3, <1>8
<1>10. /\ next \subseteq DOMAIN locals
       /\ \A x \in DOMAIN locals : x \in Nat /\ locals[x] = 1 /\ (x \in next \/ Mark(x)' = 2)
  BY <1>4, <1>6, <1>8
<1> QED  BY <1>7, <1>9, <1>10, LocalsKept

\* Giving back a held id removes it from what is held and from the locals alike.
LEMMA LocalsRemove ==
    ASSUME Typing, LocalsExact, PoolTyping, PoolTyping', ~DisableBorrowing, NEW id \in Nat,
           id \in Held, \A x \in Nat : Mark(x) = 2 => Mark(x)' = 2,
           NEW used, NEW lent, NEW lost, TopBecomes(RemoveLocal(Top.locals, id), used, lent, lost),
           used \cup lent \cup lost \cup Range(call'.borrowed) \cup Range(call'.got)
             = Held \ {id}
    PROVE  LocalsExact'
<1>1. PICK old : old = Top.locals
  OBVIOUS
<1>2. PICK locals : locals = RemoveLocal(old, id)
  OBVIOUS
<1>3. PICK held : held = Held
  OBVIOUS
<1>4. /\ held \subseteq DOMAIN old /\ DOMAIN old \subseteq Nat
      /\ \A x \in DOMAIN old : old[x] = 1 /\ (x \in held \/ Mark(x) = 2)
  BY <1>1, <1>3, TopLocals
<1>5. id \in DOMAIN old /\ old[id] = 1
  BY <1>3, <1>4
<1>6. /\ DOMAIN locals = DOMAIN old \ {id}
      /\ \A x \in DOMAIN locals : locals[x] = 1
  <2>1. locals = Restrict(old, DOMAIN old \ {id})
    BY <1>2, <1>5 DEF RemoveLocal
  <2> QED  BY <1>4, <2>1 DEF Restrict
<1>7. TopBecomes(locals, used, lent, lost)
  BY <1>1, <1>2
<1>8. PICK next : next = held \ {id}
  OBVIOUS
<1>9. next = used \cup lent \cup lost \cup Range(call'.borrowed) \cup Range(call'.got)
  BY <1>3, <1>8
<1>10. /\ next \subseteq DOMAIN locals
       /\ \A x \in DOMAIN locals : x \in Nat /\ locals[x] = 1 /\ (x \in next \/ Mark(x)' = 2)
  BY <1>4, <1>6, <1>8
<1> QED  BY <1>7, <1>9, <1>10, LocalsKept

\* Between two calls nothing is taken and nothing is excluded.
LEMMA IdleHolds ==
    /\ Idle.op = "idle" /\ Range(Idle.got) = {} /\ Range(Idle.borrowed) = {}
    /\ Idle.got = <<>> /\ Idle.borrowed = <<>> /\ Idle.inUse = {} /\ Idle' = Idle
BY DEF Idle, Range

\* A free id is not held by the top frame or its call.
LEMMA FreshIsNotHeld ==
    ASSUME IInv, NEW x \in Nat, Mark(x) = 0
    PROVE  x \notin Held
<1>1. x \notin Reach
  BY FreshIsNotReached
<1>2. CallInv /\ call \in CallShape /\ Typing
  BY DEF IInv, Typing
<1>3. x \notin Range(call.got) /\ x \notin Range(call.borrowed)
  <2>1. CASE call.op = "idle"
    BY <1>2, <2>1, IdleHolds DEF CallInv
  <2>2. CASE call.op = "allocate"
    BY <1>2, <2>2, CallFields, RangeType DEF CallInv
  <2>3. CASE call.op = "borrow"
    BY <1>2, <2>3 DEF CallInv
  <2> QED  BY <1>2, <2>1, <2>2, <2>3 DEF CallShape
<1> QED  BY <1>1, <1>3 DEF Held, Reach

\* An id about to be borrowed is not held yet.
LEMMA BorrowedIsNotHeld ==
    ASSUME IInv, NEW id \in Nat,
           \/ BorrowNext(id) \/ BorrowAllocates(id) \/ BorrowSingle(id)
    PROVE  id \notin Held
<1>1. id \notin Reach
  BY BorrowedIsNotReached
<1>2. CallInv /\ call \in CallShape /\ Typing
  BY DEF IInv, Typing
<1>3. CASE BorrowNext(id)
  <2>1. call.op = "borrow" /\ id >= MinId /\ call.got = <<>>
    BY <1>3, BorrowNextEffect
  <2>2. MinId \in Nat /\ Range(call.borrowed) \subseteq Nat /\ Range(call.got) = {}
    <3>1. Range(call.borrowed) \subseteq Nat /\ Range(call.got) = {}
      BY <1>2, <2>1, CallFields, RangeType
    <3>2. MinId \in Nat
      BY <1>2, ElementOfSeq, EmptySeq, CallFields DEF MinId
    <3> QED  BY <3>1, <3>2
  <2> QED  BY <1>1, <1>2, <2>1, <2>2 DEF CallInv, Held, Reach
<1>4. CASE BorrowAllocates(id)
  BY <1>4, BorrowAllocatesEffect, FreshIsNotHeld
<1>5. CASE BorrowSingle(id)
  <2>1. call = Idle
    BY <1>5, BorrowSingleEffect
  <2> QED  BY <1>1, <2>1, IdleHolds DEF Held, Reach
<1> QED  BY <1>3, <1>4, <1>5

\* The id a rollback releases belongs to the loop and to no frame it works for.
LEMMA UndoneIsNotReached ==
    ASSUME IInv, NEW h \in Range(call.got), call.op # "idle", h \in Nat
    PROVE  /\ h \notin Reach \/ h \in Top.args
           /\ h \notin Top.used /\ h \notin Top.lent /\ h \notin Top.lost
           /\ h \notin Range(call.borrowed) /\ Mark(h) \in {1, 3}
<1>1. CallInv /\ call \in CallShape /\ Typing /\ OwnInv
  BY DEF IInv, Typing
<1>2. CASE call.op = "allocate"
  <2>1. Mark(h) = 1 /\ Loans(h) = 0 /\ call.borrowed = <<>>
    BY <1>1, <1>2 DEF CallInv
  <2>2. h \notin Top.lent /\ h \notin Top.lost
    BY <2>1, FreshIsNotReached
  <2>3. Range(call.borrowed) = {}
    BY <1>1, <2>1, CallFields, RangeType
  <2>4. Calling \in Owners(h)
    BY <1>2 DEF Owners
  <2>5. h \in Top.used => Depth \in Owners(h)
    BY <1>1, Fields DEF Owners, Depth
  <2>6. Calling # Depth
    BY <1>1, Fields DEF Calling
  <2>7. h \notin Top.used
    BY <1>1, <2>4, <2>5, <2>6 DEF OwnInv
  <2> QED  BY <2>1, <2>2, <2>3, <2>7 DEF Reach
<1>3. CASE call.op = "borrow"
  BY <1>1, <1>3 DEF CallInv, Pending, Reach
<1> QED  BY <1>1, <1>2, <1>3 DEF CallShape

\* Every way of taking an id keeps the locals exact.
LEMMA LocalsStepTake ==
    ASSUME IInv, NEW id \in Nat, ~DisableBorrowing,
           AllocateNext(id) \/ BorrowNext(id) \/ BorrowAllocates(id) \/ BorrowSingle(id)
    PROVE  LocalsExact'
<1>a. Typing /\ LocalsExact /\ PoolInv /\ PoolTyping /\ call \in CallShape /\ CallInv
  BY DEF IInv, Typing, PoolInv
<1>n. call.got \in Seq(Nat) /\ call.borrowed \in Seq(Nat)
  BY <1>a, CallFields
<1>1. CASE AllocateNext(id)
  <2>1. /\ PoolInv' /\ Mark(id) = 0 /\ MarkBecomes(id, 1) /\ call.op = "allocate"
        /\ \/ /\ call' = Idle
              /\ TopBecomes(AddLocal(Top.locals, id), Top.used \cup Range(call.got) \cup {id},
                            Top.lent, Top.lost)
           \/ /\ call' = [call EXCEPT !.got = Append(call.got, id)]
              /\ TopBecomes(AddLocal(Top.locals, id), Top.used, Top.lent, Top.lost)
    BY <1>1, AllocateNextEffect
  <2>2. PoolTyping' /\ (\A x \in Nat : Mark(x) = 2 => Mark(x)' = 2) /\ id \notin Held
    BY <2>1, FreshIsNotHeld DEF MarkBecomes, PoolInv
  <2>3. Range(call.borrowed) = {}
    BY <1>a, <1>n, <2>1, RangeType DEF CallInv
  <2>4. CASE /\ call' = Idle
             /\ TopBecomes(AddLocal(Top.locals, id), Top.used \cup Range(call.got) \cup {id},
                           Top.lent, Top.lost)
    <3>1. (Top.used \cup Range(call.got) \cup {id}) \cup Top.lent \cup Top.lost
            \cup Range(call'.borrowed) \cup Range(call'.got) = Held \cup {id}
      BY <2>3, <2>4, IdleHolds DEF Held
    <3> QED  BY <1>a, <2>1, <2>2, <2>4, <3>1, LocalsAdd
  <2>5. CASE /\ call' = [call EXCEPT !.got = Append(call.got, id)]
             /\ TopBecomes(AddLocal(Top.locals, id), Top.used, Top.lent, Top.lost)
    <3>1. call'.got = Append(call.got, id) /\ call'.borrowed = call.borrowed
      BY <1>a, <2>5 DEF CallShape
    <3>2. Top.used \cup Top.lent \cup Top.lost
            \cup Range(call'.borrowed) \cup Range(call'.got) = Held \cup {id}
      BY <1>n, <3>1, RangeAppend DEF Held
    <3> QED  BY <1>a, <2>1, <2>2, <2>5, <3>2, LocalsAdd
  <2> QED  BY <2>1, <2>4, <2>5
<1>2. CASE BorrowNext(id)
  <2>1. /\ PoolInv' /\ Mark(id) \notin {0, 2} /\ MarkBecomes(id, Shared(Mark(id)))
        /\ \/ /\ call' = Idle
              /\ TopBecomes(AddLocal(Top.locals, id), Top.used,
                            Top.lent \cup Range(call.borrowed) \cup Range(call.got) \cup {id},
                            Top.lost)
           \/ /\ call' = [call EXCEPT !.borrowed = Append(call.borrowed, id),
                                      !.inUse = {x \in call.inUse : x > id}]
              /\ TopBecomes(AddLocal(Top.locals, id), Top.used, Top.lent, Top.lost)
    BY <1>2, BorrowNextEffect
  <2>2. PoolTyping' /\ (\A x \in Nat : Mark(x) = 2 => Mark(x)' = 2) /\ id \notin Held
    BY <1>2, <2>1, BorrowedIsNotHeld DEF MarkBecomes, PoolInv
  <2>4. CASE /\ call' = Idle
             /\ TopBecomes(AddLocal(Top.locals, id), Top.used,
                           Top.lent \cup Range(call.borrowed) \cup Range(call.got) \cup {id},
                           Top.lost)
    <3>1. Top.used \cup (Top.lent \cup Range(call.borrowed) \cup Range(call.got) \cup {id})
            \cup Top.lost \cup Range(call'.borrowed) \cup Range(call'.got) = Held \cup {id}
      BY <2>4, IdleHolds DEF Held
    <3> QED  BY <1>a, <2>1, <2>2, <2>4, <3>1, LocalsAdd
  <2>5. CASE /\ call' = [call EXCEPT !.borrowed = Append(call.borrowed, id),
                                     !.inUse = {x \in call.inUse : x > id}]
             /\ TopBecomes(AddLocal(Top.locals, id), Top.used, Top.lent, Top.lost)
    <3>1. call'.borrowed = Append(call.borrowed, id) /\ call'.got = call.got
      BY <1>a, <2>5 DEF CallShape
    <3>2. Top.used \cup Top.lent \cup Top.lost
            \cup Range(call'.borrowed) \cup Range(call'.got) = Held \cup {id}
      BY <1>n, <3>1, RangeAppend DEF Held
    <3> QED  BY <1>a, <2>1, <2>2, <2>5, <3>2, LocalsAdd
  <2> QED  BY <2>1, <2>4, <2>5
<1>3. CASE BorrowAllocates(id)
  <2>1. /\ PoolInv' /\ Mark(id) = 0 /\ MarkBecomes(id, 3)
        /\ \/ /\ call' = Idle
              /\ TopBecomes(AddLocal(Top.locals, id), Top.used,
                            Top.lent \cup Range(call.borrowed) \cup Range(call.got) \cup {id},
                            Top.lost)
           \/ /\ call' = [call EXCEPT !.got = Append(call.got, id),
                                      !.quota = Len(call.borrowed)]
              /\ TopBecomes(AddLocal(Top.locals, id), Top.used, Top.lent, Top.lost)
    BY <1>3, BorrowAllocatesEffect
  <2>2. PoolTyping' /\ (\A x \in Nat : Mark(x) = 2 => Mark(x)' = 2) /\ id \notin Held
    BY <1>3, <2>1, BorrowedIsNotHeld DEF MarkBecomes, PoolInv
  <2>4. CASE /\ call' = Idle
             /\ TopBecomes(AddLocal(Top.locals, id), Top.used,
                           Top.lent \cup Range(call.borrowed) \cup Range(call.got) \cup {id},
                           Top.lost)
    <3>1. Top.used \cup (Top.lent \cup Range(call.borrowed) \cup Range(call.got) \cup {id})
            \cup Top.lost \cup Range(call'.borrowed) \cup Range(call'.got) = Held \cup {id}
      BY <2>4, IdleHolds DEF Held
    <3> QED  BY <1>a, <2>1, <2>2, <2>4, <3>1, LocalsAdd
  <2>5. CASE /\ call' = [call EXCEPT !.got = Append(call.got, id),
                                     !.quota = Len(call.borrowed)]
             /\ TopBecomes(AddLocal(Top.locals, id), Top.used, Top.lent, Top.lost)
    <3>1. call'.got = Append(call.got, id) /\ call'.borrowed = call.borrowed
      BY <1>a, <2>5 DEF CallShape
    <3>2. Top.used \cup Top.lent \cup Top.lost
            \cup Range(call'.borrowed) \cup Range(call'.got) = Held \cup {id}
      BY <1>n, <3>1, RangeAppend DEF Held
    <3> QED  BY <1>a, <2>1, <2>2, <2>5, <3>2, LocalsAdd
  <2> QED  BY <2>1, <2>4, <2>5
<1>4. CASE BorrowSingle(id)
  <2>1. /\ PoolInv' /\ call = Idle /\ call' = call
        /\ TopBecomes(AddLocal(Top.locals, id), Top.used, Top.lent \cup {id}, Top.lost)
        /\ \/ Mark(id) \notin {0, 2} /\ MarkBecomes(id, Shared(Mark(id)))
           \/ Mark(id) = 0 /\ MarkBecomes(id, 1)
    BY <1>4, BorrowSingleEffect
  <2>2. PoolTyping' /\ (\A x \in Nat : Mark(x) = 2 => Mark(x)' = 2) /\ id \notin Held
    BY <1>4, <2>1, BorrowedIsNotHeld DEF MarkBecomes, PoolInv
  <2>3. Top.used \cup (Top.lent \cup {id}) \cup Top.lost
          \cup Range(call'.borrowed) \cup Range(call'.got) = Held \cup {id}
    BY <2>1 DEF Held
  <2>4. Mark(id) # 2
    BY <2>1
  <2> QED  BY <1>a, <2>1, <2>2, <2>3, <2>4, LocalsAdd
<1> QED  BY <1>1, <1>2, <1>3, <1>4

\* Every way of giving one back keeps the locals exact.
LEMMA LocalsStepGive ==
    ASSUME IInv, ~DisableBorrowing,
           \/ \E id \in Nat : Release(id) \/ Return(id)
           \/ BorrowFails \/ RollbackNext
    PROVE  LocalsExact'
<1>a. Typing /\ LocalsExact /\ PoolInv /\ PoolTyping /\ call \in CallShape /\ CallInv /\ FrameInv
  BY DEF IInv, Typing, PoolInv
<1>n. call.got \in Seq(Nat) /\ call.borrowed \in Seq(Nat)
  BY <1>a, CallFields
<1>t. \A x \in Nat : /\ x \in Top.lent => x \notin Top.lost /\ x \notin Top.args
                     /\ x \in Top.used => x \notin Top.lent /\ x \notin Top.lost
  BY <1>a, TopIsExclusive
<1>d. \A x \in Nat : Mark(x) \in Nat
  BY <1>a, MarkMeaning
<1>1. ASSUME NEW id \in Nat, Release(id)
      PROVE  LocalsExact'
  <2>1. /\ PoolInv' /\ id \in Top.used /\ call = Idle /\ call' = call
        /\ \/ /\ Mark(id) = 2 /\ SameMarks
              /\ TopBecomes(Top.locals, Top.used \ {id}, Top.lent, Top.lost)
           \/ /\ Mark(id) = 1 /\ MarkBecomes(id, 0)
              /\ TopBecomes(RemoveLocal(Top.locals, id), Top.used \ {id}, Top.lent, Top.lost)
    BY <1>1, ReleaseEffect
  <2>2. PoolTyping' /\ (\A x \in Nat : Mark(x) = 2 => Mark(x)' = 2) /\ id \in Held
    BY <2>1 DEF MarkBecomes, SameMarks, PoolInv, Held
  <2>3. (Top.used \ {id}) \cup Top.lent \cup Top.lost
          \cup Range(call'.borrowed) \cup Range(call'.got) = Held \ {id}
    BY <1>t, <2>1, IdleHolds DEF Held
  <2>4. CASE /\ Mark(id) = 2 /\ SameMarks
             /\ TopBecomes(Top.locals, Top.used \ {id}, Top.lent, Top.lost)
    <3>1. PICK locals : locals = Top.locals
      OBVIOUS
    <3>2. PICK held : held = Held \ {id}
      OBVIOUS
    <3>3. /\ held \subseteq DOMAIN locals
          /\ \A x \in DOMAIN locals : x \in Nat /\ locals[x] = 1 /\ (x \in held \/ Mark(x)' = 2)
      BY <1>a, <2>4, <3>1, <3>2, TopLocals DEF SameMarks
    <3>4. TopBecomes(locals, Top.used \ {id}, Top.lent, Top.lost)
      BY <2>4, <3>1, Zenon
    <3>5. held = (Top.used \ {id}) \cup Top.lent \cup Top.lost
                   \cup Range(call'.borrowed) \cup Range(call'.got)
      BY <2>3, <3>2
    <3> QED  BY <1>a, <2>2, <3>3, <3>4, <3>5, LocalsKept
  <2>5. CASE /\ Mark(id) = 1 /\ MarkBecomes(id, 0)
             /\ TopBecomes(RemoveLocal(Top.locals, id), Top.used \ {id}, Top.lent, Top.lost)
    BY <1>a, <2>2, <2>3, <2>5, LocalsRemove
  <2> QED  BY <2>1, <2>4, <2>5
<1>2. ASSUME NEW id \in Nat, Return(id)
      PROVE  LocalsExact'
  <2>1. /\ PoolInv' /\ id \in Top.lent /\ call = Idle /\ call' = call
        /\ MarkBecomes(id, Unshared(Mark(id)))
        /\ TopBecomes(RemoveLocal(Top.locals, id), Top.used, Top.lent \ {id}, Top.lost)
    BY <1>2, ReturnEffect
  <2>2. PoolTyping' /\ (\A x \in Nat : Mark(x) = 2 => Mark(x)' = 2) /\ id \in Held
    BY <2>1 DEF MarkBecomes, Unshared, PoolInv, Held
  <2>3. Top.used \cup (Top.lent \ {id}) \cup Top.lost
          \cup Range(call'.borrowed) \cup Range(call'.got) = Held \ {id}
    BY <1>t, <2>1, IdleHolds DEF Held
  <2> QED  BY <1>a, <2>1, <2>2, <2>3, LocalsRemove
<1>3. ASSUME UNCHANGED operationStack, SameMarks, PoolInv',
             Range(call'.borrowed) \cup Range(call'.got) = Range(call.borrowed) \cup Range(call.got)
      PROVE  LocalsExact'
  <2>1. PICK locals : locals = Top.locals
    OBVIOUS
  <2>2. PICK held : held = Held
    OBVIOUS
  <2>3. /\ held \subseteq DOMAIN locals
        /\ \A x \in DOMAIN locals : x \in Nat /\ locals[x] = 1 /\ (x \in held \/ Mark(x)' = 2)
    BY <1>a, <1>3, <2>1, <2>2, TopLocals DEF SameMarks
  <2>4. TopBecomes(locals, Top.used, Top.lent, Top.lost)
    BY <1>a, <1>3, <2>1, SameTop, Zenon
  <2>5. held = Top.used \cup Top.lent \cup Top.lost \cup Range(call'.borrowed) \cup Range(call'.got)
    BY <1>3, <2>2 DEF Held
  <2>6. PoolTyping' /\ \A x \in Nat : Mark(x) = 2 => Mark(x)' = 2
    BY <1>3 DEF PoolInv, SameMarks
  <2> QED  BY <1>a, <2>3, <2>4, <2>5, <2>6, LocalsKept
<1>4. CASE BorrowFails
  <2>1. /\ PoolInv' /\ SameMarks
        /\ \/ /\ call.got = <<>> /\ call' = Idle
              /\ TopBecomes(Top.locals, Top.used, Top.lent, Top.lost \cup Range(call.borrowed))
           \/ call' = [call EXCEPT !.undoing = TRUE] /\ UNCHANGED operationStack
    BY <1>4, BorrowFailsEffect
  <2>2. CASE /\ call.got = <<>> /\ call' = Idle
             /\ TopBecomes(Top.locals, Top.used, Top.lent, Top.lost \cup Range(call.borrowed))
    <3>1. PICK locals : locals = Top.locals
      OBVIOUS
    <3>2. PICK held : held = Held
      OBVIOUS
    <3>3. /\ held \subseteq DOMAIN locals
          /\ \A x \in DOMAIN locals : x \in Nat /\ locals[x] = 1 /\ (x \in held \/ Mark(x)' = 2)
      BY <1>a, <2>1, <3>1, <3>2, TopLocals DEF SameMarks
    <3>4. TopBecomes(locals, Top.used, Top.lent, Top.lost \cup Range(call.borrowed))
      BY <2>2, <3>1, Zenon
    <3>5. held = Top.used \cup Top.lent \cup (Top.lost \cup Range(call.borrowed))
                   \cup Range(call'.borrowed) \cup Range(call'.got)
      BY <1>n, <2>2, <3>2, IdleHolds, RangeType DEF Held
    <3>6. PoolTyping' /\ \A x \in Nat : Mark(x) = 2 => Mark(x)' = 2
      BY <2>1 DEF PoolInv, SameMarks
    <3> QED  BY <1>a, <3>3, <3>4, <3>5, <3>6, LocalsKept
  <2>3. CASE call' = [call EXCEPT !.undoing = TRUE] /\ UNCHANGED operationStack
    <3>1. call'.borrowed = call.borrowed /\ call'.got = call.got
      BY <1>a, <2>3 DEF CallShape
    <3> QED  BY <1>3, <2>1, <2>3, <3>1
  <2> QED  BY <2>1, <2>2, <2>3
<1>5. CASE RollbackNext
  <2>0. PICK h : h = Head(call.got)
    OBVIOUS
  <2>1. /\ PoolInv' /\ MarkBecomes(h, 0) /\ call.got # <<>> /\ h \in Nat /\ h \in Range(call.got)
        /\ call.op \in {"allocate", "borrow"}
        /\ \/ /\ Len(call.got) = 1 /\ call' = Idle
              /\ TopBecomes(RemoveLocal(Top.locals, h), Top.used, Top.lent,
                            Top.lost \cup Range(call.borrowed))
           \/ /\ call' = [call EXCEPT !.got = Tail(call.got)]
              /\ TopBecomes(RemoveLocal(Top.locals, h), Top.used, Top.lent, Top.lost)
    BY <1>5, <2>0, RollbackNextEffect
  <2>2. /\ Range(Tail(call.got)) = Range(call.got) \ {h}
        /\ Len(call.got) = 1 => Range(call.got) = {h}
    BY <1>a, <1>n, <2>0, <2>1, RangeTail DEF CallInv
  <2>3. /\ h \notin Top.used /\ h \notin Top.lent /\ h \notin Top.lost
        /\ h \notin Range(call.borrowed) /\ Mark(h) \in {1, 3}
    BY <2>1, UndoneIsNotReached
  <2>4. PoolTyping' /\ (\A x \in Nat : Mark(x) = 2 => Mark(x)' = 2) /\ h \in Held
    BY <2>1, <2>3 DEF MarkBecomes, PoolInv, Held
  <2>5. CASE /\ Len(call.got) = 1 /\ call' = Idle
             /\ TopBecomes(RemoveLocal(Top.locals, h), Top.used, Top.lent,
                           Top.lost \cup Range(call.borrowed))
    <3>1. Top.used \cup Top.lent \cup (Top.lost \cup Range(call.borrowed))
            \cup Range(call'.borrowed) \cup Range(call'.got) = Held \ {h}
      BY <2>2, <2>3, <2>5, IdleHolds DEF Held
    <3> QED  BY <1>a, <2>1, <2>4, <2>5, <3>1, LocalsRemove
  <2>6. CASE /\ call' = [call EXCEPT !.got = Tail(call.got)]
             /\ TopBecomes(RemoveLocal(Top.locals, h), Top.used, Top.lent, Top.lost)
    <3>1. call'.got = Tail(call.got) /\ call'.borrowed = call.borrowed
      BY <1>a, <2>6 DEF CallShape
    <3>2. Top.used \cup Top.lent \cup Top.lost
            \cup Range(call'.borrowed) \cup Range(call'.got) = Held \ {h}
      BY <2>2, <2>3, <3>1 DEF Held
    <3> QED  BY <1>a, <2>1, <2>4, <2>6, <3>2, LocalsRemove
  <2> QED  BY <2>1, <2>5, <2>6
<1> QED  BY <1>1, <1>2, <1>4, <1>5

\* Beginning a call, disabling and failing to allocate leave the locals exact.
LEMMA LocalsStepRest ==
    ASSUME IInv, ~DisableBorrowing,
           \/ \E n \in Nat : BeginAllocate(n) \/ BeginBorrow(n)
           \/ \E id \in Nat : Disable(id)
           \/ AllocateFails
    PROVE  LocalsExact'
<1>a. Typing /\ LocalsExact /\ PoolInv /\ PoolTyping /\ call \in CallShape /\ CallInv
  BY DEF IInv, Typing, PoolInv
<1>1. ASSUME UNCHANGED operationStack, \A x \in Nat : Mark(x) = 2 => Mark(x)' = 2, PoolInv',
             Range(call'.borrowed) \cup Range(call'.got) = Range(call.borrowed) \cup Range(call.got)
      PROVE  LocalsExact'
  <2>1. PICK locals : locals = Top.locals
    OBVIOUS
  <2>2. PICK held : held = Held
    OBVIOUS
  <2>3. /\ held \subseteq DOMAIN locals
        /\ \A x \in DOMAIN locals : x \in Nat /\ locals[x] = 1 /\ (x \in held \/ Mark(x)' = 2)
    BY <1>a, <1>1, <2>1, <2>2, TopLocals
  <2>4. TopBecomes(locals, Top.used, Top.lent, Top.lost)
    BY <1>a, <1>1, <2>1, SameTop, Zenon
  <2>5. held = Top.used \cup Top.lent \cup Top.lost \cup Range(call'.borrowed) \cup Range(call'.got)
    BY <1>1, <2>2 DEF Held
  <2>6. PoolTyping'
    BY <1>1 DEF PoolInv
  <2> QED  BY <1>a, <1>1, <2>3, <2>4, <2>5, <2>6, LocalsKept
<1>2. ASSUME NEW n \in Nat, BeginAllocate(n) \/ BeginBorrow(n)
      PROVE  LocalsExact'
  <2>1. /\ UNCHANGED <<poolVars, operationStack>>
        /\ call'.got = <<>> /\ call'.borrowed = <<>> /\ call.got = <<>> /\ call.borrowed = <<>>
    <3>1. CASE BeginAllocate(n)
      BY <3>1 DEF BeginAllocate, Idle
    <3>2. CASE BeginBorrow(n)
      BY <3>2 DEF BeginBorrow, Idle
    <3> QED  BY <1>2, <3>1, <3>2
  <2>2. PoolInv' /\ \A x \in Nat : Mark(x) = 2 => Mark(x)' = 2
    BY <1>a, <2>1, PoolUnchanged DEF SameMarks
  <2> QED  BY <1>1, <2>1, <2>2
<1>3. ASSUME NEW id \in Nat, Disable(id)
      PROVE  LocalsExact'
  BY <1>1, <1>3, DisableEffect DEF MarkBecomes
<1>4. ASSUME AllocateFails
      PROVE  LocalsExact'
  <2>1. /\ UNCHANGED <<poolVars, operationStack>> /\ call.op = "allocate"
        /\ call' = IF call.got = <<>> THEN Idle ELSE [call EXCEPT !.undoing = TRUE]
    BY <1>4 DEF AllocateFails, Taking
  <2>2. PoolInv' /\ \A x \in Nat : Mark(x) = 2 => Mark(x)' = 2
    BY <1>a, <2>1, PoolUnchanged DEF SameMarks
  <2>3. call.borrowed = <<>>
    BY <1>a, <2>1 DEF CallInv
  <2>4. CASE call.got = <<>>
    BY <1>1, <2>1, <2>2, <2>3, <2>4, IdleHolds
  <2>5. CASE call.got # <<>>
    <3>1. call'.borrowed = call.borrowed /\ call'.got = call.got
      BY <1>a, <2>1, <2>5 DEF CallShape
    <3> QED  BY <1>1, <2>1, <2>2, <3>1
  <2> QED  BY <2>4, <2>5
<1> QED  BY <1>2, <1>3, <1>4

\* Every action keeps the locals exact.
LEMMA LocalsStep ==
    ASSUME IInv, Next
    PROVE  LocalsExact'
<1>a. Typing /\ LocalsExact /\ PoolInv /\ PoolTyping
  BY DEF IInv, PoolInv
<1>b. Depth \in Nat \ {0} /\ Depth \in 1 .. Depth /\ Depth = Len(operationStack)
  BY <1>a, Fields DEF Depth
<1> SUFFICES ASSUME ~DisableBorrowing
             PROVE  LocalsExact'
  BY DEF LocalsExact
<1>1. ASSUME NEW args \in SUBSET Nat, OnOperationStart(args)
      PROVE  LocalsExact'
  <2>1. PICK d \in Nat : d = Depth
    BY <1>b
  <2>2. /\ Len(operationStack') = d + 1 /\ Len(operationStack) = d
        /\ \A i \in 1 .. d : operationStack'[i] = operationStack[i]
        /\ operationStack'[d + 1] = Frame(args)
        /\ call = Idle /\ UNCHANGED <<poolVars, call>>
    BY <1>a, <1>1, <2>1, AppendProperties, FrameType DEF Depth, Typing, OnOperationStart
  <2>3. LET frame == operationStack'[d + 1]
        IN  frame.lent = {} /\ frame.lost = {} /\ frame.used = {} /\ frame.locals = <<>>
    BY <2>2 DEF Frame
  <2>4. DisabledIds' = DisabledIds
    BY <2>2 DEF poolVars, DisabledIds, Ids, IsDisabled, Disabled, DisabledAt
  <2>5. Range(call.got) = {} /\ Range(call.borrowed) = {} /\ call' = call
    BY <2>2, IdleHolds
  <2>6. DOMAIN <<>> = {}
    OBVIOUS
  <2>7. ASSUME NEW i \in 1 .. d
        PROVE  LET frame == operationStack'[i]
                   held == frame.used \cup frame.lent \cup frame.lost
               IN  /\ held \subseteq DOMAIN frame.locals
                   /\ DOMAIN frame.locals \subseteq held \cup DisabledIds'
                   /\ \A id \in DOMAIN frame.locals : frame.locals[id] = 1
    BY <1>a, <2>2, <2>4, <2>5 DEF LocalsExact
  <2>8. LET frame == operationStack'[d + 1]
            held == frame.used \cup frame.lent \cup frame.lost
        IN  /\ held \subseteq DOMAIN frame.locals
            /\ DOMAIN frame.locals \subseteq held \cup DisabledIds'
            /\ \A id \in DOMAIN frame.locals : frame.locals[id] = 1
    BY <2>3, <2>6
  <2>9. \A i \in 1 .. d + 1 : i \in 1 .. d \/ i = d + 1
    BY <2>1
  <2> QED  BY <2>2, <2>5, <2>7, <2>8, <2>9 DEF LocalsExact
<1>2. ASSUME NEW depth \in 1 .. Depth, PopTo(depth), call = Idle
      PROVE  LocalsExact'
  <2>1. /\ Len(operationStack') = depth
        /\ \A i \in 1 .. depth : operationStack'[i] = operationStack[i] /\ i \in 1 .. Depth
        /\ call = Idle /\ UNCHANGED <<poolVars, call>>
    BY <1>2, <1>a, <1>b, SubSeqProperties, Fields DEF PopTo, Typing, Depth
  <2>2. DisabledIds' = DisabledIds
    BY <2>1 DEF poolVars, DisabledIds, Ids, IsDisabled, Disabled, DisabledAt
  <2>3. Range(call.got) = {} /\ Range(call.borrowed) = {} /\ call' = call
    BY <2>1, IdleHolds
  <2>4. ASSUME NEW i \in 1 .. depth
        PROVE  LET frame == operationStack'[i]
                   held == frame.used \cup frame.lent \cup frame.lost
               IN  /\ held \subseteq DOMAIN frame.locals
                   /\ DOMAIN frame.locals \subseteq held \cup DisabledIds'
                   /\ \A id \in DOMAIN frame.locals : frame.locals[id] = 1
    BY <1>a, <1>b, <2>1, <2>2, <2>3 DEF LocalsExact
  <2> QED  BY <2>1, <2>3, <2>4 DEF LocalsExact
<1>3. ASSUME OnOperationEnd \/ Fail
      PROVE  LocalsExact'
  <2>1. call = Idle /\ \E depth \in 1 .. Depth : PopTo(depth)
    BY <1>3, <1>b DEF OnOperationEnd, Fail
  <2> QED  BY <1>2, <2>1
<1> QED  BY <1>a, NextCases, LocalsStepTake, LocalsStepGive, LocalsStepRest, <1>1, <1>3

-----------------------------------------------------------------------------
(* The loop in progress                                                     *)

\* The call's invariant holds when there is none.
LEMMA CallIdle ==
    ASSUME call' = Idle
    PROVE  CallInv'
<1>1. /\ call'.op = "idle" /\ call'.got = <<>> /\ call'.borrowed = <<>> /\ Idle' = Idle
  BY IdleHolds
<1>2. IsInjective(<<>>)
  BY DEF IsInjective
<1> QED  BY <1>1, <1>2 DEF CallInv

\* The fields of the top frame after a step.
LEMMA TopNext ==
    ASSUME Typing, NEW locals, NEW used, NEW lent, NEW lost,
           TopBecomes(locals, used, lent, lost)
    PROVE  /\ Top'.args = Top.args /\ Top'.used = used
           /\ Top'.lent = lent /\ Top'.lost = lost
<1>1. Depth \in 1 .. Depth /\ Top = operationStack[Depth] /\ Depth' = Depth
  BY Fields DEF TopBecomes
<1>2. Top' = operationStack'[Depth]
  BY <1>1 DEF Top, Depth
<1> QED  BY <1>1, <1>2 DEF TopBecomes

\* An allocation in progress, after a step.
LEMMA CallKeptAllocate ==
    ASSUME call'.op = "allocate", IsInjective(call'.got), call'.borrowed = <<>>,
           \A x \in Range(call'.got) : Mark(x)' = 1 /\ Loans(x)' = 0
    PROVE  CallInv'
<1>1. IsInjective(<<>>)
  BY DEF IsInjective
<1> QED  BY <1>1 DEF CallInv

\* A loop that borrows, after a step that keeps the current frame's qubits.
LEMMA CallKeptBorrow ==
    ASSUME call'.op = "borrow", ~DisableBorrowing,
           IsInjective(call'.got), IsInjective(call'.borrowed),
           call'.got # <<>> => call'.quota = Len(call'.borrowed),
           \A x \in Range(call'.got) :
                Mark(x)' = 3 /\ x \notin Range(call'.borrowed) /\ x \notin call'.inUse,
           \A x \in Range(call'.borrowed) : x < MinId' /\ Mark(x)' # 0,
           Top'.args = Top.args, Top'.used = Top.used, Top'.lent = Top.lent,
           Top'.lost = Top.lost,
           \A x \in Range(call'.got) \cup Range(call'.borrowed) : x \notin Reach,
           \A x \in call'.inUse : x >= MinId' /\ Mark(x)' \notin {0, 2},
           \A x \in Reach : Mark(x)' = 2 \/ x \in call'.inUse \/ x < MinId'
    PROVE  CallInv'
BY DEF CallInv, Pending, Reach

\* Beginning a call establishes the call's invariant.
LEMMA CallStepBegin ==
    ASSUME IInv, NEW n \in Nat, BeginAllocate(n) \/ BeginBorrow(n)
    PROVE  CallInv'
<1>a. Typing /\ LocalsExact /\ PoolInv /\ PoolTyping /\ FrameInv
  BY DEF IInv, PoolInv
<1>b. Range(<<>>) = {} /\ IsInjective(<<>>)
  BY DEF Range, IsInjective
<1>1. CASE BeginAllocate(n)
  <2>1. call'.op = "allocate" /\ call'.got = <<>> /\ call'.borrowed = <<>>
    BY <1>1 DEF BeginAllocate, Idle
  <2> QED  BY <1>b, <2>1, CallKeptAllocate
<1>2. CASE BeginBorrow(n)
  <2>1. /\ call'.op = "borrow" /\ call'.got = <<>> /\ call'.borrowed = <<>>
        /\ call'.inUse = QubitsInUse(Top) /\ call = Idle /\ ~DisableBorrowing
        /\ UNCHANGED <<poolVars, operationStack>>
    BY <1>2 DEF BeginBorrow, Idle
  <2>2. SameMarks /\ UNCHANGED Top
    BY <1>a, <2>1, PoolUnchanged DEF Top
  <2>3. MinId' = 0
    BY <2>1 DEF MinId
  <2>4. \A x \in Reach : x \in Nat /\ Mark(x) # 0
    <3>1. Depth \in 1 .. Depth /\ Top = operationStack[Depth] /\ Reach \subseteq Nat
      BY <1>a, Fields, CallFields DEF Reach
    <3> QED  BY <3>1, ReachableInUse DEF Reach
  <2>5. /\ Held \subseteq DOMAIN Top.locals /\ DOMAIN Top.locals \subseteq Nat
        /\ \A x \in DOMAIN Top.locals : x \in Held \/ Mark(x) = 2
    BY <1>a, <2>1, TopLocals
  <2>6. Held = Top.used \cup Top.lent \cup Top.lost
    BY <2>1, IdleHolds DEF Held
  <2>7. \A x \in QubitsInUse(Top) : x \in Nat /\ Mark(x) \notin {0, 2}
    <3> SUFFICES ASSUME NEW x \in QubitsInUse(Top)
                 PROVE  x \in Nat /\ Mark(x) \notin {0, 2}
      OBVIOUS
    <3>1. (x \in DOMAIN Top.locals \/ x \in Top.args) /\ ~IsDisabled(x) /\ x \in Nat
      BY <1>a, <2>5, CallFields DEF QubitsInUse
    <3>2. x \in Reach \/ Mark(x) = 2
      BY <2>5, <2>6, <3>1 DEF Reach
    <3>3. Mark(x) # 2
      BY <1>a, <3>1, MarkMeaning
    <3> QED  BY <2>4, <3>1, <3>2, <3>3
  <2>8. \A x \in Reach : Mark(x) = 2 \/ x \in QubitsInUse(Top)
    <3> SUFFICES ASSUME NEW x \in Reach
                 PROVE  Mark(x) = 2 \/ x \in QubitsInUse(Top)
      OBVIOUS
    <3>1. x \in Top.args \/ x \in DOMAIN Top.locals
      BY <2>5, <2>6 DEF Reach
    <3>2. IsDisabled(x) => Mark(x) = 2
      BY <1>a, <2>4, MarkMeaning
    <3> QED  BY <3>1, <3>2 DEF QubitsInUse
  <2>9. \A x \in call'.inUse : x >= MinId' /\ Mark(x)' \notin {0, 2}
    BY <2>1, <2>2, <2>3, <2>7 DEF SameMarks
  <2>10. \A x \in Reach : Mark(x)' = 2 \/ x \in call'.inUse \/ x < MinId'
    BY <2>1, <2>2, <2>4, <2>8 DEF SameMarks
  <2> QED  BY <1>b, <2>1, <2>2, <2>9, <2>10, CallKeptBorrow
<1> QED  BY <1>1, <1>2

\* Every round of a call keeps it.
LEMMA CallStepTake ==
    ASSUME IInv, NEW id \in Nat, AllocateNext(id) \/ BorrowNext(id) \/ BorrowAllocates(id)
    PROVE  CallInv'
<1>a. Typing /\ LoanInv /\ PoolInv /\ PoolTyping /\ CallInv /\ call \in CallShape
  BY DEF IInv, Typing, PoolInv
<1>n. /\ call.got \in Seq(Nat) /\ call.borrowed \in Seq(Nat) /\ call.inUse \subseteq Nat
      /\ Range(call.got) \subseteq Nat /\ Range(call.borrowed) \subseteq Nat
  BY <1>a, CallFields
<1>r. Reach \subseteq Nat
  BY <1>a, CallFields DEF Reach
<1>m. MinId \in Nat
  BY <1>a, ElementOfSeq, EmptySeq, CallFields DEF MinId
<1>1. CASE AllocateNext(id)
  <2>1. /\ Mark(id) = 0 /\ MarkBecomes(id, 1) /\ call.op = "allocate" /\ UNCHANGED orphans
        /\ \/ call' = Idle
           \/ /\ call' = [call EXCEPT !.got = Append(call.got, id)]
              /\ TopBecomes(AddLocal(Top.locals, id), Top.used, Top.lent, Top.lost)
    BY <1>1, AllocateNextEffect
  <2>2. CASE /\ call' = [call EXCEPT !.got = Append(call.got, id)]
             /\ TopBecomes(AddLocal(Top.locals, id), Top.used, Top.lent, Top.lost)
    <3>1. call'.op = "allocate" /\ call'.got = Append(call.got, id)
          /\ call'.borrowed = call.borrowed
      BY <1>a, <2>1, <2>2 DEF CallShape
    <3>2. /\ IsInjective(call.got) /\ call.borrowed = <<>>
          /\ \A x \in Range(call.got) : Mark(x) = 1 /\ Loans(x) = 0
      BY <1>a, <2>1 DEF CallInv
    <3>3. id \notin Range(call.got)
      BY <2>1, <3>2
    <3>4. Range(call'.got) = Range(call.got) \cup {id} /\ IsInjective(call'.got)
      BY <1>n, <3>1, <3>2, <3>3, RangeAppend
    <3>5. Pending = {} /\ Pending' = {}
      BY <2>1, <3>1 DEF Pending
    <3>6. \A x \in Nat : Loans(x)' = Loans(x)
      BY <1>a, <2>1, <2>2, <3>5, SameLoans
    <3>7. Loans(id) = 0
      BY <1>a, <2>1 DEF LoanInv
    <3>8. \A x \in Range(call'.got) : Mark(x)' = 1 /\ Loans(x)' = 0
      BY <1>n, <2>1, <3>2, <3>4, <3>6, <3>7 DEF MarkBecomes
    <3> QED  BY <3>1, <3>2, <3>4, <3>8, CallKeptAllocate
  <2> QED  BY <2>1, <2>2, CallIdle
<1>2. CASE BorrowNext(id)
  <2>1. /\ call.op = "borrow" /\ call.got = <<>> /\ Mark(id) \notin {0, 2}
        /\ id >= MinId /\ id \notin call.inUse /\ MarkBecomes(id, Shared(Mark(id)))
        /\ \/ call' = Idle
           \/ /\ call' = [call EXCEPT !.borrowed = Append(call.borrowed, id),
                                      !.inUse = {x \in call.inUse : x > id}]
              /\ TopBecomes(AddLocal(Top.locals, id), Top.used, Top.lent, Top.lost)
    BY <1>2, BorrowNextEffect
  <2>2. CASE /\ call' = [call EXCEPT !.borrowed = Append(call.borrowed, id),
                                     !.inUse = {x \in call.inUse : x > id}]
             /\ TopBecomes(AddLocal(Top.locals, id), Top.used, Top.lent, Top.lost)
    <3>1. /\ call'.op = "borrow" /\ call'.got = <<>>
          /\ call'.borrowed = Append(call.borrowed, id)
          /\ call'.inUse = {x \in call.inUse : x > id}
      BY <1>a, <2>1, <2>2 DEF CallShape
    <3>2. /\ IsInjective(call.borrowed) /\ ~DisableBorrowing
          /\ \A x \in Range(call.borrowed) : x < MinId /\ Mark(x) # 0 /\ x \notin Reach
          /\ \A x \in call.inUse : x >= MinId /\ Mark(x) \notin {0, 2}
          /\ \A x \in Reach : Mark(x) = 2 \/ x \in call.inUse \/ x < MinId
      BY <1>a, <2>1 DEF CallInv, Pending, Reach
    <3>3. id \notin Range(call.borrowed)
      BY <1>n, <1>m, <2>1, <3>2
    <3>4. Range(call'.borrowed) = Range(call.borrowed) \cup {id} /\ IsInjective(call'.borrowed)
      BY <1>n, <3>1, <3>2, <3>3, RangeAppend
    <3>5. MinId' = id + 1
      <4>1. /\ Append(call.borrowed, id)[Len(Append(call.borrowed, id))] = id
            /\ Append(call.borrowed, id) # <<>>
        BY <1>n, AppendProperties, SMTT(60)
      <4> QED  BY <3>1, <4>1 DEF MinId
    <3>6. id \notin Reach
      BY <1>2, BorrowedIsNotReached
    <3>7. Mark(id) \in Nat /\ Mark(id)' # 0
      BY <1>a, <2>1, MarkMeaning DEF MarkBecomes, Shared
    <3>8. \A x \in Nat : x # id => Mark(x)' = Mark(x)
      BY <2>1 DEF MarkBecomes
    <3>9. \A x \in Range(call'.borrowed) : x < MinId' /\ Mark(x)' # 0 /\ x \notin Reach
      BY <1>n, <1>m, <2>1, <3>2, <3>4, <3>5, <3>6, <3>7, <3>8
    <3>10. \A x \in call'.inUse : x >= MinId' /\ Mark(x)' \notin {0, 2}
      BY <1>n, <2>1, <3>1, <3>2, <3>5, <3>8
    <3>11. \A x \in Reach : Mark(x)' = 2 \/ x \in call'.inUse \/ x < MinId'
      BY <1>r, <1>n, <1>m, <2>1, <3>1, <3>2, <3>5, <3>6, <3>8
    <3>12. /\ Top'.args = Top.args /\ Top'.used = Top.used
           /\ Top'.lent = Top.lent /\ Top'.lost = Top.lost
      BY <1>a, <2>2, TopNext
    <3>13. Range(call'.got) = {} /\ IsInjective(call'.got)
      BY <3>1 DEF Range, IsInjective
    <3> QED  BY <3>1, <3>2, <3>4, <3>9, <3>10, <3>11, <3>12, <3>13, CallKeptBorrow
  <2> QED  BY <2>1, <2>2, CallIdle
<1>3. CASE BorrowAllocates(id)
  <2>1. /\ call.op = "borrow" /\ Mark(id) = 0 /\ MarkBecomes(id, 3)
        /\ \/ call' = Idle
           \/ /\ call' = [call EXCEPT !.got = Append(call.got, id),
                                      !.quota = Len(call.borrowed)]
              /\ TopBecomes(AddLocal(Top.locals, id), Top.used, Top.lent, Top.lost)
    BY <1>3, BorrowAllocatesEffect
  <2>2. CASE /\ call' = [call EXCEPT !.got = Append(call.got, id),
                                     !.quota = Len(call.borrowed)]
             /\ TopBecomes(AddLocal(Top.locals, id), Top.used, Top.lent, Top.lost)
    <3>1. /\ call'.op = "borrow" /\ call'.got = Append(call.got, id)
          /\ call'.borrowed = call.borrowed /\ call'.inUse = call.inUse
          /\ call'.quota = Len(call.borrowed)
      BY <1>a, <2>1, <2>2 DEF CallShape
    <3>2. /\ IsInjective(call.borrowed) /\ IsInjective(call.got) /\ ~DisableBorrowing
          /\ \A x \in Range(call.got) :
                Mark(x) = 3 /\ x \notin Range(call.borrowed) /\ x \notin call.inUse
          /\ \A x \in Range(call.borrowed) : x < MinId /\ Mark(x) # 0
          /\ \A x \in Range(call.got) \cup Range(call.borrowed) : x \notin Reach
          /\ \A x \in call.inUse : x >= MinId /\ Mark(x) \notin {0, 2}
          /\ \A x \in Reach : Mark(x) = 2 \/ x \in call.inUse \/ x < MinId
      BY <1>a, <2>1 DEF CallInv, Pending, Reach
    <3>3. id \notin Range(call.got) /\ id \notin Range(call.borrowed) /\ id \notin call.inUse
      BY <2>1, <3>2
    <3>4. Range(call'.got) = Range(call.got) \cup {id} /\ IsInjective(call'.got)
      BY <1>n, <3>1, <3>2, <3>3, RangeAppend
    <3>5. MinId' = MinId
      BY <3>1 DEF MinId
    <3>6. id \notin Reach
      BY <1>3, BorrowedIsNotReached
    <3>8. Mark(id)' = 3 /\ \A x \in Nat : x # id => Mark(x)' = Mark(x)
      BY <2>1 DEF MarkBecomes
    <3>9. \A x \in Range(call'.got) :
                Mark(x)' = 3 /\ x \notin Range(call'.borrowed) /\ x \notin call'.inUse
      BY <1>n, <3>1, <3>2, <3>3, <3>4, <3>8
    <3>10. \A x \in Range(call'.borrowed) : x < MinId' /\ Mark(x)' # 0
      BY <1>n, <3>1, <3>2, <3>3, <3>5, <3>8
    <3>11. \A x \in call'.inUse : x >= MinId' /\ Mark(x)' \notin {0, 2}
      BY <1>n, <3>1, <3>2, <3>3, <3>5, <3>8
    <3>12. \A x \in Reach : Mark(x)' = 2 \/ x \in call'.inUse \/ x < MinId'
      BY <1>r, <3>1, <3>2, <3>5, <3>6, <3>8
    <3>13. /\ Top'.args = Top.args /\ Top'.used = Top.used
           /\ Top'.lent = Top.lent /\ Top'.lost = Top.lost
      BY <1>a, <2>2, TopNext
    <3>14. \A x \in Range(call'.got) \cup Range(call'.borrowed) : x \notin Reach
      BY <3>1, <3>2, <3>4, <3>6
    <3>15. call'.quota = Len(call'.borrowed) /\ IsInjective(call'.borrowed)
      BY <3>1, <3>2
    <3> QED  BY <3>1, <3>2, <3>4, <3>9, <3>10, <3>11, <3>12, <3>13, <3>14, <3>15, CallKeptBorrow
  <2> QED  BY <2>1, <2>2, CallIdle
<1> QED  BY <1>1, <1>2, <1>3

\* An exception and each step of a rollback keep it.
LEMMA CallStepThrow ==
    ASSUME IInv, AllocateFails \/ BorrowFails \/ RollbackNext
    PROVE  CallInv'
<1>a. Typing /\ LoanInv /\ PoolInv /\ PoolTyping /\ CallInv /\ call \in CallShape
  BY DEF IInv, Typing, PoolInv
<1>n. /\ call.got \in Seq(Nat) /\ call.borrowed \in Seq(Nat) /\ call.inUse \subseteq Nat
      /\ Range(call.got) \subseteq Nat /\ Range(call.borrowed) \subseteq Nat
  BY <1>a, CallFields
<1>r. Reach \subseteq Nat
  BY <1>a, CallFields DEF Reach
<1>b. call.op = "borrow" =>
        /\ IsInjective(call.borrowed) /\ IsInjective(call.got) /\ ~DisableBorrowing
        /\ call.got # <<>> => call.quota = Len(call.borrowed)
        /\ \A x \in Range(call.got) :
              Mark(x) = 3 /\ x \notin Range(call.borrowed) /\ x \notin call.inUse
        /\ \A x \in Range(call.borrowed) : x < MinId /\ Mark(x) # 0
        /\ \A x \in Range(call.got) \cup Range(call.borrowed) : x \notin Reach
        /\ \A x \in call.inUse : x >= MinId /\ Mark(x) \notin {0, 2}
        /\ \A x \in Reach : Mark(x) = 2 \/ x \in call.inUse \/ x < MinId
  BY <1>a DEF CallInv, Pending, Reach
<1>1. CASE AllocateFails
  <2>1. /\ UNCHANGED <<poolVars, operationStack, orphans>> /\ call.op = "allocate"
        /\ call' = Idle \/ call' = [call EXCEPT !.undoing = TRUE]
    BY <1>1 DEF AllocateFails, Taking, historyVars
  <2>2. CASE call' = [call EXCEPT !.undoing = TRUE]
    <3>1. call'.op = "allocate" /\ call'.got = call.got /\ call'.borrowed = call.borrowed
      BY <1>a, <2>1, <2>2 DEF CallShape
    <3>2. /\ IsInjective(call.got) /\ call.borrowed = <<>>
          /\ \A x \in Range(call.got) : Mark(x) = 1 /\ Loans(x) = 0
      BY <1>a, <2>1 DEF CallInv
    <3>3. Pending = {} /\ Pending' = {}
      BY <2>1, <3>1 DEF Pending
    <3>4. \A x \in Nat : Loans(x)' = Loans(x)
      BY <1>a, <2>1, <3>3, SameTop, SameLoans
    <3>5. \A x \in Range(call'.got) : Mark(x)' = 1 /\ Loans(x)' = 0
      BY <1>a, <1>n, <2>1, <3>1, <3>2, <3>4, PoolUnchanged DEF SameMarks
    <3> QED  BY <3>1, <3>2, <3>5, CallKeptAllocate
  <2> QED  BY <2>1, <2>2, CallIdle
<1>2. CASE BorrowFails
  <2>1. /\ SameMarks /\ call.op = "borrow"
        /\ call' = Idle \/ (call' = [call EXCEPT !.undoing = TRUE] /\ UNCHANGED operationStack)
    BY <1>2, BorrowFailsEffect
  <2>2. CASE call' = [call EXCEPT !.undoing = TRUE] /\ UNCHANGED operationStack
    <3>1. /\ call'.op = "borrow" /\ call'.got = call.got /\ call'.borrowed = call.borrowed
          /\ call'.inUse = call.inUse /\ call'.quota = call.quota
      BY <1>a, <2>1, <2>2 DEF CallShape
    <3>2. MinId' = MinId /\ Top' = Top
      BY <2>2, <3>1 DEF MinId, Top
    <3>3. \A x \in Range(call'.got) :
                Mark(x)' = 3 /\ x \notin Range(call'.borrowed) /\ x \notin call'.inUse
      BY <1>b, <1>n, <2>1, <3>1 DEF SameMarks
    <3>4. \A x \in Range(call'.borrowed) : x < MinId' /\ Mark(x)' # 0
      BY <1>b, <1>n, <2>1, <3>1, <3>2 DEF SameMarks
    <3>5. \A x \in call'.inUse : x >= MinId' /\ Mark(x)' \notin {0, 2}
      BY <1>b, <1>n, <2>1, <3>1, <3>2 DEF SameMarks
    <3>6. \A x \in Reach : Mark(x)' = 2 \/ x \in call'.inUse \/ x < MinId'
      BY <1>b, <1>r, <2>1, <3>1, <3>2 DEF SameMarks
    <3> QED  BY <1>b, <2>1, <3>1, <3>2, <3>3, <3>4, <3>5, <3>6, CallKeptBorrow
  <2> QED  BY <2>1, <2>2, CallIdle
<1>3. CASE RollbackNext
  <2>0. PICK h : h = Head(call.got)
    OBVIOUS
  <2>1. /\ MarkBecomes(h, 0) /\ call.got # <<>> /\ h \in Nat /\ h \in Range(call.got)
        /\ UNCHANGED orphans /\ call.op \in {"allocate", "borrow"}
        /\ \/ call' = Idle
           \/ /\ call' = [call EXCEPT !.got = Tail(call.got)]
              /\ TopBecomes(RemoveLocal(Top.locals, h), Top.used, Top.lent, Top.lost)
    BY <1>3, <2>0, RollbackNextEffect
  <2>2. CASE /\ call' = [call EXCEPT !.got = Tail(call.got)]
             /\ TopBecomes(RemoveLocal(Top.locals, h), Top.used, Top.lent, Top.lost)
    <3>1. /\ call'.op = call.op /\ call'.got = Tail(call.got) /\ call'.borrowed = call.borrowed
          /\ call'.inUse = call.inUse /\ call'.quota = call.quota
      BY <1>a, <2>2 DEF CallShape
    <3>2. /\ Range(call'.got) = Range(call.got) \ {h} /\ IsInjective(call'.got)
      BY <1>a, <1>n, <2>0, <2>1, <3>1, RangeTail DEF CallInv
    <3>3. \A x \in Nat : x # h => Mark(x)' = Mark(x)
      BY <2>1 DEF MarkBecomes
    <3>4. CASE call.op = "allocate"
      <4>1. /\ call.borrowed = <<>>
            /\ \A x \in Range(call.got) : Mark(x) = 1 /\ Loans(x) = 0
        BY <1>a, <3>4 DEF CallInv
      <4>2. Pending = {} /\ Pending' = {}
        BY <3>1, <3>4 DEF Pending
      <4>3. \A x \in Nat : Loans(x)' = Loans(x)
        BY <1>a, <2>1, <2>2, <4>2, SameLoans
      <4>4. \A x \in Range(call'.got) : Mark(x)' = 1 /\ Loans(x)' = 0
        BY <1>n, <3>2, <3>3, <4>1, <4>3
      <4> QED  BY <3>1, <3>2, <3>4, <4>1, <4>4, CallKeptAllocate
    <3>5. CASE call.op = "borrow"
      <4>1. MinId' = MinId
        BY <3>1 DEF MinId
      <4>2. /\ Top'.args = Top.args /\ Top'.used = Top.used
            /\ Top'.lent = Top.lent /\ Top'.lost = Top.lost
        BY <1>a, <2>2, TopNext
      <4>3. /\ h \notin Range(call.borrowed) /\ h \notin call.inUse /\ Mark(h) = 3 /\ h \notin Reach
        BY <1>b, <2>1, <3>5
      <4>4. \A x \in Range(call'.got) :
                Mark(x)' = 3 /\ x \notin Range(call'.borrowed) /\ x \notin call'.inUse
        BY <1>b, <1>n, <3>1, <3>2, <3>3, <3>5
      <4>5. \A x \in Range(call'.borrowed) : x < MinId' /\ Mark(x)' # 0
        BY <1>b, <1>n, <3>1, <3>3, <3>5, <4>1, <4>3
      <4>6. \A x \in call'.inUse : x >= MinId' /\ Mark(x)' \notin {0, 2}
        BY <1>b, <1>n, <3>1, <3>3, <3>5, <4>1, <4>3
      <4>7. \A x \in Reach : Mark(x)' = 2 \/ x \in call'.inUse \/ x < MinId'
        BY <1>b, <1>r, <3>1, <3>3, <3>5, <4>1, <4>3
      <4>8. \A x \in Range(call'.got) \cup Range(call'.borrowed) : x \notin Reach
        BY <1>b, <3>1, <3>2, <3>5
      <4>9. call'.got # <<>> => call'.quota = Len(call'.borrowed)
        BY <1>b, <2>1, <3>1, <3>5
      <4>10. IsInjective(call'.borrowed) /\ ~DisableBorrowing /\ call'.op = "borrow"
        BY <1>b, <3>1, <3>5
      <4> QED  BY <3>2, <4>2, <4>4, <4>5, <4>6, <4>7, <4>8, <4>9, <4>10, CallKeptBorrow
    <3> QED  BY <2>1, <3>4, <3>5
  <2> QED  BY <2>1, <2>2, CallIdle
<1> QED  BY <1>1, <1>2, <1>3

\* Every action keeps the call's invariant.
LEMMA CallStep ==
    ASSUME IInv, Next
    PROVE  CallInv'
<1>a. PoolTyping
  BY DEF IInv, PoolInv
<1>1. ASSUME \/ \E id \in Nat : Release(id) \/ Disable(id) \/ BorrowSingle(id) \/ Return(id)
             \/ \E args \in SUBSET Nat : OnOperationStart(args)
             \/ OnOperationEnd \/ Fail
      PROVE  CallInv'
  <2>1. call' = Idle
    BY <1>1 DEF Release, Disable, BorrowSingle, Return, OnOperationStart, OnOperationEnd, Fail,
       PopTo
  <2> QED  BY <2>1, CallIdle
<1> QED  BY <1>a, NextCases, CallStepBegin, CallStepTake, CallStepThrow, <1>1

-----------------------------------------------------------------------------
(* The pool                                                                 *)

\* Every action keeps the free list and the markers in order.
LEMMA PoolStep ==
    ASSUME IInv, Next
    PROVE  PoolInv'
<1>a. PoolTyping /\ PoolInv
  BY DEF IInv, PoolInv
<1>1. ASSUME \/ \E n \in Nat : BeginAllocate(n) \/ BeginBorrow(n)
             \/ \E args \in SUBSET Nat : OnOperationStart(args)
             \/ AllocateFails \/ OnOperationEnd \/ Fail
      PROVE  PoolInv'
  <2>1. UNCHANGED poolVars
    BY <1>1 DEF BeginAllocate, BeginBorrow, OnOperationStart, AllocateFails, OnOperationEnd, Fail,
       PopTo
  <2> QED  BY <1>a, <2>1, PoolUnchanged
<1> QED  BY <1>a, <1>1, NextCases, AllocateNextEffect, ReleaseEffect, DisableEffect,
            BorrowNextEffect, BorrowAllocatesEffect, BorrowSingleEffect, ReturnEffect,
            BorrowFailsEffect, RollbackNextEffect

\* The invariant depends on the variables alone.
LEMMA Stutter ==
    ASSUME IInv, UNCHANGED vars
    PROVE  IInv'
<1>1. /\ UNCHANGED poolVars /\ operationStack' = operationStack /\ call' = call
      /\ orphans' = orphans /\ strays' = strays
  BY DEF vars, historyVars
<1>2. PoolInv' /\ SameMarks /\ Ids' = Ids
  BY <1>1, PoolUnchanged DEF IInv
<1>3. \A x \in Nat : Owners(x)' = Owners(x) /\ Loans(x)' = Loans(x)
  BY <1>1 DEF Owners, Loans, LoanFrames, Pending
<1>4. Typing' /\ FrameInv' /\ OwnInv' /\ LoanInv'
  BY <1>1, <1>2, <1>3 DEF IInv, Typing, CallShape, FrameInv, OwnInv, LoanInv, Depth, SameMarks
<1>5. LocalsExact'
  BY <1>1, <1>2 DEF IInv, LocalsExact, DisabledIds, IsDisabled, Disabled, DisabledAt, poolVars
<1>6. CallInv'
  <2>1. UNCHANGED <<Top, MinId, Pending>>
    BY <1>1 DEF Top, MinId, Pending
  <2>2. Typing /\ CallInv
    BY DEF IInv
  <2>3. /\ Range(call.got) \subseteq Nat /\ Range(call.borrowed) \subseteq Nat
        /\ call.inUse \subseteq Nat /\ Reach \subseteq Nat
    BY <2>2, CallFields DEF Reach
  <2> QED  BY <1>1, <1>2, <1>3, <2>1, <2>2, <2>3, IdleHolds DEF CallInv, SameMarks, Reach
<1> QED  BY <1>2, <1>4, <1>5, <1>6 DEF IInv

-----------------------------------------------------------------------------
(* The inductive invariant holds                                            *)

\* The constructor links all ids into one free list, in order.
LEMMA InitialPool ==
    ASSUME Init
    PROVE  PoolInv /\ \A x \in Nat : Mark(x) = 0
<1>1. PICK n \in Nat \ {0} : n = Capacity
  BY ConstantsAssumption
<1>2. /\ NumQubits = n /\ NumAllocatedQubits = 0 /\ NumDisabledQubits = 0
      /\ qubits = [id \in 0 .. n - 1 |-> id + 1]
      /\ free = 0 /\ freeTail = n - 1
      /\ Ids = 0 .. n - 1 /\ None = n
  BY <1>1 DEF Init, Ids, None, NoneAt
<1>3. PoolTyping
  BY <1>2 DEF PoolTyping
<1>4. \A x \in Nat : Mark(x) = 0
  BY <1>2 DEF Mark, IsFree, Allocated, AllocatedAt
<1>5. PICK s : s = [i \in 1 .. n |-> i - 1]
  OBVIOUS
<1>6. ListOf(n, s)
  <2>1. s \in [1 .. n -> 0 .. n - 1] /\ \A i \in 1 .. n : s[i] = i - 1
    BY <1>5
  <2>2. \A id \in 0 .. n - 1 : id + 1 \in 1 .. n /\ s[id + 1] = id
    BY <2>1
  <2>3. \A i \in 1 .. n : qubits[s[i]] = IF i = n THEN n ELSE s[i + 1]
    BY <1>2, <2>1
  <2>4. /\ \A i, j \in 1 .. n : s[i] = s[j] => i = j
        /\ s[1] = 0 /\ s[n] = n - 1 /\ n # 0
    BY <2>1
  <2> QED  BY <1>2, <2>1, <2>2, <2>3, <2>4 DEF ListOf
<1> QED  BY <1>3, <1>4, <1>6 DEF PoolInv, ListInv

\* The invariant holds of a new manager.
LEMMA InitialInvariant ==
    ASSUME Init
    PROVE  IInv
<1>1. PoolInv /\ \A x \in Nat : Mark(x) = 0
  BY InitialPool
<1>2. /\ operationStack = <<Frame({})>> /\ call = Idle /\ strays = {}
      /\ orphans = [used |-> {}, lent |-> [id \in {} |-> 0]]
  BY DEF Init
<1>3. Frame({}) \in Frames
  BY FrameType
<1>4. /\ operationStack \in Seq(Frames) /\ operationStack # <<>>
      /\ Len(operationStack) = 1 /\ operationStack[1] = Frame({})
  BY <1>2, <1>3
<1>5. Typing
  <2>1. call \in CallShape
    BY <1>2, IdleShape DEF CallShape, Idle
  <2>2. call.undoing = FALSE
    BY <1>2 DEF Idle
  <2> QED  BY <1>2, <1>4, <2>1, <2>2 DEF Typing
<1>6. /\ Depth = 1 /\ operationStack[1].used = {} /\ operationStack[1].lent = {}
      /\ operationStack[1].lost = {} /\ operationStack[1].args = {}
      /\ operationStack[1].locals = <<>>
  BY <1>4 DEF Depth, Frame
<1>7. \A x \in Nat : Owners(x) = {}
  BY <1>2, <1>6, IdleHolds DEF Owners, Depth
<1>8. \A x \in Nat : Loans(x) = 0
  <2>1. \A x \in Nat : LoanFrames(x) = {} /\ x \notin Pending /\ x \notin DOMAIN orphans.lent
    BY <1>2, <1>6, IdleHolds DEF LoanFrames, Depth, Pending
  <2> QED  BY <2>1, FS_EmptySet DEF Loans
<1>9. FrameInv
  BY <1>6 DEF FrameInv
<1>10. LocalsExact
  <2>1. DOMAIN <<>> = {}
    OBVIOUS
  <2> QED  BY <1>2, <1>6, <2>1, IdleHolds DEF LocalsExact, Depth
<1>11. CallInv
  <2>1. IsInjective(<<>>)
    BY DEF IsInjective
  <2> QED  BY <1>2, <2>1, IdleHolds DEF CallInv
<1>12. OwnInv /\ LoanInv
  BY <1>1, <1>2, <1>7, <1>8 DEF OwnInv, LoanInv
<1> QED  BY <1>1, <1>5, <1>9, <1>10, <1>11, <1>12 DEF IInv

\* The invariant is inductive.
LEMMA InvariantStep ==
    ASSUME IInv, [Next]_vars
    PROVE  IInv'
<1>1. CASE Next
  BY <1>1, PoolStep, TypingStep, OwnStep, LoanStep, FrameStep, LocalsStep, CallStep
     DEF IInv, PoolInv
<1>2. CASE UNCHANGED vars
  BY <1>2, Stutter
<1> QED  BY <1>1, <1>2

\* The inductive invariant holds in every reachable state of every manager.
THEOREM Invariance == Spec => []IInv
BY InitialInvariant, InvariantStep, PTL DEF Spec

-----------------------------------------------------------------------------
(* The theorems                                                             *)

\* No qubit is ever allocated twice or released under its owner: for every capacity,
\* option, nesting of operations and failure (QubitManager.cs:324-526).
THEOREM OwnershipIsExclusive == Spec => []ExclusiveOwnership
<1>1. IInv => ExclusiveOwnership
  <2> SUFFICES ASSUME IInv
               PROVE  ExclusiveOwnership
    OBVIOUS
  <2>1. PoolTyping /\ OwnInv /\ Ids \subseteq Nat
    BY DEF IInv, PoolInv, PoolTyping, Ids
  <2> QED  BY <2>1, MarkMeaning DEF ExclusiveOwnership, OwnInv, IsDisabled
<1> QED  BY <1>1, Invariance, PTL

\* The reference count in a marker is the number of loans outstanding, and nothing
\* that is free is on loan (QubitManager.cs:531-709).
THEOREM ReferenceCountsAreExact == Spec => []RefCountExact
<1>1. IInv => RefCountExact
  <2> SUFFICES ASSUME IInv, NEW id \in Ids
               PROVE  /\ IsAllocatedForBorrowing(id) =>
                            qubits[id] - AllocatedForBorrowing + 1 = Loans(id)
                      /\ IsFree(id) => Loans(id) = 0
    BY DEF RefCountExact
  <2>1. PoolTyping /\ LoanInv /\ id \in Nat /\ NumQubits \in Nat /\ qubits[id] \in Nat
    BY DEF IInv, PoolInv, PoolTyping, Ids
  <2>2. IsFree(id) => Loans(id) = 0
    BY <2>1, MarkMeaning DEF LoanInv
  <2>3. ASSUME IsAllocatedForBorrowing(id)
        PROVE  qubits[id] - AllocatedForBorrowing + 1 = Loans(id)
    <3>1. Mark(id) >= 3 /\ Mark(id) = qubits[id] - NumQubits
      BY <2>1, <2>3, MarkMeaning
    <3>2. Loans(id) = Mark(id) - 2
      BY <2>1, <3>1 DEF LoanInv
    <3> QED  BY <2>1, <3>1, <3>2 DEF AllocatedForBorrowing, AllocatedForBorrowingAt
  <2> QED  BY <2>2, <2>3
<1> QED  BY <1>1, Invariance, PTL

\* The locals of every frame are what it holds, once each, but for disabled qubits:
\* the assertions of Release and Return never fail (QubitManager.cs:495, 684).
THEOREM LocalsAreExact == Spec => []LocalsExact
BY Invariance, PTL DEF IInv

\* The free list is one list of all the free qubits, ended by None, whatever the
\* release policy, through growth and rollback (QubitManager.cs:324-526).
THEOREM FreeListIsExact == Spec => []FreeListExact
<1>1. IInv => FreeListExact
  <2> SUFFICES ASSUME IInv
               PROVE  FreeListExact
    OBVIOUS
  <2>1. PoolTyping /\ ListInv /\ NumQubits \in Nat \ {0} /\ Ids = 0 .. NumQubits - 1
    BY DEF IInv, PoolInv, PoolTyping, Ids
  <2>a. PICK n \in Nat : \E s : ListOf(n, s)
    BY <2>1 DEF ListInv
  <2>2. PICK s : ListOf(n, s)
    BY <2>a
  <2>3. s \in [1 .. n -> FreeIds]
    <3>1. \A i \in 1 .. n : s[i] \in FreeIds
      BY <2>1, <2>2, ListedIsFree DEF FreeIds
    <3> QED  BY <2>2, <3>1 DEF ListOf
  <2>4. n \in 0 .. NumQubits
    <3>1. /\ IsFiniteSet(Ids) /\ Cardinality(Ids) = NumQubits
          /\ IsFiniteSet(1 .. n) /\ Cardinality(1 .. n) = n
      BY <2>1, FS_Interval
    <3>2. s \in Injection(1 .. n, Ids)
      BY <2>2 DEF ListOf, Injection, IsInjective
    <3>3. Cardinality(1 .. n) <= Cardinality(Ids)
      BY <3>1, <3>2, FS_Injection
    <3> QED  BY <2>1, <3>1, <3>3
  <2>5. s \in Seq(FreeIds) /\ Len(s) = n /\ DOMAIN s = 1 .. n /\ (s = <<>> <=> n = 0)
    BY <2>3, SeqDef, EmptySeq, LenProperties
  <2>6. Linked(s)
    BY <2>2, <2>5 DEF Linked, ListOf, IsInjective
  <2>7. ~Discards => FreeIds = Range(s)
    <3>1. Range(s) \subseteq FreeIds
      BY <2>3 DEF Range
    <3>2. ~Discards => FreeIds \subseteq Range(s)
      <4>1. \A id \in FreeIds : id \in Ids /\ Mark(id) = 0
        BY DEF FreeIds, Mark
      <4> QED  BY <2>2, <2>5, <4>1 DEF ListOf, Range
    <3> QED  BY <3>1, <3>2
  <2>8. ~EncourageReuse /\ ~MayExtendCapacity =>
            IF s = <<>> THEN qubits[freeTail] # None ELSE freeTail = s[Len(s)]
    BY <2>2, <2>5 DEF ListOf
  <2>9. s \in UNION {[1 .. k -> FreeIds] : k \in 0 .. NumQubits}
    BY <2>3, <2>4
  <2> QED  BY <2>6, <2>7, <2>8, <2>9 DEF FreeListExact
<1> QED  BY <1>1, Invariance, PTL

\* No action takes the mark 2 off an id.
LEMMA DisabledMarkStep ==
    ASSUME IInv, Next, NEW x \in Nat, Mark(x) = 2
    PROVE  Mark(x)' = 2
<1>a. PoolTyping /\ PoolInv
  BY DEF IInv, PoolInv
<1>1. ASSUME \/ \E n \in Nat : BeginAllocate(n) \/ BeginBorrow(n)
             \/ \E args \in SUBSET Nat : OnOperationStart(args)
             \/ AllocateFails \/ OnOperationEnd \/ Fail
      PROVE  Mark(x)' = 2
  <2>1. UNCHANGED poolVars
    BY <1>1 DEF BeginAllocate, BeginBorrow, OnOperationStart, AllocateFails, OnOperationEnd, Fail,
       PopTo
  <2> QED  BY <1>a, <2>1, PoolUnchanged DEF SameMarks
<1>2. ASSUME NEW id \in Nat,
             AllocateNext(id) \/ BorrowNext(id) \/ BorrowAllocates(id) \/ BorrowSingle(id)
      PROVE  Mark(x)' = 2
  <2>1. Mark(id) # 2 /\ \E m : MarkBecomes(id, m)
    <3>1. CASE AllocateNext(id)
      <4>1. Mark(id) = 0 /\ MarkBecomes(id, 1)
        BY <1>a, <3>1, AllocateNextEffect
      <4> QED  BY <4>1
    <3>2. CASE BorrowNext(id)
      <4>1. Mark(id) \notin {0, 2} /\ MarkBecomes(id, Shared(Mark(id)))
        BY <1>a, <3>2, BorrowNextEffect
      <4> QED  BY <4>1
    <3>3. CASE BorrowAllocates(id)
      <4>1. Mark(id) = 0 /\ MarkBecomes(id, 3)
        BY <1>a, <3>3, BorrowAllocatesEffect
      <4> QED  BY <4>1
    <3>4. CASE BorrowSingle(id)
      <4>1. \/ Mark(id) \notin {0, 2} /\ MarkBecomes(id, Shared(Mark(id)))
            \/ Mark(id) = 0 /\ MarkBecomes(id, 1)
        BY <1>a, <3>4, BorrowSingleEffect
      <4> QED  BY <4>1
    <3> QED  BY <1>2, <3>1, <3>2, <3>3, <3>4
  <2> QED  BY <2>1 DEF MarkBecomes
<1>3. ASSUME NEW id \in Nat, Release(id)
      PROVE  Mark(x)' = 2
  <2>1. SameMarks \/ (Mark(id) = 1 /\ MarkBecomes(id, 0))
    BY <1>3, ReleaseEffect
  <2> QED  BY <2>1 DEF MarkBecomes, SameMarks
<1>4. ASSUME NEW id \in Nat, Disable(id)
      PROVE  Mark(x)' = 2
  BY <1>4, DisableEffect DEF MarkBecomes
<1>5. ASSUME NEW id \in Nat, Return(id)
      PROVE  Mark(x)' = 2
  <2>1. MarkBecomes(id, Unshared(Mark(id)))
    BY <1>5, ReturnEffect
  <2> QED  BY <2>1 DEF MarkBecomes, Unshared
<1>6. ASSUME BorrowFails
      PROVE  Mark(x)' = 2
  BY <1>6, BorrowFailsEffect DEF SameMarks
<1>7. ASSUME RollbackNext
      PROVE  Mark(x)' = 2
  <2>1. PICK h : h = Head(call.got)
    OBVIOUS
  <2>2. MarkBecomes(h, 0) /\ Mark(h) \in {1, 3}
    BY <1>7, <2>1, RollbackNextEffect, UndoneIsNotReached
  <2> QED  BY <2>2 DEF MarkBecomes
<1> QED  BY <1>a, NextCases, <1>1, <1>2, <1>3, <1>4, <1>5, <1>6, <1>7

\* "Once a qubit is disabled it can never be reallocated" (QubitManager.cs:288).
THEOREM DisabledStaysDisabled == Spec => DisabledForever
<1>1. ASSUME IInv, [Next]_vars
      PROVE  DisabledIds \subseteq DisabledIds'
  <2>1. PoolTyping /\ IInv' /\ PoolTyping'
    BY <1>1, InvariantStep DEF IInv, PoolInv
  <2>2. \A x \in Nat : x \in DisabledIds <=> Mark(x) = 2
    BY <2>1, DisabledMark
  <2>3. DisabledIds \subseteq Nat
    BY <2>1 DEF DisabledIds, Ids, PoolTyping
  <2>4. \A x \in Nat : Mark(x) = 2 => Mark(x)' = 2
    <3>1. CASE Next
      BY <1>1, <3>1, DisabledMarkStep
    <3>2. CASE UNCHANGED vars
      BY <1>1, <3>2, PoolUnchanged DEF IInv, SameMarks, vars
    <3> QED  BY <1>1, <3>1, <3>2
  <2> QED  BY <2>1, <2>2, <2>3, <2>4, DisabledMarkNext
<1>2. IInv /\ [Next]_vars => [DisabledIds \subseteq DisabledIds']_vars
  BY <1>1
<1> QED  BY <1>2, Invariance, PTL DEF DisabledForever, Spec

-----------------------------------------------------------------------------
(* Types                                                                    *)

\* What an invariant about types needs beyond the inductive invariant: an id that a
\* frame, the loop in progress or the history mentions is in use, hence an id of the
\* present capacity.
TypeInv ==
    /\ failures \in Nat
    /\ DisableBorrowing => \A i \in 1 .. Depth : operationStack[i].locals = <<>>
    /\ call.quota \in Int
    /\ call.before \subseteq Ids
    /\ call.op # "borrow" => call.inUse = {}

\* An id in use is below the capacity.
LEMMA MarkedIsId ==
    ASSUME PoolTyping, NEW x \in Nat, Mark(x) # 0
    PROVE  x \in Ids
BY MarkMeaning

\* All that a frame refers to is below the capacity.
LEMMA FrameIds ==
    ASSUME IInv, TypeInv, NEW i \in 1 .. Depth
    PROVE  /\ operationStack[i].args \subseteq Ids /\ operationStack[i].used \subseteq Ids
           /\ operationStack[i].lent \subseteq Ids /\ operationStack[i].lost \subseteq Ids
           /\ DOMAIN operationStack[i].locals \subseteq Ids
<1>1. PoolTyping /\ Typing /\ LocalsExact /\ CallInv
  BY DEF IInv, PoolInv
<1>2. /\ operationStack[i].args \subseteq Ids /\ operationStack[i].used \subseteq Ids
      /\ operationStack[i].lent \subseteq Ids /\ operationStack[i].lost \subseteq Ids
  <2>1. /\ operationStack[i].args \subseteq Nat /\ operationStack[i].used \subseteq Nat
        /\ operationStack[i].lent \subseteq Nat /\ operationStack[i].lost \subseteq Nat
    BY <1>1, Fields
  <2> QED  BY <1>1, <2>1, ReachableInUse, MarkedIsId
<1>3. CASE DisableBorrowing
  <2>1. operationStack[i].locals = <<>>
    BY <1>3 DEF TypeInv
  <2>2. DOMAIN <<>> = {}
    OBVIOUS
  <2> QED  BY <1>2, <2>1, <2>2
<1>4. CASE ~DisableBorrowing
  <2>1. Range(call.got) \cup Range(call.borrowed) \subseteq Ids
    <3>1. \A x \in Range(call.got) \cup Range(call.borrowed) : x \in Nat /\ Mark(x) # 0
      <4>1. Range(call.got) \subseteq Nat /\ Range(call.borrowed) \subseteq Nat
        BY <1>1, CallFields
      <4>2. call.op \in {"idle", "allocate", "borrow"}
        BY <1>1 DEF Typing, CallShape
      <4>3. CASE call.op = "idle"
        BY <1>1, <4>3, IdleHolds DEF CallInv
      <4>4. CASE call.op = "allocate"
        BY <1>1, <4>1, <4>4, IdleHolds, RangeType, CallFields DEF CallInv
      <4>5. CASE call.op = "borrow"
        BY <1>1, <4>1, <4>5 DEF CallInv
      <4> QED  BY <4>2, <4>3, <4>4, <4>5
    <3> QED  BY <1>1, <3>1, MarkedIsId
  <2>2. DisabledIds \subseteq Ids
    BY DEF DisabledIds
  <2>3. DOMAIN operationStack[i].locals \subseteq
            operationStack[i].used \cup operationStack[i].lent \cup operationStack[i].lost
            \cup Range(call.borrowed) \cup Range(call.got) \cup DisabledIds
    BY <1>1, <1>4 DEF LocalsExact, Depth
  <2> QED  BY <1>2, <2>1, <2>2, <2>3
<1> QED  BY <1>3, <1>4

\* Borrow's quota is a number: what it must not borrow is a finite set.
LEMMA QuotaType ==
    ASSUME IInv, TypeInv
    PROVE  Cardinality(QubitsInUse(Top)) \in Nat
<1>1. Depth \in 1 .. Depth /\ Top = operationStack[Depth]
  BY Fields DEF IInv
<1>2. QubitsInUse(Top) \subseteq Ids
  BY <1>1, FrameIds DEF QubitsInUse
<1>3. IsFiniteSet(Ids)
  BY FS_Interval DEF Ids, IInv, PoolInv, PoolTyping
<1> QED  BY <1>2, <1>3, FS_Subset, FS_CardinalityType

\* The capacity never shrinks.
LEMMA IdsGrow ==
    ASSUME IInv, Next
    PROVE  Ids \subseteq Ids'
<1>1. PoolInv /\ PoolTyping
  BY DEF IInv, PoolInv
<1>2. UNCHANGED NumQubits \/ \E id \in Nat : \E b \in BOOLEAN : AllocateOne(id, b)
  BY <1>1, NextCases DEF BeginAllocate, BeginBorrow, AllocateNext, Release, Disable, BorrowNext,
     BorrowAllocates, BorrowSingle, Return, AllocateFails, BorrowFails, RollbackNext,
     OnOperationStart, OnOperationEnd, Fail, PopTo, poolVars, ReleaseOne
<1> QED  BY <1>1, <1>2, AllocateOneEffect DEF Ids

\* Without borrowing no frame records any local.
LEMMA NoLocals ==
    ASSUME IInv, TypeInv, Next, DisableBorrowing
    PROVE  (\A i \in 1 .. Depth : operationStack[i].locals = <<>>)'
<1>1. /\ PoolTyping /\ Typing /\ \A i \in 1 .. Depth : operationStack[i].locals = <<>>
      /\ Depth \in Nat \ {0} /\ Top = operationStack[Depth] /\ call.op # "borrow"
  BY Fields DEF IInv, PoolInv, TypeInv, CallInv
<1>2. /\ Top.locals = <<>>
      /\ \A id : AddLocal(Top.locals, id) = Top.locals /\ RemoveLocal(Top.locals, id) = Top.locals
  BY <1>1 DEF AddLocal, RemoveLocal
<1>3. ASSUME NEW used, NEW lent, NEW lost, TopBecomes(Top.locals, used, lent, lost)
      PROVE  (\A i \in 1 .. Depth : operationStack[i].locals = <<>>)'
  BY <1>1, <1>2, <1>3 DEF TopBecomes
<1>4. ASSUME UNCHANGED operationStack
      PROVE  (\A i \in 1 .. Depth : operationStack[i].locals = <<>>)'
  BY <1>1, <1>4 DEF Depth
<1>5. ASSUME \/ \E n \in Nat : BeginAllocate(n) \/ BeginBorrow(n)
             \/ \E id \in Nat : Disable(id)
             \/ AllocateFails
      PROVE  (\A i \in 1 .. Depth : operationStack[i].locals = <<>>)'
  BY <1>4, <1>5 DEF BeginAllocate, BeginBorrow, Disable, AllocateFails
<1>6. ASSUME NEW id \in Nat, AllocateNext(id)
      PROVE  (\A i \in 1 .. Depth : operationStack[i].locals = <<>>)'
  <2>1. \E used : TopBecomes(AddLocal(Top.locals, id), used, Top.lent, Top.lost)
    BY <1>6, AllocateNextEffect
  <2> QED  BY <1>2, <1>3, <2>1
<1>7. ASSUME NEW id \in Nat, Release(id)
      PROVE  (\A i \in 1 .. Depth : operationStack[i].locals = <<>>)'
  BY <1>2, <1>3, <1>7, ReleaseEffect
<1>8. ASSUME NEW id \in Nat, Return(id)
      PROVE  (\A i \in 1 .. Depth : operationStack[i].locals = <<>>)'
  BY <1>2, <1>3, <1>8, ReturnEffect
<1>9. ASSUME NEW id \in Nat, BorrowNext(id) \/ BorrowAllocates(id) \/ BorrowSingle(id)
      PROVE  (\A i \in 1 .. Depth : operationStack[i].locals = <<>>)'
  BY <1>1, <1>9 DEF BorrowNext, BorrowAllocates, BorrowSingle, Taking
<1>10. ASSUME BorrowFails
       PROVE  (\A i \in 1 .. Depth : operationStack[i].locals = <<>>)'
  BY <1>1, <1>10 DEF BorrowFails, Taking
<1>11. ASSUME RollbackNext
       PROVE  (\A i \in 1 .. Depth : operationStack[i].locals = <<>>)'
  BY <1>2, <1>3, <1>11, RollbackNextEffect
<1>12. ASSUME NEW args \in SUBSET Nat, OnOperationStart(args)
       PROVE  (\A i \in 1 .. Depth : operationStack[i].locals = <<>>)'
  <2>1. Frame(args) \in Frames /\ Frame(args).locals = <<>>
    BY FrameType DEF Frame
  <2>2. operationStack' = Append(operationStack, Frame(args)) /\ operationStack \in Seq(Frames)
    BY <1>1, <1>12 DEF OnOperationStart, Typing
  <2>3. /\ Len(operationStack') = Len(operationStack) + 1
        /\ \A i \in 1 .. Len(operationStack) : operationStack'[i] = operationStack[i]
        /\ operationStack'[Len(operationStack) + 1] = Frame(args)
    BY <2>1, <2>2, AppendProperties
  <2> QED  BY <1>1, <2>1, <2>3 DEF Depth
<1>13. ASSUME OnOperationEnd \/ Fail
       PROVE  (\A i \in 1 .. Depth : operationStack[i].locals = <<>>)'
  <2>1. PICK d \in 1 .. Depth : operationStack' = SubSeq(operationStack, 1, d)
    <3>1. CASE OnOperationEnd
      BY <1>1, <3>1, Depth - 1 \in 1 .. Depth DEF OnOperationEnd, PopTo, Depth
    <3>2. CASE Fail
      BY <1>1, <3>2, 1 \in 1 .. Depth DEF Fail, PopTo, Depth
    <3> QED  BY <1>13, <3>1, <3>2
  <2>2. operationStack \in Seq(Frames)
    BY <1>1 DEF Typing
  <2>3. Len(operationStack') = d /\ \A i \in 1 .. d : operationStack'[i] = operationStack[i]
    BY <2>1, <2>2, SubSeqProperties DEF Depth
  <2> QED  BY <1>1, <2>3 DEF Depth
<1> QED  BY <1>1, NextCases, <1>5, <1>6, <1>7, <1>8, <1>9, <1>10, <1>11, <1>12, <1>13

\* The fields of the loop in progress keep their types.
LEMMA CallTypes ==
    ASSUME IInv, TypeInv, Next
    PROVE  /\ call'.quota \in Int /\ call'.before \subseteq Ids'
           /\ call'.op # "borrow" => call'.inUse = {}
<1>1. /\ PoolTyping /\ Typing /\ CallInv /\ call \in CallShape /\ Ids \subseteq Ids'
      /\ call.quota \in Int /\ call.before \subseteq Ids
      /\ (call.op # "borrow" => call.inUse = {})
  BY IdsGrow DEF IInv, PoolInv, Typing, TypeInv
<1>2. CASE call' = Idle
  BY <1>2 DEF Idle
<1>3. CASE UNCHANGED call
  BY <1>1, <1>3
<1>4. ASSUME NEW n \in Nat, BeginAllocate(n)
      PROVE  /\ call'.quota \in Int /\ call'.before \subseteq Ids' /\ call'.inUse = {}
  <2>1. FreeIds \subseteq Ids
    BY DEF FreeIds
  <2> QED  BY <1>1, <1>4, <2>1 DEF BeginAllocate, Idle
<1>5. ASSUME NEW n \in Nat, BeginBorrow(n)
      PROVE  /\ call'.quota \in Int /\ call'.before \subseteq Ids' /\ call'.op = "borrow"
  <2>1. FreeIds \subseteq Ids
    BY DEF FreeIds
  <2>2. PICK available \in Int : available = NumAllocatedQubits - Cardinality(QubitsInUse(Top))
    BY <1>1, QuotaType DEF PoolTyping
  <2>3. /\ call'.quota = (IF available < n THEN available ELSE n)
        /\ call'.before = FreeIds /\ call'.op = "borrow"
    BY <1>5, <2>2 DEF BeginBorrow, Idle
  <2> QED  BY <1>1, <2>1, <2>2, <2>3
<1>6. ASSUME NEW got, call' = [call EXCEPT !.got = got]
      PROVE  /\ call'.quota \in Int /\ call'.before \subseteq Ids'
             /\ call'.op # "borrow" => call'.inUse = {}
  BY <1>1, <1>6 DEF CallShape
<1>7. ASSUME NEW id \in Nat, AllocateNext(id)
      PROVE  \/ call' = Idle
             \/ call' = [call EXCEPT !.got = Append(call.got, id)]
  BY <1>7 DEF AllocateNext
<1>8. ASSUME NEW id \in Nat, BorrowNext(id)
      PROVE  /\ call'.quota \in Int /\ call'.before \subseteq Ids'
             /\ call'.op # "borrow" => call'.inUse = {}
  <2>1. \/ call' = Idle
        \/ call' = [call EXCEPT !.borrowed = Append(call.borrowed, id),
                                !.inUse = {x \in call.inUse : x > id}]
    BY <1>8, BorrowNextEffect
  <2>2. call.op = "borrow"
    BY <1>8, BorrowNextEffect
  <2> QED  BY <1>1, <1>2, <2>1, <2>2 DEF CallShape
<1>9. ASSUME NEW id \in Nat, BorrowAllocates(id)
      PROVE  /\ call'.quota \in Int /\ call'.before \subseteq Ids'
             /\ call'.op # "borrow" => call'.inUse = {}
  <2>1. \/ call' = Idle
        \/ call' = [call EXCEPT !.got = Append(call.got, id), !.quota = Len(call.borrowed)]
    BY <1>9, BorrowAllocatesEffect
  <2>2. call.op = "borrow"
    BY <1>9, BorrowAllocatesEffect
  <2>3. Len(call.borrowed) \in Int
    BY <1>1, CallFields, LenProperties
  <2> QED  BY <1>1, <1>2, <2>1, <2>2, <2>3 DEF CallShape
<1>10. ASSUME AllocateFails \/ BorrowFails
       PROVE  call' = Idle \/ call' = [call EXCEPT !.undoing = TRUE]
  BY <1>10 DEF AllocateFails, BorrowFails
<1>11. ASSUME RollbackNext
       PROVE  call' = Idle \/ call' = [call EXCEPT !.got = Tail(call.got)]
  BY <1>11 DEF RollbackNext
<1>12. ASSUME call' = [call EXCEPT !.undoing = TRUE]
       PROVE  /\ call'.quota \in Int /\ call'.before \subseteq Ids'
              /\ call'.op # "borrow" => call'.inUse = {}
  BY <1>1, <1>12 DEF CallShape
<1>13. ASSUME \/ \E id \in Nat : Release(id) \/ Disable(id) \/ BorrowSingle(id) \/ Return(id)
              \/ \E args \in SUBSET Nat : OnOperationStart(args)
              \/ OnOperationEnd \/ Fail
       PROVE  UNCHANGED call
  BY <1>13 DEF Release, Disable, BorrowSingle, Return, OnOperationStart, OnOperationEnd, Fail, PopTo
<1> QED  BY <1>1, NextCases, <1>2, <1>3, <1>4, <1>5, <1>6, <1>7, <1>8, <1>9, <1>10, <1>11, <1>12, <1>13

\* The count of failures only grows, by one.
LEMMA FailuresType ==
    ASSUME failures \in Nat, PoolTyping, Next
    PROVE  failures' \in Nat
<1>1. failures' \in {failures, failures + 1}
  BY NextCases DEF BeginAllocate, BeginBorrow, AllocateNext, Release, Disable, BorrowNext,
     BorrowAllocates, BorrowSingle, Return, AllocateFails, BorrowFails, RollbackNext,
     OnOperationStart, OnOperationEnd, Fail, PopTo, historyVars
<1> QED  BY <1>1

\* What TypeOK says beyond IInv and TypeInv are consequences of the two.
LEMMA TypesFollow ==
    ASSUME IInv, TypeInv
    PROVE  TypeOK
<1>1. PoolTyping /\ Typing /\ CallInv /\ OwnInv /\ LoanInv
  BY DEF IInv, PoolInv
<1>2. \A i \in 1 .. Len(operationStack) :
        LET frame == operationStack[i]
        IN  /\ DOMAIN frame.locals \subseteq Ids
            /\ {frame.args, frame.used, frame.lent, frame.lost} \subseteq SUBSET Ids
  BY FrameIds DEF Depth
<1>3. /\ \A x \in Range(call.got) : x \in Ids
      /\ \A x \in Range(call.borrowed) : x \in Ids
      /\ call.inUse \subseteq Ids
  <2>1. /\ Range(call.got) \subseteq Nat /\ Range(call.borrowed) \subseteq Nat
        /\ call.inUse \subseteq Nat /\ call.op \in {"idle", "allocate", "borrow"}
    BY <1>1, CallFields DEF Typing, CallShape
  <2>2. CASE call.op = "idle"
    BY <1>1, <2>2, IdleHolds DEF CallInv
  <2>3. CASE call.op = "allocate"
    <3>1. call.inUse = {} /\ Range(call.borrowed) = {}
      BY <1>1, <2>3, RangeType, CallFields DEF CallInv, TypeInv
    <3> QED  BY <1>1, <2>1, <2>3, <3>1, MarkedIsId DEF CallInv
  <2>4. CASE call.op = "borrow"
    BY <1>1, <2>1, <2>4, MarkedIsId DEF CallInv
  <2> QED  BY <2>1, <2>2, <2>3, <2>4
<1>4. call \in Calls
  <2>1. call.got \in Seq(Ids) /\ call.borrowed \in Seq(Ids)
    <3>1. ASSUME NEW s \in Seq(Nat), \A x \in Range(s) : x \in Ids
          PROVE  s \in Seq(Ids)
      <4>1. Len(s) \in Nat /\ s \in [1 .. Len(s) -> Nat]
        BY LenProperties
      <4>2. s \in [1 .. Len(s) -> Ids]
        BY <3>1, <4>1 DEF Range
      <4> QED  BY <4>1, <4>2, SeqDef
    <3> QED  BY <1>1, <1>3, <3>1, CallFields
  <2> QED  BY <1>1, <1>3, <2>1 DEF Typing, CallShape, Calls, TypeInv
<1>5. /\ orphans.used \subseteq Ids /\ strays \subseteq Ids /\ DOMAIN orphans.lent \subseteq Ids
  <2>1. orphans.used \subseteq Nat /\ strays \subseteq Nat /\ DOMAIN orphans.lent \subseteq Nat
    BY <1>1 DEF Typing
  <2>2. \A x \in Nat : x \in orphans.used \/ x \in strays => Owners(x) # {}
    BY DEF Owners
  <2>3. \A x \in Nat : x \in orphans.used \/ x \in strays => Mark(x) # 0
    BY <1>1, <2>2 DEF OwnInv
  <2>4. \A x \in Nat : x \in DOMAIN orphans.lent => Mark(x) # 0
    <3> SUFFICES ASSUME NEW x \in Nat, x \in DOMAIN orphans.lent
                 PROVE  Mark(x) # 0
      OBVIOUS
    <3>1. Mark(x) >= 2 /\ Mark(x) \in Nat
      BY <1>1, MarkMeaning DEF LoanInv
    <3> QED  BY <3>1
  <2> QED  BY <1>1, <2>1, <2>3, <2>4, MarkedIsId
<1> QED  BY <1>1, <1>2, <1>4, <1>5 DEF TypeOK, PoolTyping, TypeInv

\* Every variable keeps its type, for every capacity, option and bound: no id above
\* the capacity, no negative marker, whatever sequence of calls (QubitManager.cs:324-709).
THEOREM TypeCorrect == Spec => []TypeOK
<1>1. Init => IInv /\ TypeInv
  <2> SUFFICES ASSUME Init
               PROVE  IInv /\ TypeInv
    OBVIOUS
  <2>1. failures = 0 /\ call = Idle /\ operationStack = <<Frame({})>>
    BY DEF Init
  <2>2. \A i \in 1 .. Depth : operationStack[i].locals = <<>>
    BY <2>1 DEF Depth, Frame
  <2>3. Idle.quota = 0 /\ Idle.before = {} /\ Idle.inUse = {}
    BY DEF Idle
  <2> QED  BY <2>1, <2>2, <2>3, InitialInvariant DEF TypeInv
<1>2. IInv /\ TypeInv /\ [Next]_vars => IInv' /\ TypeInv'
  <2> SUFFICES ASSUME IInv, TypeInv, [Next]_vars
               PROVE  IInv' /\ TypeInv'
    OBVIOUS
  <2>1. IInv'
    BY InvariantStep
  <2>2. CASE Next
    <3>1. failures' \in Nat
      BY <2>2, FailuresType DEF TypeInv, IInv, PoolInv
    <3> QED  BY <2>1, <2>2, <3>1, NoLocals, CallTypes DEF TypeInv
  <2>3. CASE UNCHANGED vars
    <3>1. UNCHANGED <<failures, operationStack, call, NumQubits>>
      BY <2>3 DEF vars, poolVars, historyVars
    <3>2. Ids' = Ids /\ Depth' = Depth
      BY <3>1 DEF Ids, Depth
    <3> QED  BY <2>1, <3>1, <3>2 DEF TypeInv
  <2> QED  BY <2>2, <2>3
<1>3. IInv /\ TypeInv => TypeOK
  BY TypesFollow
<1> QED  BY <1>1, <1>2, <1>3, PTL DEF Spec

-----------------------------------------------------------------------------
(* One step changes the mark of one id                                      *)

\* What one action may do to the marks and to the two counters.
Counted(allocated, disabled) ==
    /\ NumAllocatedQubits' = NumAllocatedQubits + allocated
    /\ NumDisabledQubits' = NumDisabledQubits + disabled

MarkTaken(id) == Mark(id) = 0 /\ (MarkBecomes(id, 1) \/ MarkBecomes(id, 3)) /\ Counted(1, 0)
MarkFreed(id) == Mark(id) \in {1, 3} /\ MarkBecomes(id, 0) /\ Counted(-1, 0)
MarkDisabled(id) == Mark(id) \notin {0, 2} /\ MarkBecomes(id, 2) /\ Counted(-1, 1)
MarkCounted(id) ==
    /\ Counted(0, 0)
    /\ \/ Mark(id) >= 3 /\ MarkBecomes(id, Mark(id) + 1)
       \/ Mark(id) > 3 /\ MarkBecomes(id, Mark(id) - 1)

OneMark ==
    \/ SameMarks /\ Counted(0, 0)
    \/ \E id \in Nat : MarkTaken(id) \/ MarkFreed(id) \/ MarkDisabled(id) \/ MarkCounted(id)

\* The counters are integers and nothing counted is nothing changed.
LEMMA NothingCounted ==
    ASSUME PoolTyping, UNCHANGED <<NumAllocatedQubits, NumDisabledQubits>>
    PROVE  Counted(0, 0)
BY DEF PoolTyping, Counted

\* Allocating one qubit takes one free id.
LEMMA AllocateOneTakes ==
    ASSUME IInv, NEW id \in Nat, NEW b \in BOOLEAN, AllocateOne(id, b)
    PROVE  MarkTaken(id)
<1>1. /\ Mark(id) = 0
      /\ \A x \in Nat : Mark(x)' = IF x = id THEN IF b THEN 3 ELSE 1 ELSE Mark(x)
      /\ NumAllocatedQubits' = NumAllocatedQubits + 1
      /\ NumDisabledQubits' = NumDisabledQubits /\ NumDisabledQubits \in Int
  BY AllocateOneEffect DEF IInv, PoolInv, PoolTyping
<1> QED  BY <1>1 DEF MarkTaken, MarkBecomes, Counted

\* Releasing one frees it.
LEMMA ReleaseOneFrees ==
    ASSUME IInv, NEW id \in Nat, Mark(id) \in {1, 3}, ReleaseOne(id)
    PROVE  MarkFreed(id)
<1>1. /\ \A x \in Nat : Mark(x)' = IF x = id THEN 0 ELSE Mark(x)
      /\ NumAllocatedQubits' = NumAllocatedQubits - 1
      /\ NumDisabledQubits' = NumDisabledQubits
      /\ NumAllocatedQubits \in Int /\ NumDisabledQubits \in Int
  BY ReleaseOneEffect DEF IInv, PoolInv, PoolTyping
<1> QED  BY <1>1 DEF MarkFreed, MarkBecomes, Counted

\* One more borrower counts for an id that is allocated for borrowing, and only there.
LEMMA ShareCounts ==
    ASSUME IInv, NEW id \in Nat, MarkBecomes(id, Shared(Mark(id))),
           UNCHANGED <<NumAllocatedQubits, NumDisabledQubits>>
    PROVE  MarkCounted(id) \/ (SameMarks /\ Counted(0, 0))
<1>1. Counted(0, 0) /\ Mark(id) \in Nat
  BY NothingCounted, MarkMeaning DEF IInv, PoolInv
<1> QED  BY <1>1 DEF MarkCounted, MarkBecomes, SameMarks, Shared

\* Every action of the manager moves at most one id from one mark to the next, and the
\* counters with it.
LEMMA OneMarkStep ==
    ASSUME IInv, Next
    PROVE  OneMark
<1>a. PoolTyping /\ PoolInv
  BY DEF IInv, PoolInv
<1>1. ASSUME \/ \E n \in Nat : BeginAllocate(n) \/ BeginBorrow(n)
             \/ \E args \in SUBSET Nat : OnOperationStart(args)
             \/ AllocateFails \/ BorrowFails \/ OnOperationEnd \/ Fail
      PROVE  OneMark
  <2>1. UNCHANGED poolVars
    BY <1>1 DEF BeginAllocate, BeginBorrow, OnOperationStart, AllocateFails, BorrowFails,
       OnOperationEnd, Fail, PopTo
  <2>2. Counted(0, 0)
    BY <1>a, <2>1, NothingCounted DEF poolVars
  <2> QED  BY <1>a, <2>1, <2>2, PoolUnchanged DEF OneMark
<1>2. ASSUME NEW id \in Nat, NEW b \in BOOLEAN, AllocateOne(id, b)
      PROVE  OneMark
  BY <1>2, AllocateOneTakes DEF OneMark
<1>3. ASSUME NEW id \in Nat, AllocateNext(id) \/ BorrowAllocates(id)
      PROVE  OneMark
  BY <1>2, <1>3 DEF AllocateNext, BorrowAllocates
<1>4. ASSUME NEW id \in Nat, BorrowNext(id)
      PROVE  OneMark
  <2>1. MarkBecomes(id, Shared(Mark(id))) /\ UNCHANGED <<NumAllocatedQubits, NumDisabledQubits>>
    BY <1>4, BorrowNextEffect DEF BorrowNext
  <2> QED  BY <2>1, ShareCounts DEF OneMark
<1>5. ASSUME NEW id \in Nat, BorrowSingle(id)
      PROVE  OneMark
  <2>1. \/ AllocateOne(id, FALSE)
        \/ UNCHANGED <<NumAllocatedQubits, NumDisabledQubits, NumQubits>>
           /\ id \in BusyIds
    BY <1>5 DEF BorrowSingle, Lowest
  <2>2. CASE AllocateOne(id, FALSE)
    BY <1>2, <2>2
  <2>3. CASE UNCHANGED <<NumAllocatedQubits, NumDisabledQubits, NumQubits>> /\ id \in BusyIds
    <3>1. Mark(id) # 0
      BY <1>a, <2>3, MarkMeaning DEF BusyIds, FreeIds, DisabledIds
    <3>2. MarkBecomes(id, Shared(Mark(id)))
      BY <1>5, <3>1, BorrowSingleEffect
    <3> QED  BY <2>3, <3>2, ShareCounts DEF OneMark
  <2> QED  BY <2>1, <2>2, <2>3
<1>6. ASSUME NEW id \in Nat, ReleaseOne(id), Mark(id) \in {1, 3}
      PROVE  OneMark
  BY <1>6, ReleaseOneFrees DEF OneMark
<1>7. ASSUME NEW id \in Nat, Release(id)
      PROVE  OneMark
  <2>1. CASE Mark(id) = 1
    <3>1. id \in Ids /\ ~IsDisabled(id)
      BY <1>a, <2>1, MarkMeaning
    <3> QED  BY <1>6, <1>7, <2>1, <3>1 DEF Release
  <2>2. CASE Mark(id) # 1
    <3>1. Mark(id) = 2 /\ SameMarks
      BY <1>7, <2>2, ReleaseEffect
    <3>2. IsDisabled(id)
      BY <1>a, <3>1, MarkMeaning
    <3>3. Counted(0, 0)
      BY <1>a, <1>7, <3>2, NothingCounted DEF Release, poolVars
    <3> QED  BY <3>1, <3>3 DEF OneMark
  <2> QED  BY <2>1, <2>2
<1>8. ASSUME NEW id \in Nat, Disable(id)
      PROVE  OneMark
  <2>1. Mark(id) \notin {0, 2} /\ MarkBecomes(id, 2)
    BY <1>8, DisableEffect
  <2>2. Counted(-1, 1)
    BY <1>a, <1>8 DEF Disable, Counted, PoolTyping
  <2> QED  BY <2>1, <2>2 DEF OneMark, MarkDisabled
<1>9. ASSUME NEW id \in Nat, Return(id)
      PROVE  OneMark
  <2>1. /\ Mark(id) # 0 /\ Mark(id) \in Nat /\ MarkBecomes(id, Unshared(Mark(id)))
        /\ id \in Ids /\ Mark(id) = qubits[id] - NumQubits /\ qubits[id] \in Nat /\ NumQubits \in Nat
    <3>1. Mark(id) # 0 /\ MarkBecomes(id, Unshared(Mark(id)))
      BY <1>9, ReturnEffect
    <3>2. Mark(id) \in Nat /\ id \in Ids /\ Mark(id) = qubits[id] - NumQubits
      BY <1>a, <3>1, MarkMeaning
    <3> QED  BY <1>a, <3>1, <3>2 DEF PoolTyping
  <2>2. CASE Mark(id) = 3
    <3>1. qubits[id] = AllocatedForBorrowing
      BY <2>1, <2>2 DEF AllocatedForBorrowing, AllocatedForBorrowingAt
    <3> QED  BY <1>6, <1>9, <2>2, <3>1 DEF Return
  <2>3. CASE Mark(id) # 3
    <3>1. qubits[id] # AllocatedForBorrowing
      BY <2>1, <2>3 DEF AllocatedForBorrowing, AllocatedForBorrowingAt
    <3>2. Counted(0, 0)
      BY <1>a, <1>9, <3>1, NothingCounted DEF Return
    <3>3. MarkCounted(id) \/ SameMarks
      BY <2>1, <2>3, <3>2 DEF MarkCounted, MarkBecomes, SameMarks, Unshared
    <3> QED  BY <3>2, <3>3 DEF OneMark
  <2> QED  BY <2>2, <2>3
<1>10. ASSUME RollbackNext
       PROVE  OneMark
  <2>1. PICK h : h = Head(call.got)
    OBVIOUS
  <2>2. h \in Nat /\ Mark(h) \in {1, 3} /\ ReleaseOne(h)
    BY <1>10, <2>1, RollbackNextEffect, UndoneIsNotReached DEF RollbackNext
  <2> QED  BY <1>6, <2>2
<1> QED  BY <1>a, NextCases, <1>1, <1>3, <1>4, <1>5, <1>7, <1>8, <1>9, <1>10

-----------------------------------------------------------------------------
(* The counters                                                             *)

Marked(S) == {x \in Nat : Mark(x) \in S}
Busy == {x \in Nat : Mark(x) \notin {0, 2}}

\* The sets of ids the counters are about, by marks; they are finite, and the free ids
\* are the others.
LEMMA MarkedSets ==
    ASSUME PoolTyping
    PROVE  /\ BusyIds = Busy /\ DisabledIds = Marked({2})
           /\ FreeIds = Ids \ (Busy \cup Marked({2}))
           /\ Busy \subseteq Ids /\ Marked({2}) \subseteq Ids
           /\ IsFiniteSet(Ids) /\ Cardinality(Ids) = NumQubits
           /\ IsFiniteSet(Busy) /\ IsFiniteSet(Marked({2}))
<1>1. Ids \subseteq Nat /\ \A x \in Nat : Mark(x) # 0 => x \in Ids
  BY MarkedIsId DEF Ids, PoolTyping
<1>2. \A x \in Ids : /\ x \in Nat
                     /\ x \in FreeIds <=> Mark(x) = 0
                     /\ x \in DisabledIds <=> Mark(x) = 2
  <2> SUFFICES ASSUME NEW x \in Ids
               PROVE  /\ x \in Nat
                      /\ x \in FreeIds <=> Mark(x) = 0
                      /\ x \in DisabledIds <=> Mark(x) = 2
    OBVIOUS
  <2>1. x \in Nat
    BY <1>1
  <2>2. (IsFree(x) <=> Mark(x) = 0) /\ (IsDisabled(x) <=> Mark(x) = 2)
    BY <2>1, MarkMeaning
  <2> QED  BY <2>1, <2>2 DEF FreeIds, DisabledIds
<1>4. FreeIds \subseteq Ids /\ DisabledIds \subseteq Ids
  BY DEF FreeIds, DisabledIds
<1>5. Busy \subseteq Ids /\ Marked({2}) \subseteq Ids
  BY <1>1 DEF Busy, Marked
<1>9. \A x \in Ids : (x \in Busy <=> Mark(x) \notin {0, 2}) /\ (x \in Marked({2}) <=> Mark(x) = 2)
  BY <1>1 DEF Busy, Marked
<1>6. DisabledIds = Marked({2})
  BY <1>2, <1>4, <1>5, <1>9
<1>7. BusyIds = Busy
  BY <1>2, <1>4, <1>5, <1>9 DEF BusyIds
<1>8. FreeIds = Ids \ (Busy \cup Marked({2}))
  BY <1>2, <1>4, <1>5, <1>9
<1>3. IsFiniteSet(Ids) /\ Cardinality(Ids) = NumQubits
  BY FS_Interval DEF Ids, PoolTyping
<1> QED  BY <1>3, <1>5, <1>6, <1>7, <1>8, FS_Subset

\* Each counter is the number of ids it counts.
CountInv ==
    /\ NumAllocatedQubits = Cardinality(Busy)
    /\ NumDisabledQubits = Cardinality(Marked({2}))

\* The counters stay right over every step.
LEMMA CountStep ==
    ASSUME IInv, CountInv, Next
    PROVE  CountInv'
<1>a. PoolTyping /\ OneMark /\ NumAllocatedQubits \in Int /\ NumDisabledQubits \in Int
      /\ IsFiniteSet(Busy) /\ IsFiniteSet(Marked({2}))
  BY OneMarkStep, MarkedSets DEF IInv, PoolInv, PoolTyping
<1>1. CASE SameMarks /\ Counted(0, 0)
  <2>1. Busy' = Busy /\ Marked({2})' = Marked({2})
    BY <1>1 DEF SameMarks, Busy, Marked
  <2>2. NumAllocatedQubits' = NumAllocatedQubits /\ NumDisabledQubits' = NumDisabledQubits
    BY <1>a, <1>1 DEF Counted
  <2> QED  BY <2>1, <2>2 DEF CountInv
<1>2. ASSUME NEW id \in Nat, MarkTaken(id)
      PROVE  CountInv'
  <2>1. Busy' = Busy \cup {id} /\ id \notin Busy /\ Marked({2})' = Marked({2})
    BY <1>2 DEF MarkTaken, MarkBecomes, Busy, Marked
  <2>2. NumAllocatedQubits' = NumAllocatedQubits + 1 /\ NumDisabledQubits' = NumDisabledQubits
    BY <1>a, <1>2 DEF MarkTaken, Counted
  <2>3. NumAllocatedQubits' = Cardinality(Busy')
    BY <1>a, <2>1, <2>2, FS_AddElement, FS_RemoveElement DEF CountInv
  <2> QED  BY <2>1, <2>2, <2>3 DEF CountInv
<1>3. ASSUME NEW id \in Nat, MarkFreed(id)
      PROVE  CountInv'
  <2>1. Busy' = Busy \ {id} /\ id \in Busy /\ Marked({2})' = Marked({2})
    BY <1>3 DEF MarkFreed, MarkBecomes, Busy, Marked
  <2>2. NumAllocatedQubits' = NumAllocatedQubits - 1 /\ NumDisabledQubits' = NumDisabledQubits
    BY <1>a, <1>3 DEF MarkFreed, Counted
  <2>3. NumAllocatedQubits' = Cardinality(Busy')
    BY <1>a, <2>1, <2>2, FS_AddElement, FS_RemoveElement DEF CountInv
  <2> QED  BY <2>1, <2>2, <2>3 DEF CountInv
<1>4. ASSUME NEW id \in Nat, MarkDisabled(id)
      PROVE  CountInv'
  <2>1. /\ Busy' = Busy \ {id} /\ id \in Busy
        /\ Marked({2})' = Marked({2}) \cup {id} /\ id \notin Marked({2})
    BY <1>4 DEF MarkDisabled, MarkBecomes, Busy, Marked
  <2>2. NumAllocatedQubits' = NumAllocatedQubits - 1 /\ NumDisabledQubits' = NumDisabledQubits + 1
    BY <1>a, <1>4 DEF MarkDisabled, Counted
  <2>3. NumAllocatedQubits' = Cardinality(Busy')
    BY <1>a, <2>1, <2>2, FS_AddElement, FS_RemoveElement DEF CountInv
  <2>4. NumDisabledQubits' = Cardinality(Marked({2})')
    BY <1>a, <2>1, <2>2, FS_AddElement, FS_RemoveElement DEF CountInv
  <2> QED  BY <2>3, <2>4 DEF CountInv
<1>5. ASSUME NEW id \in Nat, MarkCounted(id)
      PROVE  CountInv'
  <2>1. \A x \in Nat : Mark(x) \in Nat
    BY <1>a, MarkMeaning
  <2>2. Busy' = Busy /\ Marked({2})' = Marked({2})
    BY <1>5, <2>1 DEF MarkCounted, MarkBecomes, Busy, Marked
  <2>3. NumAllocatedQubits' = NumAllocatedQubits /\ NumDisabledQubits' = NumDisabledQubits
    BY <1>a, <1>5 DEF MarkCounted, Counted
  <2> QED  BY <2>2, <2>3 DEF CountInv
<1> QED  BY <1>a, <1>1, <1>2, <1>3, <1>4, <1>5 DEF OneMark

\* The counters are right in every reachable state.
LEMMA Counts == Spec => [](IInv /\ CountInv)
<1>1. Init => CountInv
  <2> SUFFICES ASSUME Init
               PROVE  CountInv
    OBVIOUS
  <2>1. \A x \in Nat : Mark(x) = 0
    BY InitialPool
  <2>2. Busy = {} /\ Marked({2}) = {}
    BY <2>1 DEF Busy, Marked
  <2> QED  BY <2>2, FS_EmptySet DEF CountInv, Init
<1>2. IInv /\ CountInv /\ [Next]_vars => CountInv'
  <2> SUFFICES ASSUME IInv, CountInv, [Next]_vars
               PROVE  CountInv'
    OBVIOUS
  <2>1. CASE UNCHANGED vars
    <3>1. SameMarks /\ UNCHANGED <<NumAllocatedQubits, NumDisabledQubits>>
      BY <2>1, PoolUnchanged DEF IInv, vars, poolVars
    <3> QED  BY <3>1 DEF CountInv, Busy, Marked, SameMarks
  <2> QED  BY <2>1, CountStep
<1> QED  BY <1>1, <1>2, Invariance, PTL DEF Spec

\* NumAllocatedQubits, NumDisabledQubits and FreeQubitsCount agree with the markers after
\* every call, rollback and failure (QubitManager.cs:116-132, 324-526).
THEOREM CountersAreExact == Spec => []CountersExact
<1>1. IInv /\ CountInv => CountersExact
  <2> SUFFICES ASSUME IInv, CountInv
               PROVE  CountersExact
    OBVIOUS
  <2>1. /\ BusyIds = Busy /\ DisabledIds = Marked({2})
        /\ FreeIds = Ids \ (Busy \cup Marked({2}))
        /\ Busy \subseteq Ids /\ Marked({2}) \subseteq Ids
        /\ IsFiniteSet(Ids) /\ Cardinality(Ids) = NumQubits
        /\ IsFiniteSet(Busy) /\ IsFiniteSet(Marked({2}))
    BY MarkedSets DEF IInv, PoolInv
  <2>2. Busy \cap Marked({2}) = {}
    BY DEF Busy, Marked
  <2>3. /\ Cardinality(Busy) \in Nat /\ Cardinality(Marked({2})) \in Nat /\ NumQubits \in Nat
        /\ Cardinality(Busy \cup Marked({2})) = Cardinality(Busy) + Cardinality(Marked({2}))
    <3>1. Cardinality(Busy \cup Marked({2})) =
            Cardinality(Busy) + Cardinality(Marked({2})) - Cardinality(Busy \cap Marked({2}))
      BY <2>1, FS_Union
    <3>2. Cardinality(Busy \cap Marked({2})) = 0
      BY <2>2, FS_EmptySet
    <3> QED  BY <2>1, <3>1, <3>2, FS_CardinalityType
  <2>4. Cardinality(FreeIds) = NumQubits - (Cardinality(Busy) + Cardinality(Marked({2})))
    <3>1. Ids \cap (Busy \cup Marked({2})) = Busy \cup Marked({2})
      BY <2>1
    <3>2. Cardinality(FreeIds) = Cardinality(Ids) - Cardinality(Ids \cap (Busy \cup Marked({2})))
      BY <2>1, FS_Difference
    <3> QED  BY <2>1, <2>3, <3>1, <3>2
  <2> QED  BY <2>1, <2>3, <2>4 DEF CountersExact, CountInv, FreeQubitsCount
<1> QED  BY <1>1, Counts, PTL

-----------------------------------------------------------------------------
(* Loans                                                                    *)

\* Two sequences without repetition and without a common element make one.
LEMMA ConcatInjective ==
    ASSUME NEW s \in Seq(Nat), NEW t \in Seq(Nat), IsInjective(s), IsInjective(t),
           Range(s) \cap Range(t) = {}
    PROVE  IsInjective(s \o t)
<1>1. /\ Len(s) \in Nat /\ Len(t) \in Nat /\ DOMAIN s = 1 .. Len(s) /\ DOMAIN t = 1 .. Len(t)
      /\ DOMAIN (s \o t) = 1 .. Len(s) + Len(t)
      /\ \A i \in 1 .. Len(s) + Len(t) :
            (s \o t)[i] = IF i <= Len(s) THEN s[i] ELSE t[i - Len(s)]
  BY ConcatProperties, LenProperties
<1>2. \A i \in 1 .. Len(s), j \in 1 .. Len(t) : s[i] # t[j]
  BY <1>1 DEF Range
<1> SUFFICES ASSUME NEW i \in 1 .. Len(s) + Len(t), NEW j \in 1 .. Len(s) + Len(t),
                    (s \o t)[i] = (s \o t)[j]
             PROVE  i = j
  BY <1>1 DEF IsInjective
<1>3. CASE i <= Len(s) /\ j <= Len(s)
  <2>1. i \in DOMAIN s /\ j \in DOMAIN s /\ s[i] = s[j]
    BY <1>1, <1>3
  <2> QED  BY <2>1 DEF IsInjective
<1>4. CASE i > Len(s) /\ j > Len(s)
  <2>1. i - Len(s) \in 1 .. Len(t) /\ j - Len(s) \in 1 .. Len(t) /\ t[i - Len(s)] = t[j - Len(s)]
    BY <1>1, <1>4
  <2>2. i - Len(s) = j - Len(s)
    BY <1>1, <2>1 DEF IsInjective
  <2> QED  BY <1>1, <2>2
<1>5. CASE i <= Len(s) /\ j > Len(s)
  BY <1>1, <1>2, <1>5
<1>6. CASE i > Len(s) /\ j <= Len(s)
  BY <1>1, <1>2, <1>6
<1> QED  BY <1>1, <1>3, <1>4, <1>5, <1>6

\* A borrow never hands a frame what it can already reach, nor one qubit twice, over any
\* nesting of operations (QubitManager.cs:551-600, 619-650).
THEOREM LoansAreOfIdleQubits == Spec => []BorrowedAreIdle
<1>1. IInv => BorrowedAreIdle
  <2> SUFFICES ASSUME IInv
               PROVE  BorrowedAreIdle
    OBVIOUS
  <2>1. \A i \in 1 .. Len(operationStack) :
            operationStack[i].lent \cap (operationStack[i].args \cup operationStack[i].used) = {}
    BY Fields DEF IInv, FrameInv, Depth
  <2>2. Pending \cap (Top.args \cup Top.used \cup Top.lent) = {}
    BY DEF IInv, CallInv, Pending
  <2>3. IsInjective(call.borrowed \o call.got)
    <3>1. /\ call.got \in Seq(Nat) /\ call.borrowed \in Seq(Nat)
          /\ IsInjective(call.got) /\ IsInjective(call.borrowed)
      BY CallFields DEF IInv, CallInv
    <3>2. Range(call.borrowed) \cap Range(call.got) = {}
      <4>1. CASE call.op = "idle"
        BY <4>1, IdleHolds DEF IInv, CallInv
      <4>2. CASE call.op = "allocate"
        BY <4>2, <3>1, RangeType DEF IInv, CallInv
      <4>3. CASE call.op = "borrow"
        BY <4>3 DEF IInv, CallInv
      <4> QED  BY <4>1, <4>2, <4>3 DEF IInv, Typing, CallShape
    <3> QED  BY <3>1, <3>2, ConcatInjective
  <2> QED  BY <2>1, <2>2, <2>3 DEF BorrowedAreIdle
<1> QED  BY <1>1, Invariance, PTL

-----------------------------------------------------------------------------
(* The refinement of QubitPool                                              *)

Counts3 == {x \in Nat : Mark(x) >= 3}

\* The abstract pool's variables, read off the marks.
PoolView ==
    /\ OwnedIds = Marked({1}) /\ DisabledIds = Marked({2})
    /\ LoanCounts = [x \in Counts3 |-> Mark(x) - 2]
    /\ \A x \in Nat : Mark(x) \in Nat

\* Each variable of the pool is what the marks say: PoolView holds of every typed pool.
LEMMA PoolIsMarks == PoolTyping => PoolView
<1> SUFFICES ASSUME PoolTyping
             PROVE  PoolView
  OBVIOUS
<1>1. /\ Ids \subseteq Nat /\ NumQubits \in Nat
      /\ \A x \in Nat : Mark(x) \in Nat /\ (Mark(x) # 0 => x \in Ids)
  <2>1. Ids \subseteq Nat /\ NumQubits \in Nat
    BY DEF Ids, PoolTyping
  <2>2. \A x \in Nat : Mark(x) \in Nat /\ (Mark(x) # 0 => x \in Ids)
    BY MarkMeaning
  <2> QED  BY <2>1, <2>2
<1>2. ASSUME NEW x \in Ids
      PROVE  /\ x \in Nat /\ Mark(x) \in Nat /\ qubits[x] \in Nat
             /\ qubits[x] = Allocated <=> Mark(x) = 1
             /\ IsAllocatedForBorrowing(x) <=> Mark(x) >= 3
             /\ Mark(x) > 0 => Mark(x) = qubits[x] - NumQubits
  <2>1. x \in Nat /\ qubits[x] \in Nat
    BY <1>1 DEF PoolTyping
  <2> QED  BY <2>1, MarkMeaning
<1>3. OwnedIds = Marked({1})
  <2>1. \A x : x \in OwnedIds <=> x \in Ids /\ Mark(x) = 1
    BY <1>2 DEF OwnedIds
  <2>2. \A x : x \in Marked({1}) <=> x \in Nat /\ Mark(x) = 1
    BY DEF Marked
  <2>3. \A x \in Nat : Mark(x) = 1 => x \in Ids
    BY <1>1
  <2> QED  BY <1>1, <2>1, <2>2, <2>3
<1>4. {x \in Ids : IsAllocatedForBorrowing(x)} = Counts3
  <2>1. \A x : x \in {y \in Ids : IsAllocatedForBorrowing(y)} <=> x \in Ids /\ Mark(x) >= 3
    BY <1>2
  <2>2. \A x : x \in Counts3 <=> x \in Nat /\ Mark(x) >= 3
    BY DEF Counts3
  <2>3. \A x \in Nat : Mark(x) >= 3 => x \in Ids
    BY <1>1
  <2> QED  BY <1>1, <2>1, <2>2, <2>3
<1>5. \A x \in Counts3 : qubits[x] - AllocatedForBorrowing + 1 = Mark(x) - 2
  <2> SUFFICES ASSUME NEW x \in Counts3
               PROVE  qubits[x] - AllocatedForBorrowing + 1 = Mark(x) - 2
    OBVIOUS
  <2>1. x \in Nat /\ Mark(x) >= 3 /\ Mark(x) \in Nat
    BY <1>1 DEF Counts3
  <2>2. x \in Ids
    BY <1>1, <2>1
  <2>3. Mark(x) = qubits[x] - NumQubits /\ qubits[x] \in Nat
    BY <1>2, <2>1, <2>2
  <2> QED  BY <1>1, <2>3 DEF AllocatedForBorrowing, AllocatedForBorrowingAt
<1>6. LoanCounts = [x \in Counts3 |-> Mark(x) - 2]
  BY <1>4, <1>5 DEF LoanCounts
<1>7. DisabledIds = Marked({2})
  BY MarkedSets
<1> QED  BY <1>1, <1>3, <1>6, <1>7 DEF PoolView

\* And so it is in the next state.
LEMMA PoolIsMarksNext == PoolTyping' => PoolView'
BY PoolIsMarks, PTL

\* The capacity is never doubled beyond the bound, so no id lies above it.
CapacityInv == NumQubits \in Nat /\ NumQubits <= LargestCapacity

LEMMA CapacityStep ==
    ASSUME IInv, CapacityInv, Next
    PROVE  CapacityInv'
<1>1. PoolTyping /\ Capacity \in Nat /\ MaxCapacity \in Nat
  BY ConstantsAssumption DEF IInv, PoolInv
<1>2. UNCHANGED NumQubits \/ \E id \in Nat : \E b \in BOOLEAN : AllocateOne(id, b)
  BY <1>1, NextCases DEF BeginAllocate, BeginBorrow, AllocateNext, Release, Disable, BorrowNext,
     BorrowAllocates, BorrowSingle, Return, AllocateFails, BorrowFails, RollbackNext,
     OnOperationStart, OnOperationEnd, Fail, PopTo, poolVars, ReleaseOne
<1>3. CASE UNCHANGED NumQubits
  BY <1>3 DEF CapacityInv
<1>4. ASSUME NEW id \in Nat, NEW b \in BOOLEAN, AllocateOne(id, b)
      PROVE  CapacityInv'
  <2>1. \/ NumQubits' = NumQubits
        \/ MayExtendCapacity /\ 2 * NumQubits <= MaxCapacity /\ NumQubits' = 2 * NumQubits
    BY <1>4 DEF AllocateOne, TakeHead
  <2> QED  BY <1>1, <2>1 DEF CapacityInv, LargestCapacity
<1> QED  BY <1>2, <1>3, <1>4

\* Every id in use is one of the pool's, now and in the next state.
PoolIds == \A x \in Nat : Mark(x) # 0 => x \in 0 .. LargestCapacity - 1

LEMMA InUseIsPoolId == PoolTyping /\ CapacityInv => PoolIds
<1> SUFFICES ASSUME PoolTyping, CapacityInv, NEW x \in Nat, Mark(x) # 0
             PROVE  x \in 0 .. LargestCapacity - 1
  BY DEF PoolIds
<1>1. x \in Ids /\ LargestCapacity \in Nat
  BY MarkedIsId, ConstantsAssumption DEF LargestCapacity
<1> QED  BY <1>1 DEF Ids, CapacityInv

LEMMA InUseIsPoolIdNext == PoolTyping' /\ CapacityInv' => PoolIds'
BY InUseIsPoolId, PTL

\* One step of the manager is one step of the pool, or none.
LEMMA PoolRefined ==
    ASSUME IInv, IInv', CapacityInv, CapacityInv', Next
    PROVE  Pool!Next \/ UNCHANGED Pool!vars
<1>a. PoolView /\ PoolView' /\ OneMark /\ PoolIds /\ PoolIds'
  BY PoolIsMarks, PoolIsMarksNext, OneMarkStep, InUseIsPoolId, InUseIsPoolIdNext DEF IInv, PoolInv
<1>b. /\ LoanCounts = [x \in Counts3 |-> LoanCounts[x]]
      /\ DOMAIN LoanCounts = Counts3 /\ \A x \in Counts3 : LoanCounts[x] = Mark(x) - 2
      /\ LoanCounts' = [x \in Counts3' |-> Mark(x)' - 2]
      /\ OwnedIds = Marked({1}) /\ OwnedIds' = Marked({1})'
      /\ DisabledIds = Marked({2}) /\ DisabledIds' = Marked({2})'
  BY <1>a DEF PoolView
<1>c. \A x \in Nat : Mark(x) \in Nat
  BY <1>a DEF PoolView
<1>d. \A x \in Nat : Mark(x) = 0 => x \notin Pool!InUse
  BY <1>b DEF Pool!InUse, Marked, Counts3
<1>1. CASE SameMarks
  <2>1. Counts3' = Counts3 /\ Marked({1})' = Marked({1}) /\ Marked({2})' = Marked({2})
        /\ \A x \in Counts3 : Mark(x)' = Mark(x)
    BY <1>1 DEF SameMarks, Counts3, Marked
  <2>2. LoanCounts' = LoanCounts
    BY <1>a, <2>1 DEF PoolView
  <2> QED  BY <1>b, <2>1, <2>2 DEF Pool!vars
<1>2. ASSUME NEW id \in Nat, MarkTaken(id)
      PROVE  Pool!Next
  <2>1. id \in 0 .. LargestCapacity - 1 /\ id \notin Pool!InUse
    BY <1>2, <1>a, <1>d DEF MarkTaken, MarkBecomes, PoolIds
  <2>2. CASE MarkBecomes(id, 1)
    <3>1. /\ Marked({1})' = Marked({1}) \cup {id} /\ Marked({2})' = Marked({2})
          /\ Counts3' = Counts3 /\ \A x \in Counts3 : Mark(x)' = Mark(x)
      BY <1>2, <2>2 DEF MarkTaken, MarkBecomes, Marked, Counts3
    <3>2. LoanCounts' = LoanCounts
      BY <1>a, <3>1 DEF PoolView
    <3>3. Pool!Grant(id)
      BY <1>b, <2>1, <3>1, <3>2 DEF Pool!Grant
    <3> QED  BY <2>1, <3>3 DEF Pool!Next
  <2>3. CASE MarkBecomes(id, 3)
    <3>1. /\ Marked({1})' = Marked({1}) /\ Marked({2})' = Marked({2})
          /\ Counts3' = Counts3 \cup {id} /\ id \notin Counts3
          /\ \A x \in Counts3' : Mark(x)' = IF x = id THEN 3 ELSE Mark(x)
      BY <1>2, <2>3 DEF MarkTaken, MarkBecomes, Marked, Counts3
    <3>2. LoanCounts' = [x \in DOMAIN LoanCounts \cup {id} |-> IF x = id THEN 1 ELSE LoanCounts[x]]
      BY <1>b, <3>1
    <3>3. Pool!GrantLoan(id)
      BY <1>b, <2>1, <3>1, <3>2 DEF Pool!GrantLoan
    <3> QED  BY <2>1, <3>3 DEF Pool!Next
  <2> QED  BY <1>2, <2>2, <2>3 DEF MarkTaken
<1>3. ASSUME NEW id \in Nat, MarkFreed(id)
      PROVE  Pool!Next
  <2>1. id \in 0 .. LargestCapacity - 1
    BY <1>3, <1>a DEF MarkFreed, PoolIds
  <2>2. CASE Mark(id) = 1
    <3>1. /\ Marked({1})' = Marked({1}) \ {id} /\ id \in Marked({1}) /\ Marked({2})' = Marked({2})
          /\ Counts3' = Counts3 /\ \A x \in Counts3 : Mark(x)' = Mark(x)
      BY <1>3, <2>2 DEF MarkFreed, MarkBecomes, Marked, Counts3
    <3>2. LoanCounts' = LoanCounts
      BY <1>a, <3>1 DEF PoolView
    <3>3. Pool!Reclaim(id)
      BY <1>b, <3>1, <3>2 DEF Pool!Reclaim
    <3> QED  BY <2>1, <3>3 DEF Pool!Next
  <2>3. CASE Mark(id) = 3
    <3>1. /\ Marked({1})' = Marked({1}) /\ Marked({2})' = Marked({2})
          /\ Counts3' = Counts3 \ {id} /\ id \in Counts3
          /\ \A x \in Counts3' : Mark(x)' = Mark(x)
      BY <1>3, <2>3 DEF MarkFreed, MarkBecomes, Marked, Counts3
    <3>2. LoanCounts[id] = 1 /\ LoanCounts' = Pool!Restrict(LoanCounts, DOMAIN LoanCounts \ {id})
      BY <1>b, <2>3, <3>1 DEF Pool!Restrict
    <3>3. Pool!Unshare(id)
      BY <1>b, <3>1, <3>2 DEF Pool!Unshare
    <3> QED  BY <2>1, <3>3 DEF Pool!Next
  <2> QED  BY <1>3, <2>2, <2>3 DEF MarkFreed
<1>4. ASSUME NEW id \in Nat, MarkDisabled(id)
      PROVE  Pool!Next
  <2>1. id \in 0 .. LargestCapacity - 1
    BY <1>4, <1>a DEF MarkDisabled, PoolIds
  <2>2. /\ Marked({1})' = Marked({1}) \ {id} /\ Marked({2})' = Marked({2}) \cup {id}
        /\ Counts3' = Counts3 \ {id} /\ \A x \in Counts3' : Mark(x)' = Mark(x)
    BY <1>4 DEF MarkDisabled, MarkBecomes, Marked, Counts3
  <2>3. id \in Marked({1}) \cup Counts3
    BY <1>4, <1>c DEF MarkDisabled, Marked, Counts3
  <2>4. LoanCounts' = Pool!Restrict(LoanCounts, DOMAIN LoanCounts \ {id})
    BY <1>b, <2>2 DEF Pool!Restrict
  <2>5. Pool!Disable(id)
    BY <1>b, <2>2, <2>3, <2>4 DEF Pool!Disable
  <2> QED  BY <2>1, <2>5 DEF Pool!Next
<1>5. ASSUME NEW id \in Nat, MarkCounted(id)
      PROVE  Pool!Next
  <2>1. id \in 0 .. LargestCapacity - 1 /\ Mark(id) >= 3 /\ Mark(id) \in Nat /\ id \in Counts3
    BY <1>5, <1>a, <1>c DEF MarkCounted, PoolIds, Counts3
  <2>2. /\ Marked({1})' = Marked({1}) /\ Marked({2})' = Marked({2}) /\ Counts3' = Counts3
        /\ \A x \in Counts3 : x # id => Mark(x)' = Mark(x)
    BY <1>5, <2>1 DEF MarkCounted, MarkBecomes, Marked, Counts3
  <2>3. CASE MarkBecomes(id, Mark(id) + 1)
    <3>1. Mark(id)' = Mark(id) + 1
      BY <2>3 DEF MarkBecomes
    <3>2. LoanCounts' = [LoanCounts EXCEPT ![id] = LoanCounts[id] + 1]
      <4>1. \A x \in Counts3 : Mark(x)' - 2 = IF x = id THEN LoanCounts[id] + 1 ELSE LoanCounts[x]
        BY <1>b, <2>1, <2>2, <3>1
      <4>2. LoanCounts' = [x \in Counts3 |-> IF x = id THEN LoanCounts[id] + 1 ELSE LoanCounts[x]]
        BY <1>b, <2>2, <4>1
      <4> QED  BY <1>b, <2>1, <4>2
    <3>3. Pool!Share(id)
      BY <1>b, <2>1, <2>2, <3>2 DEF Pool!Share
    <3> QED  BY <2>1, <3>3 DEF Pool!Next
  <2>4. CASE Mark(id) > 3 /\ MarkBecomes(id, Mark(id) - 1)
    <3>1. Mark(id)' = Mark(id) - 1
      BY <2>4 DEF MarkBecomes
    <3>2. LoanCounts' = [LoanCounts EXCEPT ![id] = LoanCounts[id] - 1] /\ LoanCounts[id] # 1
      <4>1. \A x \in Counts3 : Mark(x)' - 2 = IF x = id THEN LoanCounts[id] - 1 ELSE LoanCounts[x]
        BY <1>b, <2>1, <2>2, <3>1
      <4>2. LoanCounts' = [x \in Counts3 |-> IF x = id THEN LoanCounts[id] - 1 ELSE LoanCounts[x]]
        BY <1>b, <2>2, <4>1
      <4> QED  BY <1>b, <2>1, <2>4, <4>2
    <3>3. Pool!Unshare(id)
      BY <1>b, <2>1, <2>2, <3>2 DEF Pool!Unshare
    <3> QED  BY <2>1, <3>3 DEF Pool!Next
  <2> QED  BY <1>5, <2>3, <2>4 DEF MarkCounted
<1> QED  BY <1>a, <1>1, <1>2, <1>3, <1>4, <1>5 DEF OneMark

\* Seen from outside, a manager of any capacity and any options is the abstract pool: each
\* of its steps grants, lends, shares, takes back or disables one qubit, or nothing.
THEOREM ManagerIsPool == Spec => ImplementsPool
<1>1. Init => Pool!Init
  <2> SUFFICES ASSUME Init
               PROVE  Pool!Init
    OBVIOUS
  <2>1. PoolTyping /\ \A x \in Nat : Mark(x) = 0
    BY InitialPool DEF PoolInv
  <2>2. PoolView
    BY <2>1, PoolIsMarks
  <2>3. Marked({1}) = {} /\ Marked({2}) = {} /\ Counts3 = {}
    BY <2>1 DEF Marked, Counts3
  <2>4. LoanCounts = [id \in {} |-> 0]
    BY <2>2, <2>3 DEF PoolView
  <2> QED  BY <2>2, <2>3, <2>4 DEF Pool!Init, PoolView
<1>2. Init => CapacityInv
  BY ConstantsAssumption DEF Init, CapacityInv, LargestCapacity
<1>3. IInv /\ CapacityInv /\ [Next]_vars => CapacityInv'
  BY CapacityStep DEF CapacityInv, vars, poolVars
<1>4. IInv /\ IInv' /\ CapacityInv /\ CapacityInv' /\ [Next]_vars => [Pool!Next]_Pool!vars
  <2> SUFFICES ASSUME IInv, IInv', CapacityInv, CapacityInv', [Next]_vars
               PROVE  [Pool!Next]_Pool!vars
    OBVIOUS
  <2>1. CASE Next
    BY <2>1, PoolRefined
  <2>2. CASE UNCHANGED vars
    BY <2>2 DEF vars, poolVars, Pool!vars, OwnedIds, LoanCounts, DisabledIds, Ids, IsDisabled,
       IsAllocatedForBorrowing, Allocated, AllocatedAt, Disabled, DisabledAt,
       AllocatedForBorrowing, AllocatedForBorrowingAt
  <2> QED  BY <2>1, <2>2
<1> QED  BY <1>1, <1>2, <1>3, <1>4, Invariance, PTL DEF Spec, ImplementsPool, Pool!Spec

-----------------------------------------------------------------------------
(* Borrow(n) finds what it counted                                          *)

\* What the search of Borrow(n) may still settle on.
Candidates == {x \in Busy : x >= MinId /\ x \notin call.inUse}

LEMMA BorrowableIsCandidates ==
    ASSUME IInv, call.op = "borrow"
    PROVE  /\ Borrowable(MinId) = Candidates
           /\ IsFiniteSet(Candidates) /\ Cardinality(Candidates) \in Nat
<1>1. /\ PoolTyping /\ call.inUse \subseteq Nat /\ Ids \subseteq Nat
      /\ \A x \in call.inUse : x >= MinId /\ Mark(x) \notin {0, 2}
  BY CallFields DEF IInv, PoolInv, CallInv, Ids, PoolTyping
<1>2. \A x \in Ids : x \in Busy <=> ~IsFree(x) /\ ~IsDisabled(x)
  BY <1>1, MarkMeaning DEF Busy
<1>3. \A x \in call.inUse : x \in Ids /\ ~IsFree(x) /\ ~IsDisabled(x)
  <2>1. \A x \in call.inUse : x \in Ids /\ x \in Busy
    BY <1>1, MarkedIsId DEF Busy
  <2> QED  BY <1>2, <2>1
<1>4. \A x \in Ids : Matched(x, MinId) <=> x \in call.inUse
  BY <1>1, <1>3 DEF Matched
<1>5. Busy \subseteq Ids /\ IsFiniteSet(Busy)
  BY <1>1, MarkedSets
<1>6. Borrowable(MinId) = Candidates
  BY <1>2, <1>4, <1>5 DEF Borrowable, Candidates
<1>7. Candidates \in SUBSET Busy
  BY DEF Candidates
<1> QED  BY <1>5, <1>6, <1>7, FS_Subset, FS_CardinalityType

\* As long as nothing had to be allocated, what is still to be borrowed can be found.
SearchInv ==
    Taking("borrow") =>
        /\ call.quota \in Nat
        /\ call.got = <<>> => call.quota - Len(call.borrowed) <= Cardinality(Candidates)

\* The qubits a frame has in use are busy, so that the others can be counted.
LEMMA InUseIsBusy ==
    ASSUME IInv, ~DisableBorrowing
    PROVE  QubitsInUse(Top) \subseteq Busy
<1>1. PoolTyping /\ Typing /\ LocalsExact /\ Depth \in 1 .. Depth /\ Top = operationStack[Depth]
  BY Fields DEF IInv, PoolInv
<1>2. /\ Top.args \subseteq Nat /\ Held \subseteq DOMAIN Top.locals /\ DOMAIN Top.locals \subseteq Nat
      /\ \A x \in DOMAIN Top.locals : x \in Held \/ Mark(x) = 2
  BY <1>1, TopLocals, CallFields
<1>3. \A x \in Nat : x \in Top.args \/ x \in Top.used \/ x \in Top.lent \/ x \in Top.lost
                        => Mark(x) # 0
  BY <1>1, ReachableInUse
<1>4. \A x \in Nat : x \in Range(call.got) \/ x \in Range(call.borrowed) => Mark(x) # 0
  <2>1. CASE call.op = "idle"
    BY <2>1, IdleHolds DEF IInv, CallInv
  <2>2. CASE call.op = "allocate"
    BY <2>2, RangeType, CallFields DEF IInv, CallInv
  <2>3. CASE call.op = "borrow"
    BY <2>3 DEF IInv, CallInv
  <2> QED  BY <2>1, <2>2, <2>3 DEF IInv, Typing, CallShape
<1>5. \A x \in Nat : Mark(x) # 0 => x \in Ids /\ (IsDisabled(x) <=> Mark(x) = 2)
  BY <1>1, MarkMeaning
<1> SUFFICES ASSUME NEW x \in QubitsInUse(Top)
             PROVE  x \in Busy
  OBVIOUS
<1>6. x \in Nat /\ (x \in DOMAIN Top.locals \/ x \in Top.args) /\ ~IsDisabled(x)
  BY <1>2 DEF QubitsInUse
<1>7. Mark(x) # 0
  BY <1>2, <1>3, <1>4, <1>6 DEF Held
<1> QED  BY <1>5, <1>6, <1>7 DEF Busy

\* The quota of a new call is a count of what its search will find.
LEMMA SearchBegins ==
    ASSUME IInv, CountInv, NEW n \in Nat, BeginBorrow(n)
    PROVE  SearchInv'
<1>1. /\ call'.op = "borrow" /\ call'.inUse = QubitsInUse(Top) /\ call'.borrowed = <<>>
      /\ call'.got = <<>> /\ UNCHANGED <<poolVars, operationStack>> /\ ~DisableBorrowing
      /\ LET available == NumAllocatedQubits - Cardinality(QubitsInUse(Top))
         IN  call'.quota = IF available < n THEN available ELSE n
  BY DEF BeginBorrow, Idle
<1>2. PoolTyping /\ SameMarks
  BY <1>1, PoolUnchanged DEF IInv, PoolInv
<1>3. Busy' = Busy /\ IsFiniteSet(Busy) /\ Busy \subseteq Nat
  BY <1>2, MarkedSets DEF SameMarks, Busy
<1>4. MinId' = 0
  BY <1>1 DEF MinId
<1>5. Candidates' = Busy \ QubitsInUse(Top)
  <2>1. Candidates' = {x \in Busy : x >= 0 /\ x \notin QubitsInUse(Top)}
    BY <1>1, <1>3, <1>4 DEF Candidates
  <2>2. \A x \in Busy : x >= 0
    BY <1>3
  <2> QED  BY <2>1, <2>2
<1>6. QubitsInUse(Top) \in SUBSET Busy
  BY <1>1, InUseIsBusy
<1>7. /\ Cardinality(Busy) \in Nat /\ Cardinality(QubitsInUse(Top)) \in Nat
      /\ Cardinality(QubitsInUse(Top)) <= Cardinality(Busy)
      /\ Cardinality(Candidates') = Cardinality(Busy) - Cardinality(QubitsInUse(Top))
  <2>1. Busy \cap QubitsInUse(Top) = QubitsInUse(Top)
    BY <1>6
  <2>2. IsFiniteSet(QubitsInUse(Top)) /\ Cardinality(QubitsInUse(Top)) <= Cardinality(Busy)
    BY <1>3, <1>6, FS_Subset
  <2>3. Cardinality(Busy \ QubitsInUse(Top)) =
            Cardinality(Busy) - Cardinality(Busy \cap QubitsInUse(Top))
    BY <1>3, FS_Difference
  <2> QED  BY <1>3, <1>5, <2>1, <2>2, <2>3, FS_CardinalityType
<1>8. Len(call'.borrowed) = 0
  BY <1>1
<1>9. NumAllocatedQubits = Cardinality(Busy)
  BY DEF CountInv
<1> QED  BY <1>1, <1>7, <1>8, <1>9 DEF SearchInv

\* Each qubit borrowed is one candidate less, and no other is passed over.
LEMMA SearchGoesOn ==
    ASSUME IInv, SearchInv, NEW id \in Nat, BorrowNext(id)
    PROVE  SearchInv'
<1>1. /\ call.op = "borrow" /\ Taking("borrow") /\ call.got = <<>>
      /\ Mark(id) \notin {0, 2} /\ MarkBecomes(id, Shared(Mark(id)))
      /\ \/ call' = Idle
         \/ call' = [call EXCEPT !.borrowed = Append(call.borrowed, id),
                                 !.inUse = {x \in call.inUse : x > id}]
  BY BorrowNextEffect DEF Taking
<1>2. id \in Lowest(Borrowable(MinId))
  BY DEF BorrowNext
<1>3. CASE call' = Idle
  BY <1>3 DEF SearchInv, Taking, Idle
<1>4. CASE call' = [call EXCEPT !.borrowed = Append(call.borrowed, id),
                                !.inUse = {x \in call.inUse : x > id}]
  <2>1. call.borrowed \in Seq(Nat) /\ call.inUse \subseteq Nat /\ call \in CallShape
    BY CallFields DEF IInv, Typing
  <2>2. /\ call'.borrowed = Append(call.borrowed, id) /\ call'.got = call.got
        /\ call'.inUse = {x \in call.inUse : x > id} /\ call'.quota = call.quota
    BY <1>4, <2>1 DEF CallShape
  <2>3. Len(call'.borrowed) = Len(call.borrowed) + 1 /\ Len(call.borrowed) \in Nat
        /\ call'.borrowed[Len(call'.borrowed)] = id /\ call'.borrowed # <<>>
    BY <2>1, <2>2, AppendProperties, LenProperties
  <2>4. MinId' = id + 1
    BY <2>3 DEF MinId
  <2>5. \A x \in Nat : Mark(x) \in Nat
    BY MarkMeaning DEF IInv, PoolInv
  <2>6. Busy' = Busy
    BY <1>1, <2>5 DEF MarkBecomes, Shared, Busy
  <2>7. /\ Borrowable(MinId) = Candidates
        /\ IsFiniteSet(Candidates) /\ Cardinality(Candidates) \in Nat
    BY <1>1, BorrowableIsCandidates
  <2>8. id \in Candidates /\ \A x \in Candidates : id <= x
    BY <1>2, <2>7 DEF Lowest
  <2>9. MinId \in Nat
    <3>1. call.borrowed # <<>> => call.borrowed[Len(call.borrowed)] \in Nat
      BY <2>1, LenProperties, ElementOfSeq, EmptySeq
    <3> QED  BY <3>1 DEF MinId
  <2>10. Candidates' = Candidates \ {id}
    <3>1. Candidates' = {x \in Busy : x >= id + 1 /\ x \notin {u \in call.inUse : u > id}}
      BY <2>2, <2>4, <2>6 DEF Candidates
    <3>2. ASSUME NEW x \in Busy
          PROVE  x >= id + 1 /\ x \notin {u \in call.inUse : u > id}
                    <=> x \in Candidates /\ x # id
      <4>1. x \in Nat /\ (x \in Candidates <=> x >= MinId /\ x \notin call.inUse)
        BY DEF Busy, Candidates
      <4>2. id >= MinId
        BY <2>8 DEF Candidates
      <4>3. x \in Candidates => id <= x
        BY <2>8
      <4> HIDE DEF MinId, Candidates
      <4> QED  BY <2>9, <4>1, <4>2, <4>3
    <3>3. Candidates \subseteq Busy
      BY DEF Candidates
    <3> QED  BY <3>1, <3>2, <3>3
  <2>11. Cardinality(Candidates') = Cardinality(Candidates) - 1
    BY <2>7, <2>8, <2>10, FS_RemoveElement
  <2> QED  BY <1>1, <2>2, <2>3, <2>7, <2>11 DEF SearchInv
<1> QED  BY <1>1, <1>3, <1>4

\* Every other action ends the call, or is none of Borrow(n)'s search.
LEMMA SearchStep ==
    ASSUME IInv, CountInv, SearchInv, Next
    PROVE  SearchInv'
<1>a. PoolTyping /\ Typing /\ call \in CallShape
  BY DEF IInv, PoolInv, Typing
<1>1. CASE call' = Idle
  BY <1>1 DEF SearchInv, Taking, Idle
<1>2. ASSUME UNCHANGED call, call = Idle
      PROVE  SearchInv'
  BY <1>1, <1>2
<1>3. ASSUME NEW n \in Nat, BeginAllocate(n)
      PROVE  SearchInv'
  BY <1>3 DEF BeginAllocate, SearchInv, Taking, Idle
<1>4. ASSUME NEW n \in Nat, BeginBorrow(n)
      PROVE  SearchInv'
  BY <1>4, SearchBegins
<1>5. ASSUME NEW id \in Nat, AllocateNext(id)
      PROVE  SearchInv'
  <2>1. call.op = "allocate" /\ (call' = Idle \/ call' = [call EXCEPT !.got = Append(call.got, id)])
    BY <1>5, AllocateNextEffect
  <2>2. call' = Idle \/ call'.op = "allocate"
    BY <1>a, <2>1 DEF CallShape
  <2> QED  BY <1>1, <2>2 DEF SearchInv, Taking
<1>6. ASSUME NEW id \in Nat, BorrowNext(id)
      PROVE  SearchInv'
  BY <1>6, SearchGoesOn
<1>7. ASSUME NEW id \in Nat, BorrowAllocates(id)
      PROVE  SearchInv'
  <2>1. \/ call' = Idle
        \/ call' = [call EXCEPT !.got = Append(call.got, id), !.quota = Len(call.borrowed)]
    BY <1>7, BorrowAllocatesEffect
  <2>2. call.got \in Seq(Nat) /\ call.borrowed \in Seq(Nat)
    BY <1>a, CallFields
  <2>3. Append(call.got, id) # <<>> /\ Len(call.borrowed) \in Nat
    BY <1>7, <2>2, AppendProperties, LenProperties, EmptySeq
  <2>4. CASE call' = [call EXCEPT !.got = Append(call.got, id), !.quota = Len(call.borrowed)]
    <3>1. call'.got = Append(call.got, id) /\ call'.quota = Len(call.borrowed)
      BY <1>a, <2>4 DEF CallShape
    <3> QED  BY <2>3, <3>1 DEF SearchInv
  <2> QED  BY <1>1, <2>1, <2>4
<1>8. ASSUME AllocateFails \/ BorrowFails
      PROVE  SearchInv'
  <2>1. call' = Idle \/ call' = [call EXCEPT !.undoing = TRUE]
    BY <1>8 DEF AllocateFails, BorrowFails
  <2>2. call' = Idle \/ call'.undoing
    BY <1>a, <2>1 DEF CallShape
  <2> QED  BY <1>1, <2>2 DEF SearchInv, Taking
<1>9. ASSUME RollbackNext
      PROVE  SearchInv'
  <2>1. call.undoing /\ (call' = Idle \/ call' = [call EXCEPT !.got = Tail(call.got)])
    BY <1>9 DEF RollbackNext
  <2>2. call' = Idle \/ call'.undoing
    BY <1>a, <2>1 DEF CallShape
  <2> QED  BY <1>1, <2>2 DEF SearchInv, Taking
<1>10. ASSUME \/ \E id \in Nat : Release(id) \/ Disable(id) \/ BorrowSingle(id) \/ Return(id)
              \/ \E args \in SUBSET Nat : OnOperationStart(args)
              \/ OnOperationEnd \/ Fail
       PROVE  SearchInv'
  <2>1. UNCHANGED call /\ call = Idle
    BY <1>10 DEF Release, Disable, BorrowSingle, Return, OnOperationStart, OnOperationEnd, Fail, PopTo
  <2> QED  BY <1>2, <2>1
<1> QED  BY <1>a, NextCases, <1>3, <1>4, <1>5, <1>6, <1>7, <1>8, <1>9, <1>10

\* The count of what Borrow(n) may borrow is never more than its search finds, so the case
\* the code comments "should not happen" (QubitManager.cs:585) does not.
THEOREM BorrowFindsItsQuota == Spec => []BorrowNeverRunsShort
<1>1. Init => SearchInv
  BY DEF Init, SearchInv, Taking, Idle
<1>2. IInv /\ CountInv /\ SearchInv /\ [Next]_vars => SearchInv'
  <2> SUFFICES ASSUME IInv, CountInv, SearchInv, [Next]_vars
               PROVE  SearchInv'
    OBVIOUS
  <2>1. CASE UNCHANGED vars
    <3>1. UNCHANGED call /\ SameMarks
      BY <2>1, PoolUnchanged DEF vars, IInv
    <3>2. Candidates' = Candidates
      BY <3>1 DEF Candidates, Busy, SameMarks, MinId
    <3> QED  BY <3>1, <3>2 DEF SearchInv, Taking
  <2> QED  BY <2>1, SearchStep
<1>3. IInv /\ SearchInv => BorrowNeverRunsShort
  <2> SUFFICES ASSUME IInv, SearchInv, Taking("borrow")
               PROVE  /\ call.quota >= 0
                      /\ Len(call.borrowed) < call.quota => Borrowable(MinId) # {}
    BY DEF BorrowNeverRunsShort
  <2>1. call.op = "borrow" /\ call.quota \in Nat /\ Len(call.borrowed) \in Nat
    BY CallFields, LenProperties DEF SearchInv, Taking, IInv
  <2>2. CASE call.got = <<>>
    <3>1. /\ Borrowable(MinId) = Candidates /\ Cardinality(Candidates) \in Nat
          /\ call.quota - Len(call.borrowed) <= Cardinality(Candidates)
      BY <2>1, <2>2, BorrowableIsCandidates DEF SearchInv
    <3>2. Candidates = {} => Cardinality(Candidates) = 0
      BY FS_EmptySet
    <3> QED  BY <2>1, <3>1, <3>2
  <2>3. CASE call.got # <<>>
    BY <2>1, <2>3 DEF IInv, CallInv
  <2> QED  BY <2>2, <2>3
<1> QED  BY <1>1, <1>2, <1>3, Counts, PTL DEF Spec

-----------------------------------------------------------------------------
(* A call that throws takes nothing                                         *)

\* The free ids, by marks.
FreeIsUnmarked == Ids \subseteq Nat /\ FreeIds = {x \in Ids : Mark(x) = 0}

LEMMA FreeByMark == PoolTyping => FreeIsUnmarked
<1> SUFFICES ASSUME PoolTyping
             PROVE  Ids \subseteq Nat /\ FreeIds = {x \in Ids : Mark(x) = 0}
  BY DEF FreeIsUnmarked
<1>1. FreeIds = Ids \ (Busy \cup Marked({2})) /\ Ids \subseteq Nat
  BY MarkedSets DEF Ids, PoolTyping
<1>2. \A x \in Ids : x \in Busy \cup Marked({2}) <=> Mark(x) # 0
  BY <1>1 DEF Busy, Marked
<1> QED  BY <1>1, <1>2

LEMMA FreeByMarkNext == PoolTyping' => FreeIsUnmarked'
BY FreeByMark, PTL

\* Only a pool that may not grow runs out, and until the call ends what was free before it
\* is what is free now or was taken by the call.
ThrowInv ==
    /\ call.undoing => ~MayExtendCapacity
    /\ ~MayExtendCapacity /\ call.op # "idle" =>
        \A x \in Nat : x \in call.before <=> x \in Ids /\ (Mark(x) = 0 \/ x \in Range(call.got))

\* Taking one more id keeps the account of what was free.
LEMMA TakingKeeps ==
    ASSUME IInv, ThrowInv, NEW id \in Nat, NEW b \in BOOLEAN, AllocateOne(id, b),
           call.op # "idle", ~call.undoing, call'.undoing = call.undoing,
           call'.before = call.before, call'.got = Append(call.got, id)
    PROVE  ThrowInv'
<1>1. /\ id \in Ids' /\ Mark(id) = 0 /\ Mark(id)' # 0
      /\ \A x \in Nat : x # id => Mark(x)' = Mark(x)
  BY AllocateOneEffect DEF IInv
<1>2. Range(call'.got) = Range(call.got) \cup {id}
  BY CallFields, RangeAppend DEF IInv
<1>3. ~MayExtendCapacity => Ids' = Ids
  BY DEF AllocateOne, TakeHead, Ids
<1> QED  BY <1>1, <1>2, <1>3 DEF ThrowInv

\* Every action keeps the account.
LEMMA ThrowStep ==
    ASSUME IInv, IInv', ThrowInv, Next
    PROVE  ThrowInv'
<1>a. PoolTyping /\ PoolInv /\ Typing /\ call \in CallShape /\ call'\in CallShape' /\ PoolTyping'
  BY DEF IInv, PoolInv, Typing
<1>1. CASE call' = Idle
  BY <1>1 DEF ThrowInv, Idle
<1>2. ASSUME NEW n \in Nat, BeginAllocate(n) \/ BeginBorrow(n)
      PROVE  ThrowInv'
  <2>1. /\ call'.before = FreeIds /\ call'.got = <<>> /\ ~call'.undoing /\ UNCHANGED poolVars
    BY <1>2 DEF BeginAllocate, BeginBorrow, Idle
  <2>2. SameMarks /\ Ids' = Ids /\ FreeIds = {x \in Ids : Mark(x) = 0}
    BY <1>a, <2>1, PoolUnchanged, FreeByMark DEF FreeIsUnmarked
  <2>3. Range(call'.got) = {}
    BY <2>1 DEF Range
  <2> QED  BY <2>1, <2>2, <2>3 DEF ThrowInv, SameMarks
<1>3. ASSUME NEW id \in Nat, AllocateNext(id)
      PROVE  ThrowInv'
  <2>1. /\ call.op = "allocate" /\ ~call.undoing
        /\ call' = Idle \/ call' = [call EXCEPT !.got = Append(call.got, id)]
    BY <1>3, AllocateNextEffect
  <2>2. CASE call' = [call EXCEPT !.got = Append(call.got, id)]
    <3>1. /\ call'.got = Append(call.got, id) /\ call'.before = call.before
          /\ call'.undoing = call.undoing
      BY <1>a, <2>2 DEF CallShape
    <3>2. AllocateOne(id, FALSE)
      BY <1>3 DEF AllocateNext
    <3> QED  BY <2>1, <3>1, <3>2, TakingKeeps
  <2> QED  BY <1>1, <2>1, <2>2
<1>4. ASSUME NEW id \in Nat, BorrowAllocates(id)
      PROVE  ThrowInv'
  <2>1. /\ call.op = "borrow" /\ ~call.undoing
        /\ \/ call' = Idle
           \/ call' = [call EXCEPT !.got = Append(call.got, id), !.quota = Len(call.borrowed)]
    BY <1>4, BorrowAllocatesEffect
  <2>2. CASE call' = [call EXCEPT !.got = Append(call.got, id), !.quota = Len(call.borrowed)]
    <3>1. /\ call'.got = Append(call.got, id) /\ call'.before = call.before
          /\ call'.undoing = call.undoing
      BY <1>a, <2>2 DEF CallShape
    <3>2. AllocateOne(id, TRUE)
      BY <1>4 DEF BorrowAllocates
    <3> QED  BY <2>1, <3>1, <3>2, TakingKeeps
  <2> QED  BY <1>1, <2>1, <2>2
<1>5. ASSUME NEW id \in Nat, BorrowNext(id)
      PROVE  ThrowInv'
  <2>1. /\ call.op = "borrow" /\ ~call.undoing
        /\ Mark(id) # 0 /\ MarkBecomes(id, Shared(Mark(id)))
        /\ \/ call' = Idle
           \/ call' = [call EXCEPT !.borrowed = Append(call.borrowed, id),
                                   !.inUse = {x \in call.inUse : x > id}]
    BY <1>5, BorrowNextEffect
  <2>2. CASE call' = [call EXCEPT !.borrowed = Append(call.borrowed, id),
                                  !.inUse = {x \in call.inUse : x > id}]
    <3>1. /\ call'.got = call.got /\ call'.before = call.before
          /\ call'.undoing = call.undoing
      BY <1>a, <2>2 DEF CallShape
    <3>2. Ids' = Ids
      BY <1>5 DEF BorrowNext, Ids
    <3>3. Mark(id) \in Nat
      BY <1>a, MarkMeaning
    <3>4. \A x \in Nat : Mark(x)' = 0 <=> Mark(x) = 0
      BY <2>1, <3>3 DEF MarkBecomes, Shared
    <3> QED  BY <2>1, <3>1, <3>2, <3>4 DEF ThrowInv
  <2> QED  BY <1>1, <2>1, <2>2
<1>6. ASSUME AllocateFails \/ BorrowFails
      PROVE  ThrowInv'
  <2>1. /\ ~MayExtendCapacity /\ UNCHANGED poolVars /\ call.op # "idle"
        /\ call' = Idle \/ call' = [call EXCEPT !.undoing = TRUE]
    BY <1>6 DEF AllocateFails, BorrowFails, OutOfQubits, Taking
  <2>2. SameMarks /\ Ids' = Ids
    BY <1>a, <2>1, PoolUnchanged
  <2>3. CASE call' = [call EXCEPT !.undoing = TRUE]
    <3>1. call'.got = call.got /\ call'.before = call.before
      BY <1>a, <2>3 DEF CallShape
    <3> QED  BY <2>1, <2>2, <3>1 DEF ThrowInv, SameMarks
  <2> QED  BY <1>1, <2>1, <2>3
<1>7. ASSUME RollbackNext
      PROVE  ThrowInv'
  <2>1. PICK h : h = Head(call.got)
    OBVIOUS
  <2>2. /\ MarkBecomes(h, 0) /\ call.got # <<>> /\ h \in Nat /\ h \in Range(call.got)
        /\ call.op # "idle" /\ call.undoing
        /\ call' = Idle \/ call' = [call EXCEPT !.got = Tail(call.got)]
    BY <1>7, <2>1, RollbackNextEffect DEF RollbackNext
  <2>3. CASE call' = [call EXCEPT !.got = Tail(call.got)]
    <3>1. /\ call'.got = Tail(call.got) /\ call'.before = call.before
          /\ call'.undoing = call.undoing
      BY <1>a, <2>3 DEF CallShape
    <3>2. Range(call'.got) = Range(call.got) \ {h}
      BY <1>a, <2>1, <2>2, <3>1, CallFields, RangeTail DEF IInv, CallInv
    <3>3. Ids' = Ids /\ h \in Ids
      <4>1. ReleaseOne(h) /\ Mark(h) # 0
        BY <1>7, <2>1, <2>2, UndoneIsNotReached DEF RollbackNext
      <4> QED  BY <1>a, <2>2, <4>1, ReleaseOneEffect, MarkedIsId
    <3> QED  BY <2>2, <3>1, <3>2, <3>3 DEF ThrowInv, MarkBecomes
  <2> QED  BY <1>1, <2>2, <2>3
<1>8. ASSUME \/ \E id \in Nat : Release(id) \/ Disable(id) \/ BorrowSingle(id) \/ Return(id)
             \/ \E args \in SUBSET Nat : OnOperationStart(args)
             \/ OnOperationEnd \/ Fail
      PROVE  ThrowInv'
  <2>1. call' = Idle
    BY <1>8 DEF Release, Disable, BorrowSingle, Return, OnOperationStart, OnOperationEnd, Fail, PopTo
  <2> QED  BY <1>1, <2>1
<1> QED  BY <1>a, NextCases, <1>2, <1>3, <1>4, <1>5, <1>6, <1>7, <1>8

\* A call ends with its qubits handed over, or with nothing taken.
LEMMA EndIsClean ==
    ASSUME IInv, IInv', ThrowInv, Next, call # Idle, call' = Idle,
           Top'.used = Top.used, Top'.lent = Top.lent
    PROVE  FreeIds' = call.before
<1>a. PoolTyping /\ PoolInv /\ Typing /\ call \in CallShape /\ PoolTyping' /\ call.before \subseteq Nat
      /\ call.op # "idle"
  BY DEF IInv, PoolInv, Typing, CallShape, CallInv
<1>b. FreeIds' = {x \in Ids' : Mark(x)' = 0} /\ Ids' \subseteq Nat
  BY <1>a, FreeByMarkNext DEF FreeIsUnmarked
<1>1. ASSUME NEW id \in Nat, AllocateNext(id) \/ BorrowAllocates(id) \/ BorrowNext(id)
      PROVE  FALSE
  <2>1. id \notin Top.used \cup Top.lent
    <3>1. CASE AllocateNext(id)
      BY <3>1, AllocateNextEffect, FreshIsNotReached DEF Reach
    <3>2. CASE BorrowAllocates(id) \/ BorrowNext(id)
      BY <3>2, BorrowedIsNotReached DEF Reach
    <3> QED  BY <1>1, <3>1, <3>2
  <2>3. CASE AllocateNext(id)
    <3>1. \E used : id \in used
                /\ TopBecomes(AddLocal(Top.locals, id), used, Top.lent, Top.lost)
      <4>1. [call EXCEPT !.got = Append(call.got, id)] # Idle
        BY <1>a DEF CallShape, Idle
      <4>2. TopBecomes(AddLocal(Top.locals, id), Top.used \cup Range(call.got) \cup {id},
                       Top.lent, Top.lost)
        BY <2>3, <4>1, AllocateNextEffect
      <4> QED  BY <4>2
    <3> QED  BY <1>a, <2>1, <3>1, TopNext
  <2>4. CASE BorrowAllocates(id) \/ BorrowNext(id)
    <3>1. \E lent : id \in lent
                /\ TopBecomes(AddLocal(Top.locals, id), Top.used, lent, Top.lost)
      <4>1. [call EXCEPT !.got = Append(call.got, id), !.quota = Len(call.borrowed)] # Idle
            /\ [call EXCEPT !.borrowed = Append(call.borrowed, id),
                            !.inUse = {x \in call.inUse : x > id}] # Idle
        BY <1>a DEF CallShape, Idle
      <4>2. TopBecomes(AddLocal(Top.locals, id), Top.used,
                       Top.lent \cup Range(call.borrowed) \cup Range(call.got) \cup {id}, Top.lost)
        BY <2>4, <4>1, BorrowAllocatesEffect, BorrowNextEffect
      <4> QED  BY <4>2
    <3> QED  BY <1>a, <2>1, <3>1, TopNext
  <2> QED  BY <1>1, <2>3, <2>4
<1>2. ASSUME AllocateFails \/ BorrowFails
      PROVE  FreeIds' = call.before
  <2>1. ~MayExtendCapacity /\ UNCHANGED poolVars
    BY <1>2 DEF AllocateFails, BorrowFails, OutOfQubits
  <2>2. call.got = <<>>
    <3>1. [call EXCEPT !.undoing = TRUE] # Idle
      BY <1>a DEF CallShape, Idle
    <3> QED  BY <1>2, <3>1 DEF AllocateFails, BorrowFails
  <2>3. SameMarks /\ Ids' = Ids
    BY <1>a, <2>1, PoolUnchanged
  <2>4. Range(call.got) = {}
    BY <2>2 DEF Range
  <2>5. \A x \in Nat : x \in call.before <=> x \in Ids' /\ Mark(x)' = 0
    BY <1>a, <2>1, <2>3, <2>4 DEF ThrowInv, SameMarks
  <2> QED  BY <1>a, <1>b, <2>5
<1>3. ASSUME RollbackNext
      PROVE  FreeIds' = call.before
  <2>1. PICK h : h = Head(call.got)
    OBVIOUS
  <2>2. /\ MarkBecomes(h, 0) /\ call.got # <<>> /\ h \in Nat /\ h \in Range(call.got)
        /\ call.undoing /\ ~MayExtendCapacity
    BY <1>3, <2>1, RollbackNextEffect DEF RollbackNext, ThrowInv
  <2>3. Len(call.got) = 1
    <3>1. [call EXCEPT !.got = Tail(call.got)] # Idle
      BY <1>a, <2>2 DEF CallShape, Idle
    <3> QED  BY <1>3, <3>1, RollbackNextEffect
  <2>4. Range(call.got) = {h}
    BY <1>a, <2>1, <2>2, <2>3, CallFields, RangeTail DEF IInv, CallInv
  <2>5. Ids' = Ids /\ h \in Ids
    <3>1. ReleaseOne(h) /\ Mark(h) # 0
      BY <1>a, <1>3, <2>1, <2>2, UndoneIsNotReached DEF RollbackNext
    <3> QED  BY <1>a, <2>2, <3>1, ReleaseOneEffect, MarkedIsId
  <2>6. \A x \in Nat : x \in call.before <=> x \in Ids' /\ Mark(x)' = 0
    BY <1>a, <2>2, <2>4, <2>5 DEF ThrowInv, MarkBecomes
  <2> QED  BY <1>a, <1>b, <2>6
<1>4. ASSUME \/ \E n \in Nat : BeginAllocate(n) \/ BeginBorrow(n)
             \/ \E id \in Nat : Release(id) \/ Disable(id) \/ BorrowSingle(id) \/ Return(id)
             \/ \E args \in SUBSET Nat : OnOperationStart(args)
             \/ OnOperationEnd \/ Fail
      PROVE  FALSE
  BY <1>4 DEF BeginAllocate, BeginBorrow, Release, Disable, BorrowSingle, Return,
     OnOperationStart, OnOperationEnd, Fail
<1> QED  BY <1>a, NextCases, <1>1, <1>2, <1>3, <1>4

\* Allocate(n) and Borrow(n) hand over what was asked for or, wherever in the loop the pool
\* runs out, leave exactly the ids free that were free before (QubitManager.cs:411, 603).
THEOREM ThrowsTakeNothing == Spec => ThrowsAreClean
<1>1. Init => ThrowInv
  BY DEF Init, ThrowInv, Idle
<1>2. IInv /\ IInv' /\ ThrowInv /\ [Next]_vars => ThrowInv'
  <2> SUFFICES ASSUME IInv, IInv', ThrowInv, [Next]_vars
               PROVE  ThrowInv'
    OBVIOUS
  <2>1. CASE UNCHANGED vars
    <3>1. UNCHANGED call /\ SameMarks /\ Ids' = Ids
      BY <2>1, PoolUnchanged DEF vars, IInv
    <3> QED  BY <3>1 DEF ThrowInv, SameMarks
  <2> QED  BY <2>1, ThrowStep
<1>3. IInv /\ IInv' /\ ThrowInv /\ [Next]_vars =>
        [ (call # Idle /\ call' = Idle /\ Top'.used = Top.used /\ Top'.lent = Top.lent)
            => FreeIds' = call.before ]_vars
  BY EndIsClean
<1> QED  BY <1>1, <1>2, <1>3, Invariance, PTL DEF Spec, ThrowsAreClean

-----------------------------------------------------------------------------
(* The native library: the invariant                                        *)

\* The ids the library has ever seen are those below this one.
Seen == Len(qubitmap)

\* An id the library has not seen is free and linked to its successor, and what follows
\* another free id, or the head of the list, is no later than the first unseen one.
FreshInv ==
    /\ qubitmap \in Seq(BOOLEAN) /\ Seen <= NumQubits /\ free <= Seen
    /\ \A x \in Nat : x < Seen /\ Mark(x) = 0 => qubits[x] <= Seen
    /\ \A x \in Nat : Seen <= x /\ x < NumQubits => qubits[x] = x + 1

\* What the frames of the stack own.
FrameUsed == {x \in Nat : \E i \in 1 .. Depth : x \in operationStack[i].used}

\* A busy id is live, a free one is not, and one that a frame owns is live even if it is
\* disabled, because releasing it will release its native qubit.
LiveInv ==
    /\ \A x \in Nat : (x \in Live => Mark(x) # 0) /\ (Mark(x) \notin {0, 2} => x \in Live)
    /\ FrameUsed \subseteq Live
    /\ IsFiniteSet(Live) /\ num_qubits = Cardinality(Live)

NativeInv == FreshInv /\ LiveInv

-----------------------------------------------------------------------------
(* The library                                                              *)

LEMMA LiveMeaning ==
    ASSUME qubitmap \in Seq(BOOLEAN)
    PROVE  /\ Seen \in Nat /\ Live \subseteq Nat
           /\ \A x \in Nat : x \in Live <=> x < Seen /\ qubitmap[x + 1] = TRUE
<1>1. Seen \in Nat /\ qubitmap \in [1 .. Seen -> BOOLEAN]
  BY LenProperties DEF Seen
<1>2. Live \subseteq Nat
  BY <1>1 DEF Live, Seen
<1>3. ASSUME NEW x \in Nat
      PROVE  x \in Live <=> x < Seen /\ qubitmap[x + 1] = TRUE
  <2>1. ASSUME x \in Live
        PROVE  x < Seen /\ qubitmap[x + 1] = TRUE
    <3>1. PICK i \in 1 .. Seen : qubitmap[i] /\ x = i - 1
      BY <2>1 DEF Live, Seen
    <3>2. x + 1 = i
      BY <1>1, <3>1
    <3> QED  BY <1>1, <3>1, <3>2
  <2>2. ASSUME x < Seen, qubitmap[x + 1] = TRUE
        PROVE  x \in Live
    <3>1. x + 1 \in {j \in 1 .. Len(qubitmap) : qubitmap[j]} /\ x = (x + 1) - 1
      BY <1>1, <2>2 DEF Seen
    <3> QED  BY <3>1 DEF Live
  <2> QED  BY <2>1, <2>2
<1> QED  BY <1>1, <1>2, <1>3

\* The same of the next state.
LiveIs == \A x \in Nat : x \in Live <=> x < Seen /\ qubitmap[x + 1] = TRUE

LEMMA LiveMeaningNext == (qubitmap \in Seq(BOOLEAN))' => (Live \subseteq Nat)' /\ LiveIs'
<1>1. qubitmap \in Seq(BOOLEAN) => Live \subseteq Nat /\ LiveIs
  BY LiveMeaning DEF LiveIs
<1> QED  BY <1>1, PTL

\* allocate_qubit gives the id a position, a new one if it is the next id.
LEMMA AllocateNative ==
    ASSUME qubitmap \in Seq(BOOLEAN), NEW id \in Nat, id <= Seen, AllocateOneNative(id)
    PROVE  /\ qubitmap' \in Seq(BOOLEAN) /\ Seen' = IF id = Seen THEN Seen + 1 ELSE Seen
           /\ Live' = Live \cup {id} /\ num_qubits' = num_qubits + 1
<1>0. PICK yes : yes = TRUE
  OBVIOUS
<1>b. yes \in BOOLEAN
  BY <1>0
<1>1. /\ Seen \in Nat /\ Live \subseteq Nat /\ Len(qubitmap) = Seen
      /\ \A x \in Nat : x \in Live <=> x < Seen /\ qubitmap[x + 1] = yes
  <2>1. Seen \in Nat /\ Live \subseteq Nat
    BY LiveMeaning
  <2>2. \A x \in Nat : x \in Live <=> x < Seen /\ qubitmap[x + 1] = yes
    BY <1>0, LiveMeaning, Zenon
  <2> QED  BY <2>1, <2>2 DEF Seen
<1>2. /\ qubitmap' \in Seq(BOOLEAN) /\ Seen' = IF id = Seen THEN Seen + 1 ELSE Seen
      /\ \A x \in Nat : x < Seen' => qubitmap'[x + 1] = IF x = id THEN yes ELSE qubitmap[x + 1]
  <2>0. qubitmap' = IF id < Len(qubitmap) THEN [qubitmap EXCEPT ![id + 1] = yes]
                    ELSE Append(qubitmap, yes)
    BY <1>0, Zenon DEF AllocateOneNative
  <2>1. CASE id < Seen
    <3>1. id + 1 \in 1 .. Len(qubitmap) /\ qubitmap' = [qubitmap EXCEPT ![id + 1] = yes]
      BY <1>1, <2>0, <2>1
    <3>2. /\ qubitmap' \in Seq(BOOLEAN) /\ Len(qubitmap') = Len(qubitmap)
          /\ \A j \in 1 .. Len(qubitmap) :
                qubitmap'[j] = IF j = id + 1 THEN yes ELSE qubitmap[j]
      BY <1>b, <3>1, ExceptSeq
    <3>3. \A x \in Nat : x < Seen => x + 1 \in 1 .. Len(qubitmap)
      BY <1>1
    <3>4. Seen' = Seen
      BY <3>2 DEF Seen
    <3>5. ASSUME NEW x \in Nat, x < Seen
          PROVE  qubitmap'[x + 1] = IF x = id THEN yes ELSE qubitmap[x + 1]
      <4>1. x + 1 \in 1 .. Len(qubitmap) /\ (x + 1 = id + 1 <=> x = id)
        BY <3>3, <3>5
      <4>2. qubitmap'[x + 1] = IF x + 1 = id + 1 THEN yes ELSE qubitmap[x + 1]
        BY <3>2, <4>1, Zenon
      <4> QED  BY <4>1, <4>2, Zenon
    <3>6. Seen' = IF id = Seen THEN Seen + 1 ELSE Seen
      <4>1. id # Seen
        BY <1>1, <2>1
      <4> QED  BY <3>4, <4>1
    <3> QED  BY <3>2, <3>4, <3>5, <3>6, Zenon
  <2>2. CASE id = Seen
    <3>1. qubitmap' = Append(qubitmap, yes)
      <4>1. ~(id < Len(qubitmap))
        BY <1>1, <2>2
      <4> QED  BY <2>0, <4>1, Zenon
    <3>2. /\ qubitmap' \in Seq(BOOLEAN) /\ Len(qubitmap') = Len(qubitmap) + 1
          /\ \A j \in 1 .. Len(qubitmap) : qubitmap'[j] = qubitmap[j]
          /\ qubitmap'[Len(qubitmap) + 1] = yes
      <4>1. /\ Append(qubitmap, yes) \in Seq(BOOLEAN)
            /\ Len(Append(qubitmap, yes)) = Len(qubitmap) + 1
            /\ \A j \in 1 .. Len(qubitmap) : Append(qubitmap, yes)[j] = qubitmap[j]
            /\ Append(qubitmap, yes)[Len(qubitmap) + 1] = yes
        BY <1>b, AppendProperties
      <4> QED  BY <3>1, <4>1, Zenon
    <3>3. \A x \in Nat : x < Seen + 1 => x = Seen \/ x + 1 \in 1 .. Len(qubitmap)
      BY <1>1
    <3>4. Seen' = Seen + 1
      BY <3>2 DEF Seen
    <3> QED  BY <1>1, <2>2, <3>2, <3>3, <3>4
  <2> QED  BY <1>1, <2>1, <2>2
<1>3. Live' \subseteq Nat /\ \A x \in Nat : x \in Live' <=> x < Seen' /\ qubitmap'[x + 1] = yes
  BY <1>0, <1>2, LiveMeaningNext, Zenon DEF LiveIs
<1>4. \A x \in Nat : x \in Live' <=> x \in Live \/ x = id
  BY <1>1, <1>2, <1>3
<1>5. Live' = Live \cup {id}
  BY <1>1, <1>3, <1>4
<1> QED  BY <1>2, <1>5 DEF AllocateOneNative

\* release takes the id's position away.
LEMMA ReleaseNative ==
    ASSUME qubitmap \in Seq(BOOLEAN), NEW id \in Live, ReleaseOneNative(id)
    PROVE  /\ qubitmap' \in Seq(BOOLEAN) /\ Seen' = Seen
           /\ Live' = Live \ {id} /\ num_qubits' = num_qubits - 1
<1>0. PICK yes, no : yes = TRUE /\ no = FALSE
  OBVIOUS
<1>b. yes # no /\ no \in BOOLEAN
  BY <1>0
<1>1. /\ Seen \in Nat /\ Live \subseteq Nat /\ Len(qubitmap) = Seen
      /\ \A x \in Nat : x \in Live <=> x < Seen /\ qubitmap[x + 1] = yes
  <2>1. Seen \in Nat /\ Live \subseteq Nat
    BY LiveMeaning
  <2>2. \A x \in Nat : x \in Live <=> x < Seen /\ qubitmap[x + 1] = yes
    BY <1>0, LiveMeaning, Zenon
  <2> QED  BY <2>1, <2>2 DEF Seen
<1>2. id + 1 \in 1 .. Len(qubitmap) /\ qubitmap' = [qubitmap EXCEPT ![id + 1] = no]
  <2>1. qubitmap' = [qubitmap EXCEPT ![id + 1] = no]
    BY <1>0, Zenon DEF ReleaseOneNative
  <2> QED  BY <1>1, <2>1
<1>3. /\ qubitmap' \in Seq(BOOLEAN) /\ Len(qubitmap') = Len(qubitmap)
      /\ \A j \in 1 .. Len(qubitmap) : qubitmap'[j] = IF j = id + 1 THEN no ELSE qubitmap[j]
  BY <1>b, <1>2, ExceptSeq
<1>4. \A x \in Nat : x < Seen => qubitmap'[x + 1] = IF x = id THEN no ELSE qubitmap[x + 1]
  BY <1>1, <1>3
<1>5. Live' \subseteq Nat /\ \A x \in Nat : x \in Live' <=> x < Seen' /\ qubitmap'[x + 1] = yes
  BY <1>0, <1>3, LiveMeaningNext, Zenon DEF LiveIs
<1>6. Seen' = Seen
  BY <1>3 DEF Seen
<1>7. \A x \in Nat : x \in Live' <=> x \in Live /\ x # id
  BY <1>b, <1>1, <1>4, <1>5, <1>6
<1>8. Live' = Live \ {id}
  BY <1>1, <1>5, <1>7
<1> QED  BY <1>3, <1>6, <1>8 DEF ReleaseOneNative

-----------------------------------------------------------------------------
(* The free list, and the ids the library has not seen                      *)

\* The next id to be allocated is at most the first unseen one, and the list stays in order.
LEMMA AllocateFresh ==
    ASSUME EncourageReuse, PoolInv, FreshInv, NEW id \in Nat, NEW b \in BOOLEAN,
           AllocateOne(id, b)
    PROVE  /\ id <= Seen
           /\ AllocateOneNative(id) => FreshInv'
<1>a. /\ PoolTyping /\ Seen \in Nat /\ qubitmap \in Seq(BOOLEAN) /\ Seen <= NumQubits
      /\ NumQubits \in Nat \ {0} /\ free \in Nat /\ free <= NumQubits
      /\ Ids = 0 .. NumQubits - 1 /\ qubits \in [Ids -> Nat]
  BY LiveMeaning DEF PoolInv, PoolTyping, FreshInv, Ids
<1>b. /\ Mark(id) = 0 /\ PoolTyping'
      /\ \A x \in Nat : Mark(x)' = IF x = id THEN IF b THEN 3 ELSE 1 ELSE Mark(x)
  BY AllocateOneEffect DEF PoolInv
<1>c. /\ free <= Seen
      /\ \A x \in Nat : x < Seen /\ Mark(x) = 0 => qubits[x] <= Seen
      /\ \A x \in Nat : Seen <= x /\ x < NumQubits => qubits[x] = x + 1
  BY DEF FreshInv
<1>1. CASE free # None
  <2>1. /\ id = free /\ NumQubits' = NumQubits /\ free' = qubits[id]
        /\ \E marker : qubits' = [qubits EXCEPT ![id] = marker]
    BY <1>1 DEF AllocateOne, TakeHead
  <2>2. id \in Ids /\ id <= Seen /\ id < NumQubits
    BY <1>a, <1>c, <1>1, <2>1 DEF None, NoneAt
  <2>3. ASSUME AllocateOneNative(id)
        PROVE  FreshInv'
    <3>1. qubitmap' \in Seq(BOOLEAN) /\ Seen' = IF id = Seen THEN Seen + 1 ELSE Seen
      BY <1>a, <2>2, <2>3, AllocateNative
    <3>2. \A x \in Ids : x # id => qubits'[x] = qubits[x]
      BY <1>a, <2>1
    <3>3. free' <= Seen' /\ Seen' <= NumQubits'
      BY <1>a, <1>b, <1>c, <2>1, <2>2, <3>1
    <3>4. ASSUME NEW x \in Nat, x < Seen', Mark(x)' = 0
          PROVE  qubits'[x] <= Seen'
      <4>1. x # id /\ Mark(x) = 0
        BY <1>b, <3>4
      <4>2. x < Seen /\ x \in Ids
        BY <1>a, <3>1, <3>4, <4>1
      <4>3. qubits[x] <= Seen /\ qubits[x] \in Nat
        BY <1>a, <1>c, <4>1, <4>2
      <4> QED  BY <1>a, <3>1, <3>2, <4>1, <4>2, <4>3
    <3>5. ASSUME NEW x \in Nat, Seen' <= x, x < NumQubits'
          PROVE  qubits'[x] = x + 1
      <4>1. x # id /\ Seen <= x /\ x \in Ids
        BY <1>a, <2>1, <2>2, <3>1, <3>5
      <4> QED  BY <1>a, <1>c, <3>2, <4>1
    <3> QED  BY <3>1, <3>3, <3>4, <3>5 DEF FreshInv
  <2> QED  BY <2>2, <2>3
<1>2. CASE free = None
  <2>1. /\ id = NumQubits /\ NumQubits' = 2 * NumQubits /\ free' = GrownQubits[id]
        /\ \E marker : qubits' = [GrownQubits EXCEPT ![id] = marker]
    BY <1>2 DEF AllocateOne, TakeHead
  <2>2. Seen = NumQubits
    BY <1>a, <1>c, <1>2 DEF None, NoneAt
  <2>3. \A x \in Ids : Mark(x) # 0
    <3>1. PICK n \in Nat : \E s : ListOf(n, s)
      BY DEF PoolInv, ListInv
    <3>2. PICK s : ListOf(n, s)
      BY <3>1
    <3>3. n = 0
      <4>1. CASE n # 0
        <5>1. 1 \in 1 .. n /\ free = s[1]
          BY <3>2, <4>1 DEF ListOf
        <5>2. free \in Ids
          BY <1>a, <3>2, <5>1, ListedIsFree
        <5> QED  BY <1>a, <1>2, <5>2 DEF None, NoneAt
      <4> QED  BY <4>1
    <3> QED  BY <3>2, <3>3 DEF ListOf, Discards
  <2>4. ASSUME AllocateOneNative(id)
        PROVE  FreshInv'
    <3>1. qubitmap' \in Seq(BOOLEAN) /\ Seen' = Seen + 1
      BY <1>a, <2>1, <2>2, <2>4, AllocateNative
    <3>2. /\ \A x \in NumQubits .. 2 * NumQubits - 1 : GrownQubits[x] = x + 1
          /\ GrownQubits \in [0 .. 2 * NumQubits - 1 -> Nat]
      BY <1>a, GrownType
    <3>3. free' <= Seen' /\ Seen' <= NumQubits'
      <4>1. id \in NumQubits .. 2 * NumQubits - 1
        BY <1>a, <2>1
      <4> QED  BY <1>a, <2>1, <2>2, <3>1, <3>2, <4>1
    <3>4. \A x \in Nat : x < Seen' => Mark(x)' # 0
      <4>1. \A x \in Nat : x < Seen' => x = id \/ x \in Ids
        BY <1>a, <2>1, <2>2, <3>1
      <4> QED  BY <1>b, <2>3, <4>1
    <3>5. ASSUME NEW x \in Nat, Seen' <= x, x < NumQubits'
          PROVE  qubits'[x] = x + 1
      <4>1. x # id /\ x \in NumQubits .. 2 * NumQubits - 1 /\ x \in 0 .. 2 * NumQubits - 1
        BY <1>a, <2>1, <2>2, <3>1, <3>5
      <4>2. qubits'[x] = GrownQubits[x]
        BY <2>1, <3>2, <4>1
      <4> QED  BY <3>2, <4>1, <4>2
    <3> QED  BY <3>1, <3>3, <3>4, <3>5 DEF FreshInv
  <2> QED  BY <1>a, <2>1, <2>2, <2>4
<1> QED  BY <1>1, <1>2

\* A released id was seen, and becomes the head.
LEMMA ReleaseFresh ==
    ASSUME EncourageReuse, PoolInv, FreshInv, NEW id \in Nat, Mark(id) # 0, ReleaseOne(id),
           id < Seen, qubitmap' \in Seq(BOOLEAN), Seen' = Seen
    PROVE  FreshInv'
<1>1. /\ free' = id /\ NumQubits' = NumQubits /\ qubits' = [qubits EXCEPT ![id] = free]
  BY DEF ReleaseOne, PushFree, DropFree, AppendFree
<1>2. \A x \in Nat : Mark(x)' = IF x = id THEN 0 ELSE Mark(x)
  BY ReleaseOneEffect
<1>3. Seen \in Nat /\ Seen <= NumQubits /\ NumQubits \in Nat /\ Ids = 0 .. NumQubits - 1
      /\ qubits \in [Ids -> Nat] /\ free \in Nat /\ free <= Seen
  BY LiveMeaning DEF PoolInv, PoolTyping, FreshInv, Ids
<1>4. \A x \in Ids : qubits'[x] = IF x = id THEN free ELSE qubits[x]
  BY <1>1, <1>3
<1>5. ASSUME NEW x \in Nat, x < Seen, Mark(x)' = 0
      PROVE  qubits'[x] <= Seen
  <2>1. x \in Ids
    BY <1>3, <1>5
  <2>2. x # id => qubits[x] <= Seen
    BY <1>2, <1>5 DEF FreshInv
  <2> QED  BY <1>3, <1>4, <2>1, <2>2
<1>6. ASSUME NEW x \in Nat, Seen <= x, x < NumQubits
      PROVE  qubits'[x] = x + 1
  <2>1. x \in Ids /\ x # id /\ qubits[x] = x + 1
    BY <1>3, <1>6 DEF FreshInv
  <2> QED  BY <1>4, <2>1
<1>7. free' <= Seen
  BY <1>1, <1>3
<1> QED  BY <1>1, <1>3, <1>5, <1>6, <1>7 DEF FreshInv

\* A busy id may change its marker: it has been seen.
LEMMA RemarkFresh ==
    ASSUME PoolInv, FreshInv, NEW id \in Nat, Mark(id) # 0, Mark(id)' # 0,
           \A x \in Nat : x # id => Mark(x)' = Mark(x),
           qubits' = qubits \/ \E marker : qubits' = [qubits EXCEPT ![id] = marker],
           UNCHANGED <<NumQubits, free, qubitmap>>
    PROVE  FreshInv'
<1>1. Seen \in Nat /\ Seen <= NumQubits /\ NumQubits \in Nat /\ Ids = 0 .. NumQubits - 1
      /\ qubits \in [Ids -> Nat] /\ PoolTyping /\ Seen' = Seen
  BY LiveMeaning DEF PoolInv, PoolTyping, FreshInv, Ids, Seen
<1>2. \A x \in Ids : x # id => qubits'[x] = qubits[x]
  BY <1>1
<1>3. ASSUME NEW x \in Nat, x < Seen, Mark(x)' = 0
      PROVE  qubits'[x] <= Seen
  <2>1. x \in Ids /\ x # id /\ Mark(x) = 0
    BY <1>1, <1>3
  <2> QED  BY <1>2, <1>3, <2>1 DEF FreshInv
<1>4. ASSUME NEW x \in Nat, Seen <= x, x < NumQubits
      PROVE  qubits'[x] = x + 1
  <2>1. x \in Ids /\ qubits[x] = x + 1
    BY <1>1, <1>4 DEF FreshInv
  <2>2. Mark(x) = 0
    BY <1>1, <2>1 DEF Mark, IsFree, Allocated, AllocatedAt
  <2> QED  BY <1>2, <2>1, <2>2
<1> QED  BY <1>1, <1>3, <1>4 DEF FreshInv

-----------------------------------------------------------------------------
(* What frames own                                                          *)

\* A change of the top frame changes what is owned by what the top frame owns.
LEMMA UsedTop ==
    ASSUME Typing, NEW locals, NEW used, NEW lent, NEW lost,
           TopBecomes(locals, used, lent, lost)
    PROVE  /\ FrameUsed' \subseteq FrameUsed \cup used
           /\ Top.used \subseteq FrameUsed
<1>1. Depth' = Depth /\ Depth \in 1 .. Depth /\ Top = operationStack[Depth] /\ Top.used \subseteq Nat
  BY Fields DEF TopBecomes
<1>2. \A i \in 1 .. Depth :
        operationStack'[i].used = IF i = Depth THEN used ELSE operationStack[i].used
  BY DEF TopBecomes
<1>3. FrameUsed' = {x \in Nat : \E i \in 1 .. Depth : x \in operationStack'[i].used}
  BY <1>1 DEF FrameUsed
<1>4. FrameUsed' \subseteq FrameUsed \cup used
  BY <1>2, <1>3 DEF FrameUsed
<1>5. Top.used \subseteq FrameUsed
  BY <1>1 DEF FrameUsed
<1> QED  BY <1>4, <1>5

\* Only ids marked allocated or disabled are owned.
LEMMA UsedMarks ==
    ASSUME OwnInv, NEW x \in FrameUsed
    PROVE  Mark(x) \in {1, 2}
<1>1. PICK i \in 1 .. Depth : x \in operationStack[i].used
  BY DEF FrameUsed
<1>2. i \in Owners(x) /\ x \in Nat
  BY <1>1 DEF Owners, Depth, FrameUsed
<1> QED  BY <1>2 DEF OwnInv

\* What the top frame gives up, no frame owns any more.
LEMMA UsedGivenUp ==
    ASSUME IInv, NEW id \in Top.used, NEW locals, NEW lent, NEW lost,
           TopBecomes(locals, Top.used \ {id}, lent, lost)
    PROVE  FrameUsed' \subseteq FrameUsed \ {id}
<1>1. Typing /\ OwnInv /\ Depth' = Depth /\ Depth \in 1 .. Depth /\ Top = operationStack[Depth]
      /\ Top.used \subseteq Nat
  BY Fields DEF TopBecomes, IInv
<1>2. \A i \in 1 .. Depth : operationStack'[i].used =
        IF i = Depth THEN Top.used \ {id} ELSE operationStack[i].used
  BY DEF TopBecomes
<1>3. FrameUsed' = {x \in Nat : \E i \in 1 .. Depth : x \in operationStack'[i].used}
  BY <1>1 DEF FrameUsed
<1>4. \A i \in 1 .. Depth : id \in operationStack[i].used => i = Depth
  <2>1. id \in Nat /\ Depth \in Owners(id)
    BY <1>1 DEF Owners, Depth
  <2>2. \A i \in 1 .. Depth : id \in operationStack[i].used => i \in Owners(id)
    BY DEF Owners, Depth
  <2> QED  BY <1>1, <2>1, <2>2 DEF OwnInv
<1>5. id \notin FrameUsed'
  BY <1>2, <1>3, <1>4
<1>6. FrameUsed' \subseteq FrameUsed
  BY <1>1, <1>2, <1>3 DEF FrameUsed
<1> QED  BY <1>5, <1>6

\* Calls and returns own nothing new.
LEMMA UsedFrames ==
    ASSUME Typing, \/ \E args \in SUBSET Nat : OnOperationStart(args)
                   \/ OnOperationEnd \/ Fail
    PROVE  FrameUsed' \subseteq FrameUsed
<1>1. operationStack \in Seq(Frames) /\ Depth \in Nat \ {0}
  BY Fields DEF Typing
<1>2. ASSUME NEW args \in SUBSET Nat, OnOperationStart(args)
      PROVE  FrameUsed' \subseteq FrameUsed
  <2>1. Frame(args) \in Frames /\ operationStack' = Append(operationStack, Frame(args))
    BY <1>2, FrameType DEF OnOperationStart
  <2>2. /\ Depth' = Depth + 1 /\ operationStack'[Depth + 1] = Frame(args)
        /\ \A i \in 1 .. Depth : operationStack'[i] = operationStack[i]
    BY <1>1, <2>1, AppendProperties DEF Depth
  <2>3. Frame(args).used = {}
    BY DEF Frame
  <2>4. \A i \in 1 .. Depth' : i \in 1 .. Depth \/ i = Depth + 1
    BY <1>1, <2>2
  <2> QED  BY <2>2, <2>3, <2>4 DEF FrameUsed
<1>3. ASSUME NEW depth \in 1 .. Depth, PopTo(depth)
      PROVE  FrameUsed' \subseteq FrameUsed
  <2>1. operationStack' = SubSeq(operationStack, 1, depth)
    BY <1>3 DEF PopTo
  <2>2. Depth' = depth /\ \A i \in 1 .. depth : operationStack'[i] = operationStack[i]
    BY <1>1, <2>1, SubSeqProperties DEF Depth
  <2>3. \A i \in 1 .. depth : i \in 1 .. Depth
    BY <1>1
  <2> QED  BY <2>2, <2>3 DEF FrameUsed
<1>4. CASE OnOperationEnd
  <2>1. Depth - 1 \in 1 .. Depth /\ PopTo(Depth - 1)
    BY <1>1, <1>4 DEF OnOperationEnd, Depth
  <2> QED  BY <1>3, <2>1
<1>5. CASE Fail
  <2>1. 1 \in 1 .. Depth /\ PopTo(1)
    BY <1>1, <1>5 DEF Fail, Depth
  <2> QED  BY <1>3, <2>1
<1> QED  BY <1>2, <1>4, <1>5

-----------------------------------------------------------------------------
(* The pairing, over one step                                               *)

LEMMA LiveTaken ==
    ASSUME LiveInv, NEW id \in Nat, Mark(id) = 0, Mark(id)' # 0,
           \A x \in Nat : x # id => Mark(x)' = Mark(x),
           Live' = Live \cup {id}, num_qubits' = num_qubits + 1,
           FrameUsed' \subseteq Live \cup {id}
    PROVE  LiveInv'
<1>1. id \notin Live
  BY DEF LiveInv
<1>2. IsFiniteSet(Live') /\ num_qubits' = Cardinality(Live')
  BY <1>1, FS_AddElement DEF LiveInv
<1>3. \A x \in Nat : (x \in Live' => Mark(x)' # 0) /\ (Mark(x)' \notin {0, 2} => x \in Live')
  BY DEF LiveInv
<1> QED  BY <1>2, <1>3 DEF LiveInv

LEMMA LiveFreed ==
    ASSUME LiveInv, NEW id \in Nat, Mark(id)' \in {0, 2},
           \A x \in Nat : x # id => Mark(x)' = Mark(x),
           id \in Live, Live' = Live \ {id}, num_qubits' = num_qubits - 1,
           FrameUsed' \subseteq FrameUsed \ {id}
    PROVE  LiveInv'
<1>1. IsFiniteSet(Live') /\ num_qubits' = Cardinality(Live')
  BY FS_RemoveElement DEF LiveInv
<1>2. \A x \in Nat : (x \in Live' => Mark(x)' # 0) /\ (Mark(x)' \notin {0, 2} => x \in Live')
  BY DEF LiveInv
<1> QED  BY <1>1, <1>2 DEF LiveInv

LEMMA LiveKept ==
    ASSUME LiveInv, UNCHANGED nativeVars, FrameUsed' \subseteq FrameUsed,
           \A x \in Nat : (Mark(x)' = 0 => Mark(x) = 0)
                          /\ (Mark(x)' \notin {0, 2} => Mark(x) \notin {0, 2})
    PROVE  LiveInv'
<1>1. Live' = Live /\ num_qubits' = num_qubits
  BY DEF nativeVars, Live
<1> QED  BY <1>1 DEF LiveInv

\* A qubit the manager allocates is given a position under its own id.
LEMMA PairTaken ==
    ASSUME EncourageReuse, IInv, NativeInv, NEW id \in Nat, NEW b \in BOOLEAN,
           AllocateOne(id, b), AllocateOneNative(id), FrameUsed' \subseteq Live \cup {id}
    PROVE  NativeInv'
<1>1. PoolInv /\ FreshInv /\ LiveInv /\ qubitmap \in Seq(BOOLEAN)
  BY DEF IInv, NativeInv, FreshInv
<1>2. id <= Seen /\ FreshInv'
  BY <1>1, AllocateFresh
<1>3. Live' = Live \cup {id} /\ num_qubits' = num_qubits + 1
  BY <1>1, <1>2, AllocateNative
<1>4. /\ Mark(id) = 0 /\ Mark(id)' # 0
      /\ \A x \in Nat : x # id => Mark(x)' = Mark(x)
  BY <1>1, AllocateOneEffect
<1> QED  BY <1>1, <1>2, <1>3, <1>4, LiveTaken DEF NativeInv

\* A qubit the manager releases loses its position.
LEMMA PairFreed ==
    ASSUME EncourageReuse, IInv, NativeInv, NEW id \in Nat, Mark(id) \notin {0, 2},
           ReleaseOne(id), ReleaseOneNative(id), FrameUsed' \subseteq FrameUsed \ {id}
    PROVE  NativeInv'
<1>1. PoolInv /\ FreshInv /\ LiveInv /\ qubitmap \in Seq(BOOLEAN) /\ id \in Live
  BY DEF IInv, NativeInv, FreshInv, LiveInv
<1>2. /\ qubitmap' \in Seq(BOOLEAN) /\ Seen' = Seen
      /\ Live' = Live \ {id} /\ num_qubits' = num_qubits - 1
  BY <1>1, ReleaseNative
<1>3. id < Seen
  BY <1>1, LiveMeaning
<1>4. FreshInv'
  BY <1>1, <1>2, <1>3, ReleaseFresh
<1>5. \A x \in Nat : Mark(x)' = IF x = id THEN 0 ELSE Mark(x)
  BY <1>1, ReleaseOneEffect
<1> QED  BY <1>1, <1>2, <1>4, <1>5, LiveFreed DEF NativeInv

\* A busy qubit whose marker changes to another that is not free stays as it is in the library.
LEMMA PairRemarked ==
    ASSUME IInv, NativeInv, NEW id \in Nat, NEW mark \in Nat \ {0}, Mark(id) \notin {0, 2},
           MarkBecomes(id, mark),
           qubits' = qubits \/ \E marker : qubits' = [qubits EXCEPT ![id] = marker],
           UNCHANGED <<NumQubits, free>>, UNCHANGED nativeVars, FrameUsed' \subseteq FrameUsed
    PROVE  NativeInv'
<1>1. PoolInv /\ FreshInv /\ LiveInv /\ UNCHANGED qubitmap
  BY DEF IInv, NativeInv, nativeVars
<1>2. Mark(id)' = mark /\ \A x \in Nat : x # id => Mark(x)' = Mark(x)
  BY DEF MarkBecomes
<1>3. FreshInv'
  BY <1>1, <1>2, RemarkFresh
<1>4. LiveInv'
  BY <1>1, <1>2, LiveKept
<1> QED  BY <1>3, <1>4 DEF NativeInv

\* What leaves the pool and the library alone and gives no frame anything keeps the pairing.
LEMMA PairKept ==
    ASSUME IInv, NativeInv, UNCHANGED poolVars, UNCHANGED nativeVars,
           FrameUsed' \subseteq FrameUsed
    PROVE  NativeInv'
<1>1. SameMarks /\ PoolInv /\ FreshInv /\ LiveInv
  BY PoolUnchanged DEF IInv, NativeInv
<1>2. FreshInv'
  BY <1>1 DEF FreshInv, SameMarks, poolVars, nativeVars, Seen
<1>3. LiveInv'
  BY <1>1, LiveKept DEF SameMarks
<1> QED  BY <1>2, <1>3 DEF NativeInv

\* Every step of the simulator is one of the manager.
LEMMA NativeStepIsStep ==
    ASSUME IInv, NativeNext
    PROVE  Next
<1>1. NumQubits \in Nat /\ \A id \in Ids : id \in 0 .. 2 * NumQubits
  BY DEF IInv, PoolInv, PoolTyping, Ids
<1> QED  BY <1>1 DEF NativeNext, Next, AllocateQubit, BorrowQubit, ReleaseQubit, ReturnQubit,
            RollbackQubit, ManagerOnly

\* Every step keeps ids and native qubits paired.
LEMMA NativeStep ==
    ASSUME EncourageReuse, IInv, NativeInv, NativeNext
    PROVE  NativeInv'
<1>a. Typing /\ OwnInv /\ CallInv /\ PoolInv /\ PoolTyping /\ LiveInv /\ FrameUsed \subseteq Live
      /\ NumQubits \in Nat
  BY DEF IInv, PoolInv, PoolTyping, NativeInv, LiveInv
<1>b. ASSUME NEW locals, NEW lent, NEW lost, TopBecomes(locals, Top.used, lent, lost)
      PROVE  FrameUsed' \subseteq FrameUsed
  BY <1>a, <1>b, UsedTop
<1>c. BusyIds = Busy
  BY <1>a, MarkedSets
<1>1. ASSUME NEW id \in Nat, AllocateQubit(id)
      PROVE  NativeInv'
  <2>1. CASE AllocateNext(id) /\ AllocateOneNative(id)
    <3>1. \E used : /\ used \subseteq Top.used \cup Range(call.got) \cup {id}
                    /\ \E locals, lent, lost : TopBecomes(locals, used, lent, lost)
      BY <2>1, AllocateNextEffect
    <3>2. call.op = "allocate" /\ AllocateOne(id, FALSE)
      BY <2>1 DEF AllocateNext, Taking
    <3>3. Range(call.got) \subseteq Live
      <4>1. Range(call.got) \subseteq Nat /\ \A x \in Range(call.got) : Mark(x) = 1
        BY <1>a, <3>2, CallFields DEF CallInv
      <4> QED  BY <1>a, <4>1 DEF LiveInv
    <3>4. FrameUsed' \subseteq Live \cup {id}
      BY <1>a, <3>1, <3>3, UsedTop
    <3> QED  BY <2>1, <3>2, <3>4, PairTaken
  <2>2. CASE BorrowAllocates(id) /\ AllocateOneNative(id)
    <3>1. \E locals, lent, lost : TopBecomes(locals, Top.used, lent, lost)
      BY <2>2, BorrowAllocatesEffect
    <3>2. AllocateOne(id, TRUE)
      BY <2>2 DEF BorrowAllocates
    <3>3. FrameUsed' \subseteq Live \cup {id}
      BY <1>a, <1>b, <3>1
    <3> QED  BY <2>2, <3>2, <3>3, PairTaken
  <2>3. CASE BorrowSingle(id) /\ id \notin BusyIds /\ AllocateOneNative(id)
    <3>1. \E locals, lent, lost : TopBecomes(locals, Top.used, lent, lost)
      BY <2>3, BorrowSingleEffect
    <3>2. AllocateOne(id, FALSE)
      BY <2>3 DEF BorrowSingle, Lowest
    <3>3. FrameUsed' \subseteq Live \cup {id}
      BY <1>a, <1>b, <3>1
    <3> QED  BY <2>3, <3>2, <3>3, PairTaken
  <2> QED  BY <1>1, <2>1, <2>2, <2>3 DEF AllocateQubit
<1>2. ASSUME NEW id \in Nat, BorrowQubit(id)
      PROVE  NativeInv'
  <2>1. /\ Mark(id) \notin {0, 2} /\ MarkBecomes(id, Shared(Mark(id)))
        /\ \E locals, lent, lost : TopBecomes(locals, Top.used, lent, lost)
        /\ UNCHANGED nativeVars
        /\ qubits' = IF IsAllocatedForBorrowing(id) THEN [qubits EXCEPT ![id] = @ + 1] ELSE qubits
        /\ UNCHANGED <<NumQubits, free>>
    <3>1. CASE BorrowNext(id) /\ UNCHANGED nativeVars
      BY <3>1, BorrowNextEffect DEF BorrowNext
    <3>2. CASE BorrowSingle(id) /\ id \in BusyIds /\ UNCHANGED nativeVars
      <4>1. Mark(id) \notin {0, 2}
        BY <1>c, <3>2 DEF Busy
      <4>2. ~AllocateOne(id, FALSE)
        BY <1>a, <4>1, AllocateOneEffect
      <4>3. MarkBecomes(id, Shared(Mark(id)))
            /\ \E locals, lent, lost : TopBecomes(locals, Top.used, lent, lost)
        BY <3>2, <4>1, BorrowSingleEffect
      <4> QED  BY <3>2, <4>1, <4>2, <4>3 DEF BorrowSingle
    <3> QED  BY <1>2, <3>1, <3>2 DEF BorrowQubit
  <2>2. Shared(Mark(id)) \in Nat \ {0}
    BY <1>a, <2>1, MarkMeaning DEF Shared
  <2>3. FrameUsed' \subseteq FrameUsed
    BY <1>b, <2>1
  <2>4. qubits' = qubits \/ \E marker : qubits' = [qubits EXCEPT ![id] = marker]
    BY <2>1
  <2> QED  BY <2>1, <2>2, <2>3, <2>4, PairRemarked
<1>3. ASSUME NEW id \in Nat, ReleaseQubit(id)
      PROVE  NativeInv'
  <2>1. Release(id) /\ ReleaseOneNative(id) /\ id \in Top.used
    BY <1>3 DEF ReleaseQubit, Release
  <2>2. FrameUsed' \subseteq FrameUsed \ {id} /\ id \in FrameUsed
    <3>1. \E locals, lent, lost : TopBecomes(locals, Top.used \ {id}, lent, lost)
      BY <2>1, ReleaseEffect
    <3> QED  BY <1>a, <2>1, <3>1, UsedGivenUp, UsedTop
  <2>3. CASE IsDisabled(id)
    <3>1. UNCHANGED poolVars /\ SameMarks
      BY <1>a, <2>1, <2>3, PoolUnchanged DEF Release
    <3>2. Mark(id) = 2
      <4>1. Mark(id) \in {1, 2}
        BY <1>a, <2>2, UsedMarks
      <4>2. id \in Ids
        BY <1>a, <4>1, MarkMeaning
      <4> QED  BY <1>a, <2>3, <4>2, MarkMeaning
    <3>3. id \in Live /\ qubitmap \in Seq(BOOLEAN)
      BY <1>a, <2>2 DEF NativeInv, FreshInv
    <3>4. /\ qubitmap' \in Seq(BOOLEAN) /\ Seen' = Seen
          /\ Live' = Live \ {id} /\ num_qubits' = num_qubits - 1
      BY <2>1, <3>3, ReleaseNative
    <3>5. FreshInv'
      BY <3>1, <3>4 DEF NativeInv, FreshInv, SameMarks, poolVars
    <3>6. LiveInv'
      BY <1>a, <2>2, <3>1, <3>2, <3>3, <3>4, LiveFreed DEF SameMarks
    <3> QED  BY <3>5, <3>6 DEF NativeInv
  <2>4. CASE ~IsDisabled(id)
    <3>1. ReleaseOne(id)
      BY <2>1, <2>4 DEF Release
    <3>2. Mark(id) \notin {0, 2}
      <4>1. Mark(id) \in {1, 2}
        BY <1>a, <2>2, UsedMarks
      <4>2. id \in Ids
        BY <1>a, <4>1, MarkMeaning
      <4> QED  BY <1>a, <2>4, <4>1, <4>2, MarkMeaning
    <3> QED  BY <2>1, <2>2, <3>1, <3>2, PairFreed
  <2> QED  BY <2>3, <2>4
<1>4. ASSUME NEW id \in Nat, ReturnQubit(id)
      PROVE  NativeInv'
  <2>1. /\ Return(id) /\ Mark(id) # 0 /\ MarkBecomes(id, Unshared(Mark(id)))
        /\ \E locals, lent, lost : TopBecomes(locals, Top.used, lent, lost)
    BY <1>4, ReturnEffect DEF ReturnQubit
  <2>2. /\ FrameUsed' \subseteq FrameUsed /\ id \in Ids /\ Mark(id) \in Nat
        /\ (qubits[id] = AllocatedForBorrowing <=> Mark(id) = 3)
        /\ (IsAllocatedForBorrowing(id) <=> Mark(id) >= 3)
    <3>1. id \in Ids /\ Mark(id) \in Nat /\ Mark(id) = qubits[id] - NumQubits
          /\ (IsAllocatedForBorrowing(id) <=> Mark(id) >= 3)
      BY <1>a, <2>1, MarkMeaning
    <3>2. qubits[id] \in Nat
      BY <1>a, <3>1 DEF PoolTyping
    <3>3. qubits[id] = AllocatedForBorrowing <=> Mark(id) = 3
      BY <1>a, <3>1, <3>2 DEF AllocatedForBorrowing, AllocatedForBorrowingAt
    <3> QED  BY <1>b, <2>1, <3>1, <3>3
  <2>3. CASE Mark(id) = 3
    <3>1. ReleaseOne(id) /\ ReleaseOneNative(id)
      BY <1>4, <2>1, <2>2, <2>3 DEF ReturnQubit, Return
    <3>2. id \notin FrameUsed
      BY <1>a, <2>3, UsedMarks
    <3>3. FrameUsed' \subseteq FrameUsed \ {id}
      BY <2>2, <3>2
    <3> QED  BY <2>3, <3>1, <3>3, PairFreed
  <2>4. CASE Mark(id) # 3
    <3>1. /\ qubits' = IF IsAllocatedForBorrowing(id) THEN [qubits EXCEPT ![id] = @ - 1] ELSE qubits
          /\ UNCHANGED <<NumQubits, NumAllocatedQubits, NumDisabledQubits, free, freeTail>>
          /\ UNCHANGED nativeVars
      BY <1>4, <2>1, <2>2, <2>4 DEF ReturnQubit, Return
    <3>2. CASE Mark(id) = 2
      <4>1. UNCHANGED poolVars
        BY <2>2, <3>1, <3>2 DEF poolVars
      <4> QED  BY <2>2, <3>1, <4>1, PairKept
    <3>3. CASE Mark(id) # 2
      <4>1. Unshared(Mark(id)) \in Nat \ {0}
        BY <2>1, <2>2, <2>4 DEF Unshared
      <4>2. qubits' = qubits \/ \E marker : qubits' = [qubits EXCEPT ![id] = marker]
        BY <3>1
      <4> QED  BY <2>1, <2>2, <3>1, <3>3, <4>1, <4>2, PairRemarked
    <3> QED  BY <3>2, <3>3
  <2> QED  BY <2>3, <2>4
<1>5. ASSUME RollbackQubit
      PROVE  NativeInv'
  <2>1. PICK h : h = Head(call.got)
    OBVIOUS
  <2>2. /\ h \in Nat /\ h \in Range(call.got) /\ call.op # "idle"
        /\ ReleaseOne(h) /\ ReleaseOneNative(h)
        /\ \E locals, lent, lost : TopBecomes(locals, Top.used, lent, lost)
    BY <1>5, <2>1, RollbackNextEffect DEF RollbackQubit, RollbackNext
  <2>3. Mark(h) \in {1, 3}
    BY <2>2, UndoneIsNotReached
  <2>4. h \notin FrameUsed
    <3>1. CASE call.op = "borrow"
      <4>1. Mark(h) = 3
        BY <1>a, <2>2, <3>1 DEF CallInv
      <4> QED  BY <1>a, <4>1, UsedMarks
    <3>2. CASE call.op = "allocate"
      <4>1. Calling \in Owners(h)
        BY <2>2, <3>2 DEF Owners
      <4>2. \A i \in 1 .. Depth : h \in operationStack[i].used => i \in Owners(h)
        BY DEF Owners, Depth
      <4>3. \A i \in 1 .. Depth : i # Calling
        BY DEF Calling
      <4> QED  BY <1>a, <2>2, <4>1, <4>2, <4>3 DEF OwnInv, FrameUsed
    <3> QED  BY <1>a, <2>2, <3>1, <3>2 DEF Typing, CallShape
  <2>5. FrameUsed' \subseteq FrameUsed \ {h}
    BY <1>b, <2>2, <2>4
  <2> QED  BY <2>2, <2>3, <2>5, PairFreed
<1>6. ASSUME ManagerOnly
      PROVE  NativeInv'
  <2>0. UNCHANGED nativeVars
    BY <1>6 DEF ManagerOnly
  <2>1. ASSUME NEW id \in Ids, Disable(id)
        PROVE  NativeInv'
    <3>1. id \in Nat
      BY <1>a DEF Ids
    <3>2. /\ Mark(id) \notin {0, 2} /\ MarkBecomes(id, 2) /\ UNCHANGED operationStack
          /\ qubits' = [qubits EXCEPT ![id] = Disabled] /\ UNCHANGED <<NumQubits, free>>
      BY <2>1, <3>1, DisableEffect DEF Disable
    <3>3. FrameUsed' \subseteq FrameUsed
      BY <3>2 DEF FrameUsed, Depth
    <3>4. \E marker : qubits' = [qubits EXCEPT ![id] = marker]
      BY <3>2, Zenon
    <3>5. 2 \in Nat \ {0}
      OBVIOUS
    <3> QED  BY <2>0, <3>1, <3>2, <3>3, <3>4, <3>5, PairRemarked
  <2>2. CASE \/ \E n \in 1 .. MaxRequest : BeginAllocate(n) \/ BeginBorrow(n)
             \/ AllocateFails
    <3>1. UNCHANGED <<poolVars, operationStack>>
      BY <2>2 DEF BeginAllocate, BeginBorrow, AllocateFails
    <3>2. FrameUsed' \subseteq FrameUsed
      BY <3>1 DEF FrameUsed, Depth
    <3> QED  BY <2>0, <3>1, <3>2, PairKept
  <2>3. CASE BorrowFails
    <3>1. UNCHANGED poolVars
      BY <2>3 DEF BorrowFails
    <3>2. UNCHANGED operationStack
          \/ \E locals, lent, lost : TopBecomes(locals, Top.used, lent, lost)
      BY <2>3, BorrowFailsEffect
    <3>3. FrameUsed' \subseteq FrameUsed
      BY <1>b, <3>2 DEF FrameUsed, Depth
    <3> QED  BY <2>0, <3>1, <3>3, PairKept
  <2>4. CASE (\E args \in SUBSET Ids : OnOperationStart(args)) \/ OnOperationEnd \/ Fail
    <3>1. UNCHANGED poolVars
      BY <2>4 DEF OnOperationStart, OnOperationEnd, Fail, PopTo
    <3>2. (\E args \in SUBSET Nat : OnOperationStart(args)) \/ OnOperationEnd \/ Fail
      BY <1>a, <2>4 DEF Ids
    <3>3. FrameUsed' \subseteq FrameUsed
      BY <1>a, <3>2, UsedFrames
    <3> QED  BY <2>0, <3>1, <3>3, PairKept
  <2> QED  BY <1>6, <2>1, <2>2, <2>3, <2>4 DEF ManagerOnly
<1>7. \A id \in 0 .. 2 * NumQubits : id \in Nat
  BY <1>a
<1> QED  BY <1>1, <1>2, <1>3, <1>4, <1>5, <1>6, <1>7 DEF NativeNext

-----------------------------------------------------------------------------
(* The theorem                                                              *)

\* The overrides of QSimQubitManager call the base class first and change nothing of it, so a
\* native simulator's manager is a qubit manager: what QubitManagerProofs proves of Spec
\* holds of NativeSpec.
THEOREM NativeManagerIsManager == NativeSpec => Spec
<1>1. NativeInit => Init /\ IInv
  BY InitialInvariant DEF NativeInit
<1>2. IInv /\ [NativeNext]_<<vars, nativeVars>> => [Next]_vars /\ IInv'
  BY NativeStepIsStep, InvariantStep
<1> QED  BY <1>1, <1>2, PTL DEF NativeSpec, Spec

\* Under a manager that reuses its qubits, as the one of the native simulators does, every
\* busy id names a native qubit of its own and every free one none, over every allocation,
\* doubling of the capacity, rollback, borrow, return, disabled qubit and failure
\* (CommonNativeSimulator/QubitManager.cs:43-105, wavefunction.hpp:515-533).
THEOREM IdsNameNativeQubits == EncourageReuse => (NativeSpec => []NativePaired)
<1> SUFFICES ASSUME EncourageReuse
             PROVE  NativeSpec => []NativePaired
  OBVIOUS
<1>1. NativeInit => NativeInv
  <2> SUFFICES ASSUME NativeInit
               PROVE  NativeInv
    OBVIOUS
  <2>1. /\ \A x \in Nat : Mark(x) = 0
        /\ NumQubits = Capacity /\ qubits = [id \in 0 .. Capacity - 1 |-> id + 1] /\ free = 0
        /\ operationStack = <<Frame({})>> /\ qubitmap = <<>> /\ num_qubits = 0 /\ Capacity \in Nat
    BY InitialPool, ConstantsAssumption DEF NativeInit, Init
  <2>2. qubitmap \in Seq(BOOLEAN) /\ Seen = 0
    BY <2>1 DEF Seen
  <2>3. FreshInv
    BY <2>1, <2>2 DEF FreshInv
  <2>4. Live = {}
    <3>1. Live \subseteq Nat /\ \A x \in Nat : x \in Live => x < Seen
      BY <2>2, LiveMeaning
    <3>2. \A x \in Nat : ~(x < Seen)
      BY <2>2
    <3> QED  BY <3>1, <3>2
  <2>5. FrameUsed = {}
    BY <2>1 DEF FrameUsed, Depth, Frame
  <2>6. LiveInv
    BY <2>1, <2>4, <2>5, FS_EmptySet DEF LiveInv
  <2> QED  BY <2>3, <2>6 DEF NativeInv
<1>2. IInv /\ NativeInv /\ [NativeNext]_<<vars, nativeVars>> => NativeInv'
  <2> SUFFICES ASSUME IInv, NativeInv, [NativeNext]_<<vars, nativeVars>>
               PROVE  NativeInv'
    OBVIOUS
  <2>1. CASE UNCHANGED <<vars, nativeVars>>
    <3>1. UNCHANGED poolVars /\ UNCHANGED nativeVars /\ FrameUsed' \subseteq FrameUsed
      BY <2>1 DEF vars, FrameUsed, Depth
    <3> QED  BY <3>1, PairKept
  <2> QED  BY <2>1, NativeStep
<1>3. IInv /\ NativeInv => NativePaired
  <2> SUFFICES ASSUME IInv, NativeInv
               PROVE  NativePaired
    OBVIOUS
  <2>1. BusyIds = Busy /\ DisabledIds = Marked({2}) /\ Live \subseteq Nat
    BY MarkedSets, LiveMeaning DEF IInv, PoolInv, NativeInv, FreshInv
  <2>2. Busy \subseteq Live /\ Live \subseteq Busy \cup Marked({2})
    BY <2>1 DEF Busy, Marked, NativeInv, LiveInv
  <2> QED  BY <2>1, <2>2 DEF NativePaired, NativeInv, LiveInv
<1> QED  BY <1>1, <1>2, <1>3, NativeManagerIsManager, Invariance, PTL DEF NativeSpec
=============================================================================
