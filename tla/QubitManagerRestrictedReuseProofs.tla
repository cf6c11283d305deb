---------------- MODULE QubitManagerRestrictedReuseProofs -----------------
(***************************************************************************)
(* Theorems about QubitManagerRestrictedReuse, for any capacity and any    *)
(* nesting of areas: what the lists hold, what is counted, and that reuse  *)
(* is restricted as the areas say.  They are about the configurations in   *)
(* which a released qubit does not go to the back of a list: there the     *)
(* last pointer goes stale, as LastElementIsLast shows.                    *)
(***************************************************************************)
EXTENDS QubitManagerRestrictedReuse, FiniteSetTheorems, SequenceTheorems,
        WellFoundedInduction, TLAPS

\* No configuration is of a fixed capacity and puts released qubits at the back.
NoneToTheBack == \A c \in Configurations : c.EncourageReuse \/ c.MayExtendCapacity

Statuses == Nat \cup {None, Allocated, Disabled}

LEMMA SpecialEntries ==
    /\ None \notin Nat /\ Allocated \notin Nat /\ Disabled \notin Nat
    /\ None # Allocated /\ None # Disabled /\ Allocated # Disabled
<1>1. /\ None \notin Nat /\ Allocated \notin Nat /\ Disabled \notin Nat
      /\ Cardinality({None, Allocated, Disabled}) = 3
  BY ConstantsAssumption DEF ConstantsAssumption
<1>2. \A x, y : Cardinality({x, y}) # 3
  <2>1. TAKE x, y
  <2>2. IsFiniteSet({x}) /\ Cardinality({x}) = 1
    BY FS_Singleton
  <2>3. Cardinality({x} \cup {y}) = IF y \in {x} THEN 1 ELSE 1 + 1
    BY <2>2, FS_AddElement
  <2>4. {x} \cup {y} = {x, y}
    OBVIOUS
  <2> QED  BY <2>3, <2>4
<1>3. {None, None, Disabled} = {None, Disabled} /\ {None, Allocated, None} = {None, Allocated}
      /\ {None, Allocated, Allocated} = {None, Allocated}
  OBVIOUS
<1>4. None # Allocated
  BY <1>1, <1>2, <1>3
<1>5. None # Disabled
  BY <1>1, <1>2, <1>3
<1>6. Allocated # Disabled
  BY <1>1, <1>2, <1>3
<1> QED  BY <1>1, <1>4, <1>5, <1>6

-----------------------------------------------------------------------------
(* One list                                                                 *)

\* The list, in this array, goes through s[1] to s[n], the elements of E.
ListAs(list, array, E, n, s) ==
    /\ n \in Nat /\ s \in [1 .. n -> E]
    /\ \A i, j \in 1 .. n : s[i] = s[j] => i = j
    /\ \A x \in E : \E i \in 1 .. n : s[i] = x
    /\ list = IF n = 0 THEN EmptyList ELSE [first |-> s[1], last |-> s[n]]
    /\ \A i \in 1 .. n : array[s[i]] = IF i = n THEN None ELSE s[i + 1]

IsList(list, array, E) == \E n, s : ListAs(list, array, E, n, s)

\* What is not on the list may change.
LEMMA ListFrame ==
    ASSUME NEW list, NEW E, NEW array, NEW other, IsList(list, array, E),
           \A x \in E : other[x] = array[x]
    PROVE  IsList(list, other, E)
<1>1. PICK n, s : ListAs(list, array, E, n, s)
  BY DEF IsList
<1>2. ListAs(list, other, E, n, s)
  BY <1>1 DEF ListAs
<1> QED  BY <1>2 DEF IsList

\* The ends of a list, and the entries of its elements.
LEMMA ListMeaning ==
    ASSUME NEW list, NEW E \in SUBSET Nat, NEW array, IsList(list, array, E)
    PROVE  /\ list \in [first : E \cup {None}, last : E \cup {None}]
           /\ IsEmpty(list) <=> E = {}
           /\ IsEmpty(list) => list = EmptyList
           /\ ~IsEmpty(list) => list.first \in E /\ list.last \in E /\ array[list.last] = None
           /\ \A x \in E : array[x] \in E \cup {None}
<1>1. PICK n, s : ListAs(list, array, E, n, s)
  BY DEF IsList
<1>2. None \notin Nat
  BY SpecialEntries
<1>3. \A x \in E : array[x] \in E \cup {None}
  BY <1>1 DEF ListAs
<1>4. CASE n = 0
  BY <1>1, <1>2, <1>3, <1>4 DEF ListAs, IsEmpty, EmptyList
<1>5. CASE n # 0
  <2>1. s[1] \in E /\ s[n] \in E /\ array[s[n]] = None /\ list = [first |-> s[1], last |-> s[n]]
    BY <1>1, <1>5 DEF ListAs
  <2> QED  BY <1>2, <1>3, <2>1 DEF IsEmpty
<1> QED  BY <1>4, <1>5

LEMMA EmptyIsList ==
    ASSUME NEW array
    PROVE  IsList(EmptyList, array, {})
<1>1. ListAs(EmptyList, array, {}, 0, [i \in 1 .. 0 |-> 0])
  BY DEF ListAs
<1> QED  BY <1>1 DEF IsList

\* The constructor, and growth, make a list of the new ids.
LEMMA NewMeaning ==
    ASSUME NEW low \in Nat, NEW high \in Nat, low <= high,
           NEW array \in [0 .. high -> Statuses]
    PROVE  /\ NewList(low, high, array).array \in [0 .. high -> Statuses]
           /\ \A x \in 0 .. high : x < low => NewList(low, high, array).array[x] = array[x]
           /\ IsList(NewList(low, high, array).list, NewList(low, high, array).array, low .. high)
<1> DEFINE new == NewList(low, high, array).array
           n == high - low + 1
           s == [i \in 1 .. n |-> low + i - 1]
<1>1. \A x \in 0 .. high : new[x] = IF x \in low .. high - 1 THEN x + 1
                                    ELSE IF x = high THEN None ELSE array[x]
  BY DEF NewList
<1>2. new \in [0 .. high -> Statuses]
  BY DEF NewList, Statuses
<1>3. ListAs([first |-> low, last |-> high], new, low .. high, n, s)
  <2>1. n \in Nat /\ n # 0 /\ s \in [1 .. n -> low .. high]
    OBVIOUS
  <2>2. \A x \in low .. high : x - low + 1 \in 1 .. n /\ s[x - low + 1] = x
    OBVIOUS
  <2>3. \A i \in 1 .. n : new[s[i]] = IF i = n THEN None ELSE s[i + 1]
    BY <1>1
  <2>4. s[1] = low /\ s[n] = high
    OBVIOUS
  <2>5. \A i, j \in 1 .. n : s[i] = s[j] => i = j
    OBVIOUS
  <2> HIDE DEF n, s, new
  <2>6. \A x \in low .. high : \E i \in 1 .. n : s[i] = x
    BY <2>2
  <2> QED  BY <2>1, <2>3, <2>4, <2>5, <2>6 DEF ListAs
<1>4. NewList(low, high, array).list = [first |-> low, last |-> high]
  BY DEF NewList
<1> QED  BY <1>1, <1>2, <1>3, <1>4 DEF IsList

\* Moving a list puts it in front of the other.
Movable(D, array, list, E, source, F) ==
    /\ D \subseteq Nat /\ array \in [D -> Statuses]
    /\ E \subseteq D /\ F \subseteq D /\ (\A x \in E : x \notin F)
    /\ IsList(list, array, E) /\ IsList(source, array, F)

LEMMA MoveMeaning ==
    ASSUME NEW D, NEW array, NEW list, NEW E, NEW source, NEW F,
           Movable(D, array, list, E, source, F)
    PROVE  /\ MoveAllQubitsFrom(list, source, array).array \in [D -> Statuses]
           /\ \A x \in D : x \notin F =>
                MoveAllQubitsFrom(list, source, array).array[x] = array[x]
           /\ IsList(MoveAllQubitsFrom(list, source, array).list,
                     MoveAllQubitsFrom(list, source, array).array, E \cup F)
<1> USE DEF Movable
<1> DEFINE moved == MoveAllQubitsFrom(list, source, array)
<1>1. /\ IsEmpty(list) <=> E = {}
      /\ IsEmpty(source) <=> F = {}
  BY ListMeaning
<1>2. CASE IsEmpty(source)
  <2>1. moved = [list |-> list, array |-> array] /\ E \cup F = E
    BY <1>1, <1>2 DEF MoveAllQubitsFrom
  <2> QED  BY <2>1
<1>3. CASE ~IsEmpty(source) /\ IsEmpty(list)
  <2>1. moved = [list |-> source, array |-> array] /\ E \cup F = F
    BY <1>1, <1>3 DEF MoveAllQubitsFrom
  <2> QED  BY <2>1
<1>4. CASE ~IsEmpty(source) /\ ~IsEmpty(list)
  <2>1. PICK n, s : ListAs(list, array, E, n, s)
    BY DEF IsList
  <2>2. PICK m, t : ListAs(source, array, F, m, t)
    BY DEF IsList
  <2>3. /\ n \in Nat /\ m \in Nat /\ n # 0 /\ m # 0
        /\ list = [first |-> s[1], last |-> s[n]] /\ source = [first |-> t[1], last |-> t[m]]
        /\ s \in [1 .. n -> E] /\ t \in [1 .. m -> F]
    BY <1>4, <2>1, <2>2 DEF ListAs, IsEmpty, EmptyList
  <2>4. moved = [list |-> [first |-> t[1], last |-> s[n]],
                 array |-> [array EXCEPT ![t[m]] = s[1]]]
    BY <1>4, <2>3 DEF MoveAllQubitsFrom
  <2>5. /\ t[m] \in F /\ s[1] \in E /\ s[1] \in Statuses
    <3>1. m \in 1 .. m /\ 1 \in 1 .. n
      BY <2>3
    <3>2. t[m] \in F /\ s[1] \in E
      BY <2>3, <3>1
    <3>3. s[1] \in Nat
      BY <3>2
    <3> QED  BY <3>2, <3>3 DEF Statuses
  <2>6. /\ moved.array \in [D -> Statuses]
        /\ \A x \in D : moved.array[x] = IF x = t[m] THEN s[1] ELSE array[x]
    <3>1. moved.array = [array EXCEPT ![t[m]] = s[1]]
      BY <2>4
    <3> HIDE DEF moved
    <3> QED  BY <2>5, <3>1
  <2> DEFINE u == [i \in 1 .. m + n |-> IF i <= m THEN t[i] ELSE s[i - m]]
  <2>7. ListAs(moved.list, moved.array, E \cup F, m + n, u)
    <3>1. m + n \in Nat /\ m + n # 0 /\ u \in [1 .. m + n -> E \cup F]
      BY <2>3
    <3>2. \A i, j \in 1 .. m + n : u[i] = u[j] => i = j
      <4>1. TAKE i, j \in 1 .. m + n
      <4>2. /\ \A k, l \in 1 .. n : s[k] = s[l] => k = l
            /\ \A k, l \in 1 .. m : t[k] = t[l] => k = l
            /\ \A k \in 1 .. n, l \in 1 .. m : s[k] # t[l]
        BY <2>1, <2>2, <2>3 DEF ListAs
      <4>3. /\ i <= m => i \in 1 .. m
            /\ j <= m => j \in 1 .. m
            /\ ~(i <= m) => i - m \in 1 .. n
            /\ ~(j <= m) => j - m \in 1 .. n
        BY <2>3
      <4> QED  BY <2>3, <4>2, <4>3
    <3>3. \A x \in E \cup F : \E i \in 1 .. m + n : u[i] = x
      <4>1. ASSUME NEW x \in F
            PROVE  \E i \in 1 .. m + n : u[i] = x
        <5>1. PICK i \in 1 .. m : t[i] = x
          BY <2>2 DEF ListAs
        <5>2. i \in 1 .. m + n /\ u[i] = x
          BY <2>3, <5>1
        <5> QED  BY <5>2
      <4>2. ASSUME NEW x \in E
            PROVE  \E i \in 1 .. m + n : u[i] = x
        <5>1. PICK i \in 1 .. n : s[i] = x
          BY <2>1 DEF ListAs
        <5>2. i + m \in 1 .. m + n /\ u[i + m] = x
          BY <2>3, <5>1
        <5> QED  BY <5>2
      <4> QED  BY <4>1, <4>2
    <3>4. u[1] = t[1] /\ u[m + n] = s[n]
      BY <2>3
    <3>5. \A i \in 1 .. m + n : moved.array[u[i]] = IF i = m + n THEN None ELSE u[i + 1]
      <4>1. TAKE i \in 1 .. m + n
      <4>2. /\ \A k \in 1 .. n : array[s[k]] = IF k = n THEN None ELSE s[k + 1]
            /\ \A k \in 1 .. m : array[t[k]] = IF k = m THEN None ELSE t[k + 1]
            /\ \A k \in 1 .. m : t[k] = t[m] => k = m
        BY <2>1, <2>2, <2>3 DEF ListAs
      <4>3. CASE i < m
        <5>1. i \in 1 .. m /\ i + 1 \in 1 .. m /\ i # m /\ i # m + n
          BY <2>3, <4>3
        <5>2. u[i] = t[i] /\ u[i + 1] = t[i + 1] /\ t[i] \in D /\ t[i] # t[m]
          <6>1. /\ u[i] = t[i] /\ u[i + 1] = t[i + 1] /\ t[i] \in D
            <7>1. i + 1 \in 1 .. m + n /\ i <= m /\ i + 1 <= m
              BY <2>3, <5>1
            <7>2. u[i] = t[i] /\ u[i + 1] = t[i + 1]
              BY <7>1
            <7>3. t[i] \in F
              BY <2>3, <5>1
            <7> QED  BY <7>2, <7>3
          <6>2. t[i] # t[m]
            BY <4>2, <5>1
          <6> QED  BY <6>1, <6>2
        <5> QED  BY <2>6, <4>2, <5>1, <5>2
      <4>4. CASE i = m
        <5>1. u[i] = t[m] /\ u[i + 1] = s[1] /\ i # m + n
          BY <2>3, <4>4
        <5> QED  BY <2>5, <2>6, <5>1
      <4>5. CASE i > m
        <5>1. i - m \in 1 .. n /\ (i = m + n <=> i - m = n) /\ u[i] = s[i - m]
          BY <2>3, <4>5
        <5>2. i # m + n => u[i + 1] = s[i - m + 1]
          BY <2>3, <4>5
        <5>3. s[i - m] \in D /\ s[i - m] # t[m]
          BY <2>3, <2>5, <5>1
        <5> QED  BY <2>6, <4>2, <5>1, <5>2, <5>3
      <4> QED  BY <2>3, <4>3, <4>4, <4>5
    <3> HIDE DEF u
    <3>6. moved.list = [first |-> u[1], last |-> u[m + n]]
      BY <2>4, <3>4
    <3> QED  BY <3>1, <3>2, <3>3, <3>5, <3>6 DEF ListAs
  <2>8. IsList(moved.list, moved.array, E \cup F)
    BY <2>7 DEF IsList
  <2> QED  BY <2>5, <2>6, <2>8
<1> QED  BY <1>2, <1>3, <1>4

\* The first element leaves; what its entry becomes makes no difference to the list.
LEMMA TakeMeaning ==
    ASSUME NEW D \in SUBSET Nat, NEW array \in [D -> Statuses], NEW E \in SUBSET D,
           NEW list, IsList(list, array, E), ~IsEmpty(list), NEW mark
    PROVE  /\ list.first \in E
           /\ IsList(TakeQubitFromFront(list, array), [array EXCEPT ![list.first] = mark],
                     E \ {list.first})
<1>1. PICK n, s : ListAs(list, array, E, n, s)
  BY DEF IsList
<1>2. /\ n \in Nat /\ n # 0 /\ s \in [1 .. n -> E]
      /\ list = [first |-> s[1], last |-> s[n]]
      /\ \A i, j \in 1 .. n : s[i] = s[j] => i = j
      /\ \A x \in E : \E i \in 1 .. n : s[i] = x
      /\ \A i \in 1 .. n : array[s[i]] = IF i = n THEN None ELSE s[i + 1]
  BY <1>1 DEF ListAs, IsEmpty, EmptyList
<1>3. 1 \in 1 .. n /\ s[1] \in E
  BY <1>2
<1> DEFINE rest == [i \in 1 .. n - 1 |-> s[i + 1]]
           after == [array EXCEPT ![list.first] = mark]
           left == TakeQubitFromFront(list, array)
<1>4. ListAs(left, after, E \ {list.first}, n - 1, rest)
  <2>1. \A i \in 1 .. n - 1 : /\ i + 1 \in 1 .. n /\ rest[i] = s[i + 1] /\ s[i + 1] # s[1]
                              /\ s[i + 1] \in D
    <3>1. TAKE i \in 1 .. n - 1
    <3>2. i + 1 \in 1 .. n /\ i + 1 # 1
      BY <1>2
    <3>3. s[i + 1] \in E /\ s[i + 1] # s[1]
      BY <1>2, <1>3, <3>2
    <3> QED  BY <3>2, <3>3
  <2>2. n - 1 \in Nat /\ rest \in [1 .. n - 1 -> E \ {list.first}]
    BY <1>2, <2>1
  <2>3. \A i, j \in 1 .. n - 1 : rest[i] = rest[j] => i = j
    BY <1>2, <2>1
  <2>4. \A x \in E \ {list.first} : \E i \in 1 .. n - 1 : rest[i] = x
    <3>1. TAKE x \in E \ {list.first}
    <3>2. PICK i \in 1 .. n : s[i] = x
      BY <1>2
    <3>3. i - 1 \in 1 .. n - 1 /\ rest[i - 1] = x
      BY <1>2, <3>2
    <3> QED  BY <3>3
  <2>5. \A i \in 1 .. n - 1 : after[rest[i]] = IF i = n - 1 THEN None ELSE rest[i + 1]
    BY <1>2, <2>1
  <2>6. left = IF n - 1 = 0 THEN EmptyList ELSE [first |-> rest[1], last |-> rest[n - 1]]
    <3>1. CASE n = 1
      BY <1>2, <1>3, <3>1 DEF TakeQubitFromFront
    <3>2. CASE n # 1
      <4>1. array[s[1]] = s[2] /\ s[2] \in E /\ s[2] # None
        <5>1. 1 \in 1 .. n /\ 2 \in 1 .. n
          BY <1>2, <3>2
        <5>2. array[s[1]] = s[2] /\ s[2] \in E
          BY <1>2, <3>2, <5>1
        <5>3. s[2] \in Nat
          BY <5>2
        <5> QED  BY <5>2, <5>3, SpecialEntries
      <4>2. left = [first |-> s[2], last |-> s[n]]
        BY <1>2, <4>1 DEF TakeQubitFromFront
      <4>3. rest[1] = s[2] /\ rest[n - 1] = s[n]
        BY <1>2, <3>2
      <4> QED  BY <1>2, <3>2, <4>2, <4>3
    <3> QED  BY <3>1, <3>2
  <2> HIDE DEF rest, after, left
  <2> QED  BY <2>2, <2>3, <2>4, <2>5, <2>6 DEF ListAs
<1> QED  BY <1>2, <1>3, <1>4 DEF IsList

\* A qubit that goes to the front of a list.
LEMMA AddMeaning ==
    ASSUME NEW D \in SUBSET Nat, NEW array \in [D -> Statuses], NEW E \in SUBSET D,
           NEW list, IsList(list, array, E), NEW id \in D, id \notin E, EncourageReuse
    PROVE  /\ AddQubit(list, id, array).array \in [D -> Statuses]
           /\ \A x \in D : x # id => AddQubit(list, id, array).array[x] = array[x]
           /\ IsList(AddQubit(list, id, array).list, AddQubit(list, id, array).array,
                     E \cup {id})
<1> DEFINE added == AddQubit(list, id, array)
<1>1. PICK n, s : ListAs(list, array, E, n, s)
  BY DEF IsList
<1>2. /\ n \in Nat /\ s \in [1 .. n -> E]
      /\ \A i, j \in 1 .. n : s[i] = s[j] => i = j
      /\ \A x \in E : \E i \in 1 .. n : s[i] = x
      /\ list = IF n = 0 THEN EmptyList ELSE [first |-> s[1], last |-> s[n]]
      /\ \A i \in 1 .. n : array[s[i]] = IF i = n THEN None ELSE s[i + 1]
  BY <1>1 DEF ListAs
<1>3. n # 0 => 1 \in 1 .. n /\ s[1] \in E /\ s[1] # None
  <2>1. n # 0 => 1 \in 1 .. n /\ s[1] \in E
    BY <1>2
  <2>2. n # 0 => s[1] \in Nat
    BY <2>1
  <2> QED  BY <2>1, <2>2, SpecialEntries
<1>4. added = [list |-> [first |-> id, last |-> IF n = 0 THEN id ELSE s[n]],
               array |-> [array EXCEPT ![id] = IF n = 0 THEN None ELSE s[1]]]
  <2>1. CASE n = 0
    BY <1>2, <2>1 DEF AddQubit, IsEmpty, EmptyList
  <2>2. CASE n # 0
    <3>1. list = [first |-> s[1], last |-> s[n]] /\ ~IsEmpty(list)
      BY <1>2, <1>3, <2>2 DEF IsEmpty
    <3>2. added = [list |-> [list EXCEPT !.first = id], array |-> [array EXCEPT ![id] = list.first]]
      BY <3>1 DEF AddQubit
    <3>3. [list EXCEPT !.first = id] = [first |-> id, last |-> s[n]] /\ list.first = s[1]
      BY <3>1
    <3> QED  BY <2>2, <3>2, <3>3
  <2> QED  BY <2>1, <2>2
<1> DEFINE link == IF n = 0 THEN None ELSE s[1]
           t == [i \in 1 .. n + 1 |-> IF i = 1 THEN id ELSE s[i - 1]]
<1>5. link \in Statuses /\ added.array \in [D -> Statuses]
      /\ \A x \in D : added.array[x] = IF x = id THEN link ELSE array[x]
  <2>1. link \in Statuses
    BY <1>3 DEF Statuses
  <2>2. added.array = [array EXCEPT ![id] = link]
    BY <1>4
  <2> HIDE DEF link, added
  <2> QED  BY <2>1, <2>2
<1>6. ListAs(added.list, added.array, E \cup {id}, n + 1, t)
  <2>1. \A i \in 1 .. n + 1 : i # 1 => i - 1 \in 1 .. n /\ s[i - 1] \in E
    BY <1>2
  <2>2. n + 1 \in Nat /\ n + 1 # 0 /\ t \in [1 .. n + 1 -> E \cup {id}]
    BY <1>2, <2>1
  <2>3. \A i, j \in 1 .. n + 1 : t[i] = t[j] => i = j
    BY <1>2, <2>1
  <2>4. \A x \in E \cup {id} : \E i \in 1 .. n + 1 : t[i] = x
    <3>1. 1 \in 1 .. n + 1 /\ t[1] = id
      BY <1>2
    <3>2. ASSUME NEW x \in E
          PROVE  \E i \in 1 .. n + 1 : t[i] = x
      <4>1. PICK i \in 1 .. n : s[i] = x
        BY <1>2
      <4>2. i + 1 \in 1 .. n + 1 /\ t[i + 1] = x
        BY <1>2, <4>1
      <4> QED  BY <4>2
    <3> QED  BY <3>1, <3>2
  <2>5. \A i \in 1 .. n + 1 : added.array[t[i]] = IF i = n + 1 THEN None ELSE t[i + 1]
    <3>1. TAKE i \in 1 .. n + 1
    <3>2. CASE i = 1
      <4>1. t[i] = id /\ (n # 0 => t[i + 1] = s[1] /\ i # n + 1) /\ (n = 0 => i = n + 1)
        BY <1>2, <3>2
      <4> QED  BY <1>5, <4>1
    <3>3. CASE i # 1
      <4>1. /\ i - 1 \in 1 .. n /\ t[i] = s[i - 1] /\ s[i - 1] \in D /\ s[i - 1] # id
            /\ i # n + 1 => t[i + 1] = s[i - 1 + 1] /\ i - 1 # n
            /\ i = n + 1 => i - 1 = n
        <5>1. i - 1 \in 1 .. n /\ s[i - 1] \in E /\ t[i] = s[i - 1]
          BY <2>1, <3>3
        <5>2. s[i - 1] \in D /\ s[i - 1] # id
          BY <5>1
        <5>3. i # n + 1 => i + 1 \in 1 .. n + 1 /\ i + 1 # 1 /\ i + 1 - 1 = i - 1 + 1
          BY <1>2
        <5>4. i # n + 1 => t[i + 1] = s[i - 1 + 1]
          BY <5>3
        <5> QED  BY <1>2, <5>1, <5>2, <5>4
      <4> QED  BY <1>2, <1>5, <4>1
    <3> QED  BY <3>2, <3>3
  <2>6. added.list = [first |-> t[1], last |-> t[n + 1]]
    BY <1>2, <1>4
  <2> HIDE DEF t, added
  <2> QED  BY <2>2, <2>3, <2>4, <2>5, <2>6 DEF ListAs
<1> QED  BY <1>5, <1>6 DEF IsList

-----------------------------------------------------------------------------
(* Walking along a list                                                     *)

\* A set of natural numbers that is not empty has a least element.
LEMMA LeastExists ==
    ASSUME NEW T \in SUBSET Nat, T # {}
    PROVE  \E x \in T : \A y \in T : x <= y
<1>1. PICK x \in T : \A y \in T : ~(<<y, x>> \in OpToRel(<, Nat))
  BY NatLessThanWellFounded, WFMin
<1>2. ASSUME NEW y \in T
      PROVE  x <= y
  <2>1. y < x => <<y, x>> \in OpToRel(<, Nat)
    BY DEF OpToRel
  <2>2. ~(y < x)
    BY <1>1, <2>1, Zenon
  <2>3. x \in Nat /\ y \in Nat
    OBVIOUS
  <2> QED  BY <2>2, <2>3
<1> QED  BY <1>2

\* The array has an entry for each of the ids from 0.
Shape ==
    /\ QubitCapacity \in Nat \ {0}
    /\ status \in [0 .. QubitCapacity - 1 -> Statuses]

\* A walk from the first element meets the elements of the list and ends at None.
LEMMA WalkMeaning ==
    ASSUME Shape, NEW list, NEW E \in SUBSET Ids, IsList(list, status, E)
    PROVE  Elements(list) = E /\ Walk(list)[QubitCapacity] = None
<1> DEFINE N == QubitCapacity
           W == Walk(list)
<1>1. N \in Nat /\ Ids = 0 .. N - 1 /\ None \notin Ids /\ E \subseteq Ids
  BY SpecialEntries DEF Shape, Ids
<1>2. PICK n, s : ListAs(list, status, E, n, s)
  BY DEF IsList
<1>3. /\ n \in Nat /\ s \in [1 .. n -> E]
      /\ \A i, j \in 1 .. n : s[i] = s[j] => i = j
      /\ \A x \in E : \E i \in 1 .. n : s[i] = x
      /\ list = IF n = 0 THEN EmptyList ELSE [first |-> s[1], last |-> s[n]]
      /\ \A i \in 1 .. n : status[s[i]] = IF i = n THEN None ELSE s[i + 1]
  BY <1>2 DEF ListAs
<1>4. n <= N
  <2>1. IsFiniteSet(1 .. n) /\ Cardinality(1 .. n) = n
    BY <1>3, FS_Interval
  <2>2. IsFiniteSet(0 .. N - 1) /\ Cardinality(0 .. N - 1) = N
    BY <1>1, FS_Interval
  <2>3. s \in Injection(1 .. n, 0 .. N - 1)
    <3>1. s \in [1 .. n -> 0 .. N - 1]
      BY <1>1, <1>3
    <3> QED  BY <1>3, <3>1 DEF Injection, IsInjective
  <2> QED  BY <2>1, <2>2, <2>3, FS_Injection
<1> DEFINE Next1(id) == IF id \in Ids THEN status[id] ELSE None
           Step(f) == [k \in 0 .. N |-> IF k = 0 THEN list.first ELSE Next1(f[k - 1])]
           V == [k \in 0 .. N |-> IF k < n THEN s[k + 1] ELSE None]
<1>5. V = Step(V)
  <2>1. DOMAIN V = 0 .. N
    OBVIOUS
  <2>2. ASSUME NEW k \in 0 .. N
        PROVE  V[k] = IF k = 0 THEN list.first ELSE Next1(V[k - 1])
    <3>1. CASE k = 0
      <4>1. n # 0 => 1 \in 1 .. n
        BY <1>3
      <4> QED  BY <1>1, <1>3, <3>1, <4>1 DEF EmptyList
    <3>2. CASE k # 0 /\ k - 1 < n
      <4>1. k \in 1 .. n /\ k - 1 \in 0 .. N /\ V[k - 1] = s[k]
        <5>1. k - 1 \in 0 .. N /\ k - 1 < n /\ k - 1 + 1 = k /\ k \in 1 .. n
          BY <1>1, <1>3, <3>2
        <5> QED  BY <5>1
      <4>2. s[k] \in Ids
        BY <1>1, <1>3, <4>1
      <4> QED  BY <1>1, <1>3, <3>2, <4>1, <4>2
    <3>3. CASE k # 0 /\ ~(k - 1 < n)
      <4>1. k - 1 \in 0 .. N /\ V[k - 1] = None /\ V[k] = None
        BY <1>1, <1>3, <3>3
      <4> QED  BY <1>1, <3>3, <4>1
    <3> QED  BY <3>1, <3>2, <3>3
  <2> QED  BY <2>2
<1>6. W = Step(W)
  <2>1. W = CHOOSE f : f = Step(f)
    BY DEF Walk
  <2> HIDE DEF V, W, Step
  <2> QED  BY <1>5, <2>1
<1>7. \A k \in 0 .. N : W[k] = V[k]
  <2> DEFINE Wrong == {k \in 0 .. N : W[k] # V[k]}
  <2>1. SUFFICES ASSUME Wrong # {}
                 PROVE  FALSE
    OBVIOUS
  <2>2. PICK k \in Wrong : \A l \in Wrong : k <= l
    <3>1. Wrong \in SUBSET Nat
      BY <1>1
    <3> HIDE DEF Wrong
    <3> QED  BY <2>1, <3>1, LeastExists
  <2>3. k \in 0 .. N /\ W[k] # V[k]
    BY <2>2
  <2>4. k # 0 => k - 1 \in 0 .. N /\ W[k - 1] = V[k - 1]
    BY <1>1, <2>2
  <2>5. W[k] = (IF k = 0 THEN list.first ELSE Next1(W[k - 1]))
        /\ V[k] = (IF k = 0 THEN list.first ELSE Next1(V[k - 1]))
    <3> HIDE DEF V, W, Next1
    <3> QED  BY <1>5, <1>6, <2>3
  <2> HIDE DEF V, W, Next1
  <2> QED  BY <2>3, <2>4, <2>5
<1>8. W[N] = None
  BY <1>1, <1>3, <1>4, <1>7
<1>9. DOMAIN W = 0 .. N
  <2> HIDE DEF W
  <2> QED  BY <1>6
<1>10. Elements(list) = E
  <2>1. ASSUME NEW x \in E
        PROVE  x \in Elements(list)
    <3>1. PICK i \in 1 .. n : s[i] = x
      BY <1>3
    <3>2. i - 1 \in 0 .. N /\ i - 1 < n /\ V[i - 1] = x
      BY <1>1, <1>3, <1>4, <3>1
    <3>3. x = W[i - 1]
      BY <1>7, <3>2
    <3> QED  BY <1>1, <1>9, <3>2, <3>3 DEF Elements, Range
  <2>2. ASSUME NEW x \in Elements(list)
        PROVE  x \in E
    <3>1. PICK k \in 0 .. N : W[k] = x
      BY <1>9 DEF Elements, Range
    <3>2. x \in Ids
      BY DEF Elements
    <3>3. k < n /\ x = s[k + 1]
      BY <1>1, <1>7, <3>1, <3>2
    <3>4. k + 1 \in 1 .. n
      BY <1>3, <3>3
    <3> QED  BY <1>3, <3>3, <3>4
  <2> QED  BY <2>1, <2>2
<1> QED  BY <1>8, <1>10

-----------------------------------------------------------------------------
(* The lists of all areas                                                   *)

ListRecords == [first : Nat \cup {None}, last : Nat \cup {None}]
AreaRecords == [FreeQubitsReuseProhibited : ListRecords,
                FreeQubitsReuseAllowed : ListRecords, segment : Nat \ {0}]

On(place, k) == {x \in DOMAIN place : place[x] = k}

\* Where each id is: on the list of those that area i allows, i, on the list of those that
\* it prohibits, -i, or on no list, 0.
Linked(D, stack, array, place) ==
    /\ D \subseteq Nat /\ array \in [D -> Statuses]
    /\ stack \in Seq(AreaRecords) /\ Len(stack) \in Nat \ {0}
    /\ place \in [D -> -Len(stack) .. Len(stack)]
    /\ \A i \in 1 .. Len(stack) :
        /\ IsList(stack[i].FreeQubitsReuseProhibited, array, On(place, -i))
        /\ IsList(stack[i].FreeQubitsReuseAllowed, array, On(place, i))

\* The lists of an area and the entries of what is on them.
LEMMA LinkedMeaning ==
    ASSUME NEW D, NEW stack, NEW array, NEW place, Linked(D, stack, array, place)
    PROVE  /\ \A x \in D : place[x] # 0 => array[x] \notin {Allocated, Disabled}
           /\ \A k : On(place, k) \in SUBSET D
           /\ \A x \in D : place[x] \in Int /\ -Len(stack) <= place[x] /\ place[x] <= Len(stack)
<1>1. /\ D \subseteq Nat /\ Len(stack) \in Nat \ {0} /\ place \in [D -> -Len(stack) .. Len(stack)]
  BY DEF Linked
<1>2. \A k : On(place, k) \in SUBSET D
  BY <1>1 DEF On
<1>3. \A x \in D : place[x] \in Int /\ -Len(stack) <= place[x] /\ place[x] <= Len(stack)
  BY <1>1
<1>4. ASSUME NEW x \in D, place[x] # 0
      PROVE  array[x] \notin {Allocated, Disabled}
  <2>1. \E k : \E list : x \in On(place, k) /\ IsList(list, array, On(place, k))
    <3>1. CASE place[x] > 0
      <4>1. place[x] \in 1 .. Len(stack) /\ x \in On(place, place[x])
        BY <1>1, <1>3, <3>1 DEF On
      <4> QED  BY <4>1 DEF Linked
    <3>2. CASE ~(place[x] > 0)
      <4>1. -place[x] \in 1 .. Len(stack) /\ -(-place[x]) = place[x] /\ x \in On(place, place[x])
        BY <1>1, <1>3, <1>4, <3>2 DEF On
      <4>2. IsList(stack[-place[x]].FreeQubitsReuseProhibited, array, On(place, -(-place[x])))
        BY <4>1 DEF Linked
      <4> QED  BY <4>1, <4>2
    <3> QED  BY <3>1, <3>2
  <2>2. PICK k, list : x \in On(place, k) /\ IsList(list, array, On(place, k))
    BY <2>1
  <2>3. On(place, k) \in SUBSET Nat
    BY <1>1, <1>2
  <2>4. array[x] \in On(place, k) \cup {None}
    BY <2>2, <2>3, ListMeaning
  <2> QED  BY <2>3, <2>4, SpecialEntries
<1> QED  BY <1>2, <1>3, <1>4

\* A list of ids has the type of a list.
LEMMA ListIsRecord ==
    ASSUME NEW E \in SUBSET Nat, NEW list, NEW array, IsList(list, array, E)
    PROVE  list \in ListRecords
<1>1. list \in [first : E \cup {None}, last : E \cup {None}]
  BY ListMeaning
<1> QED  BY <1>1 DEF ListRecords

\* The i-th area becomes this one, in this array, the lists of the others staying as they
\* are: what joins or leaves the lists of the area was on no list, or is new.
OneAreaChanges(D, stack, array, place, i, area, larger, other, q) ==
    /\ larger \subseteq Nat /\ D \subseteq larger /\ i \in 1 .. Len(stack) /\ area \in AreaRecords
    /\ other \in [larger -> Statuses] /\ q \in [larger -> -Len(stack) .. Len(stack)]
    /\ \A x \in D : IF place[x] \in {0, i, -i} THEN q[x] \in {0, i, -i}
                   ELSE other[x] = array[x] /\ q[x] = place[x]
    /\ \A x \in larger : x \notin D => q[x] \in {0, i, -i}
    /\ IsList(area.FreeQubitsReuseProhibited, other, On(q, -i))
    /\ IsList(area.FreeQubitsReuseAllowed, other, On(q, i))

LEMMA AreaChanges ==
    ASSUME NEW D, NEW stack, NEW array, NEW place, Linked(D, stack, array, place),
           NEW i, NEW area, NEW larger, NEW other, NEW q,
           OneAreaChanges(D, stack, array, place, i, area, larger, other, q)
    PROVE  Linked(larger, [stack EXCEPT ![i] = area], other, q)
<1> USE DEF OneAreaChanges
<1> DEFINE after == [stack EXCEPT ![i] = area]
<1>1. /\ D \subseteq Nat /\ array \in [D -> Statuses]
      /\ stack \in Seq(AreaRecords) /\ Len(stack) \in Nat \ {0}
      /\ place \in [D -> -Len(stack) .. Len(stack)]
      /\ \A j \in 1 .. Len(stack) :
          /\ IsList(stack[j].FreeQubitsReuseProhibited, array, On(place, -j))
          /\ IsList(stack[j].FreeQubitsReuseAllowed, array, On(place, j))
  BY DEF Linked
<1>2. /\ after \in Seq(AreaRecords) /\ Len(after) = Len(stack)
      /\ \A j \in 1 .. Len(stack) : after[j] = IF j = i THEN area ELSE stack[j]
  BY <1>1, ExceptSeq
<1>3. ASSUME NEW j \in 1 .. Len(stack), j # i, NEW k \in {j, -j}
      PROVE  On(q, k) = On(place, k) /\ \A x \in On(place, k) : other[x] = array[x]
  <2>1. k \in Int /\ k \notin {0, i, -i}
    BY <1>1, <1>3
  <2>2. \A x \in D : place[x] = k => other[x] = array[x] /\ q[x] = k
    BY <2>1
  <2>3. ASSUME NEW x \in larger, q[x] = k
        PROVE  x \in D /\ place[x] = k
    BY <2>1, <2>3
  <2>4. DOMAIN q = larger /\ DOMAIN place = D
    BY <1>1
  <2> QED  BY <2>2, <2>3, <2>4 DEF On
<1>4. ASSUME NEW j \in 1 .. Len(stack)
      PROVE  /\ IsList(after[j].FreeQubitsReuseProhibited, other, On(q, -j))
             /\ IsList(after[j].FreeQubitsReuseAllowed, other, On(q, j))
  <2>1. CASE j = i
    BY <1>2, <2>1
  <2>2. CASE j # i
    <3>1. after[j] = stack[j]
      BY <1>2, <2>2
    <3>2. On(q, j) = On(place, j) /\ \A x \in On(place, j) : other[x] = array[x]
      BY <1>3, <2>2
    <3>3. On(q, -j) = On(place, -j) /\ \A x \in On(place, -j) : other[x] = array[x]
      BY <1>3, <2>2
    <3>4. IsList(stack[j].FreeQubitsReuseProhibited, other, On(place, -j))
      BY <1>1, <3>3, ListFrame
    <3>5. IsList(stack[j].FreeQubitsReuseAllowed, other, On(place, j))
      BY <1>1, <3>2, ListFrame
    <3> QED  BY <3>1, <3>2, <3>3, <3>4, <3>5
  <2> QED  BY <2>1, <2>2
<1> HIDE DEF after
<1>5. Linked(larger, after, other, q)
  BY <1>1, <1>2, <1>4 DEF Linked
<1> QED  BY <1>5 DEF after

\* The entry of an id that is on no list may be anything.
LEMMA UnlistedFrame ==
    ASSUME NEW D, NEW stack, NEW array, NEW place, Linked(D, stack, array, place),
           NEW id \in D, place[id] = 0, NEW mark \in Statuses
    PROVE  Linked(D, stack, [array EXCEPT ![id] = mark], place)
<1> DEFINE other == [array EXCEPT ![id] = mark]
<1>1. /\ D \subseteq Nat /\ array \in [D -> Statuses]
      /\ stack \in Seq(AreaRecords) /\ Len(stack) \in Nat \ {0}
      /\ place \in [D -> -Len(stack) .. Len(stack)]
      /\ \A j \in 1 .. Len(stack) :
          /\ IsList(stack[j].FreeQubitsReuseProhibited, array, On(place, -j))
          /\ IsList(stack[j].FreeQubitsReuseAllowed, array, On(place, j))
  BY DEF Linked
<1>2. other \in [D -> Statuses] /\ \A x \in D : x # id => other[x] = array[x]
  BY <1>1
<1>3. \A k \in Int : k # 0 => \A x \in On(place, k) : other[x] = array[x]
  BY <1>1, <1>2 DEF On
<1> HIDE DEF other
<1>4. ASSUME NEW j \in 1 .. Len(stack)
      PROVE  /\ IsList(stack[j].FreeQubitsReuseProhibited, other, On(place, -j))
             /\ IsList(stack[j].FreeQubitsReuseAllowed, other, On(place, j))
  <2>1. j \in Int /\ j # 0 /\ -j \in Int /\ -j # 0
    OBVIOUS
  <2>2. IsList(stack[j].FreeQubitsReuseProhibited, other, On(place, -j))
    BY <1>1, <1>3, <2>1, ListFrame
  <2>3. IsList(stack[j].FreeQubitsReuseAllowed, other, On(place, j))
    BY <1>1, <1>3, <2>1, ListFrame
  <2> QED  BY <2>2, <2>3
<1>5. Linked(D, stack, other, place)
  BY <1>1, <1>2, <1>4 DEF Linked
<1> QED  BY <1>5 DEF other

\* Taking the first qubit of an area.
LEMMA TakeLinked ==
    ASSUME NEW D, NEW stack, NEW array, NEW place, Linked(D, stack, array, place),
           NEW id, Take(id, stack, array)
    PROVE  /\ id \in D /\ place[id] \in 1 .. Len(stack)
           /\ status' = [array EXCEPT ![id] = Allocated]
           /\ Linked(D, areas', status', [place EXCEPT ![id] = 0])
           /\ Len(areas') = Len(stack)
           /\ \A j \in 1 .. Len(stack) : areas'[j].segment = stack[j].segment
<1>1. /\ D \subseteq Nat /\ array \in [D -> Statuses]
      /\ stack \in Seq(AreaRecords) /\ Len(stack) \in Nat \ {0}
      /\ place \in [D -> -Len(stack) .. Len(stack)]
      /\ \A j \in 1 .. Len(stack) :
          /\ IsList(stack[j].FreeQubitsReuseProhibited, array, On(place, -j))
          /\ IsList(stack[j].FreeQubitsReuseAllowed, array, On(place, j))
  BY DEF Linked
<1>2. PICK i \in SearchStart(Reusable(stack)) :
        /\ id = stack[i].FreeQubitsReuseAllowed.first
        /\ areas' = [stack EXCEPT ![i].FreeQubitsReuseAllowed =
                        TakeQubitFromFront(stack[i].FreeQubitsReuseAllowed, array)]
        /\ status' = [array EXCEPT ![id] = Allocated]
  BY DEF Take
<1>3. i \in 1 .. Len(stack) /\ ~IsEmpty(stack[i].FreeQubitsReuseAllowed)
  BY DEF SearchStart, Reusable
<1> DEFINE list == stack[i].FreeQubitsReuseAllowed
           left == TakeQubitFromFront(list, array)
           area == [stack[i] EXCEPT !.FreeQubitsReuseAllowed = left]
           other == [array EXCEPT ![id] = Allocated]
           q == [place EXCEPT ![id] = 0]
<1>4. On(place, i) \in SUBSET D /\ On(place, -i) \in SUBSET D
  BY <1>1 DEF On
<1>5. id \in On(place, i) /\ IsList(left, other, On(place, i) \ {id})
  BY <1>1, <1>2, <1>3, <1>4, TakeMeaning
<1>6. id \in D /\ place[id] = i
  BY <1>1, <1>5 DEF On
<1>7. /\ other \in [D -> Statuses] /\ \A x \in D : x # id => other[x] = array[x]
      /\ q \in [D -> -Len(stack) .. Len(stack)]
      /\ \A x \in D : q[x] = IF x = id THEN 0 ELSE place[x]
  BY <1>1, <1>6 DEF Statuses
<1>8. On(q, i) = On(place, i) \ {id} /\ On(q, -i) = On(place, -i)
  <2>1. i # 0 /\ -i # 0 /\ i # -i /\ i \in Int
    BY <1>3
  <2>2. DOMAIN q = D /\ DOMAIN place = D
    BY <1>1
  <2> HIDE DEF q
  <2> QED  BY <1>6, <1>7, <2>1, <2>2 DEF On
<1>9. IsList(stack[i].FreeQubitsReuseProhibited, other, On(place, -i))
  <2>1. \A x \in On(place, -i) : x \in D /\ x # id
    BY <1>1, <1>3, <1>6 DEF On
  <2> HIDE DEF other
  <2> QED  BY <1>1, <1>3, <1>7, <2>1, ListFrame
<1>10. area \in AreaRecords /\ area.FreeQubitsReuseAllowed = left
       /\ area.FreeQubitsReuseProhibited = stack[i].FreeQubitsReuseProhibited
       /\ area.segment = stack[i].segment
  <2>1. On(place, i) \ {id} \in SUBSET Nat
    BY <1>1, <1>4
  <2>2. left \in ListRecords
    BY <1>5, <2>1, ListIsRecord
  <2>3. stack[i] \in AreaRecords
    BY <1>1, <1>3, ElementOfSeq
  <2> HIDE DEF left
  <2> QED  BY <2>2, <2>3 DEF AreaRecords
<1>11. areas' = [stack EXCEPT ![i] = area]
  BY <1>2
<1>12. Linked(D, [stack EXCEPT ![i] = area], other, q)
  <2>1. \A x \in D : IF place[x] \in {0, i, -i} THEN q[x] \in {0, i, -i}
                    ELSE other[x] = array[x] /\ q[x] = place[x]
    BY <1>6, <1>7
  <2>2. /\ IsList(area.FreeQubitsReuseProhibited, other, On(q, -i))
        /\ IsList(area.FreeQubitsReuseAllowed, other, On(q, i))
    BY <1>5, <1>8, <1>9, <1>10
  <2> HIDE DEF area, other, q
  <2>3. OneAreaChanges(D, stack, array, place, i, area, D, other, q)
    BY <1>1, <1>3, <1>7, <1>10, <2>1, <2>2 DEF OneAreaChanges
  <2> QED  BY <2>3, AreaChanges
<1>13. Len(areas') = Len(stack) /\ \A j \in 1 .. Len(stack) : areas'[j].segment = stack[j].segment
  <2> HIDE DEF area
  <2>1. /\ Len(areas') = Len(stack)
        /\ \A j \in 1 .. Len(stack) : areas'[j] = IF j = i THEN area ELSE stack[j]
    BY <1>1, <1>3, <1>10, <1>11, ExceptSeq
  <2> QED  BY <1>10, <2>1
<1> QED  BY <1>2, <1>3, <1>6, <1>11, <1>12, <1>13

\* Two stacks of as many areas, each in the same segment.
SameSegments(stack, other) ==
    Len(other) = Len(stack) /\ \A i \in 1 .. Len(stack) : other[i].segment = stack[i].segment

\* Releasing a qubit: it goes to the list of the innermost area, or nowhere.
Released(place, id) == IF Discards THEN place ELSE [place EXCEPT ![id] = Len(areas)]

LEMMA ReleaseLinked ==
    ASSUME NEW place, Linked(Ids, areas, status, place), NEW id \in Ids, place[id] = 0,
           EncourageReuse \/ MayExtendCapacity, ReleaseOne(id)
    PROVE  /\ Linked(Ids, areas', status', Released(place, id))
           /\ \A x \in Ids : x # id => status'[x] = status[x]
           /\ status'[id] \notin {Allocated, Disabled}
           /\ SameSegments(areas, areas')
<1> DEFINE L == Len(areas)
           list == Innermost.FreeQubitsReuseAllowed
           added == AddQubit(list, id, status)
           area == [Innermost EXCEPT !.FreeQubitsReuseAllowed = added.list]
           other == added.array
           q == [place EXCEPT ![id] = L]
<1>1. /\ Ids \subseteq Nat /\ status \in [Ids -> Statuses]
      /\ areas \in Seq(AreaRecords) /\ L \in Nat \ {0}
      /\ place \in [Ids -> -L .. L]
      /\ \A j \in 1 .. L :
          /\ IsList(areas[j].FreeQubitsReuseProhibited, status, On(place, -j))
          /\ IsList(areas[j].FreeQubitsReuseAllowed, status, On(place, j))
  BY DEF Linked
<1>2. CASE Discards
  <2>1. status' = [status EXCEPT ![id] = None] /\ areas' = areas /\ Released(place, id) = place
    BY <1>2 DEF ReleaseOne, Discards, Released
  <2>2. None \in Statuses
    BY DEF Statuses
  <2>3. Linked(Ids, areas, [status EXCEPT ![id] = None], place)
    BY <2>2, UnlistedFrame
  <2> QED  BY <1>1, <2>1, <2>3, SpecialEntries DEF SameSegments
<1>3. CASE ~Discards
  <2>1. /\ EncourageReuse /\ status' = other /\ Released(place, id) = q
        /\ areas' = [areas EXCEPT ![L].FreeQubitsReuseAllowed = added.list]
    BY <1>3 DEF ReleaseOne, Discards, Released
  <2>2. L \in 1 .. L /\ Innermost = areas[L]
    BY <1>1 DEF Innermost
  <2>3. areas' = [areas EXCEPT ![L] = area]
    BY <2>1, <2>2
  <2>4. On(place, L) \in SUBSET Ids /\ On(place, -L) \in SUBSET Ids /\ id \notin On(place, L)
        /\ id \notin On(place, -L)
    BY <1>1 DEF On
  <2>5. /\ other \in [Ids -> Statuses]
        /\ \A x \in Ids : x # id => other[x] = status[x]
        /\ IsList(added.list, other, On(place, L) \cup {id})
    <3>1. IsList(list, status, On(place, L)) /\ Ids \in SUBSET Nat
      BY <1>1, <2>2
    <3> QED  BY <1>1, <2>1, <2>4, <3>1, AddMeaning
  <2>6. /\ q \in [Ids -> -L .. L]
        /\ \A x \in Ids : q[x] = IF x = id THEN L ELSE place[x]
    <3>1. L \in -L .. L
      BY <1>1
    <3> QED  BY <1>1, <3>1
  <2>7. On(q, L) = On(place, L) \cup {id} /\ On(q, -L) = On(place, -L)
    <3>1. L # 0 /\ -L # 0 /\ L # -L /\ DOMAIN q = Ids /\ DOMAIN place = Ids
      BY <1>1
    <3> HIDE DEF q, L
    <3> QED  BY <2>6, <3>1 DEF On
  <2>8. IsList(Innermost.FreeQubitsReuseProhibited, other, On(place, -L))
    <3>1. \A x \in On(place, -L) : other[x] = status[x]
      BY <2>4, <2>5
    <3>2. IsList(Innermost.FreeQubitsReuseProhibited, status, On(place, -L))
      BY <1>1, <2>2
    <3> HIDE DEF other
    <3> QED  BY <3>1, <3>2, ListFrame
  <2>9. area \in AreaRecords /\ area.FreeQubitsReuseAllowed = added.list
        /\ area.FreeQubitsReuseProhibited = Innermost.FreeQubitsReuseProhibited
        /\ area.segment = Innermost.segment
    <3>1. On(place, L) \cup {id} \in SUBSET Nat
      BY <1>1, <2>4
    <3>2. added.list \in ListRecords
      BY <2>5, <3>1, ListIsRecord
    <3>3. Innermost \in AreaRecords
      BY <1>1, <2>2, ElementOfSeq
    <3> HIDE DEF added
    <3> QED  BY <3>2, <3>3 DEF AreaRecords
  <2>10. Linked(Ids, [areas EXCEPT ![L] = area], other, q)
    <3>1. \A x \in Ids : IF place[x] \in {0, L, -L} THEN q[x] \in {0, L, -L}
                         ELSE other[x] = status[x] /\ q[x] = place[x]
      BY <2>5, <2>6
    <3>2. /\ IsList(area.FreeQubitsReuseProhibited, other, On(q, -L))
          /\ IsList(area.FreeQubitsReuseAllowed, other, On(q, L))
      BY <2>5, <2>7, <2>8, <2>9
    <3> HIDE DEF area, other, q
    <3>3. OneAreaChanges(Ids, areas, status, place, L, area, Ids, other, q)
      BY <1>1, <2>2, <2>5, <2>6, <2>9, <3>1, <3>2 DEF OneAreaChanges
    <3> QED  BY <3>3, AreaChanges
  <2>11. SameSegments(areas, areas')
    <3> HIDE DEF area
    <3>1. /\ Len(areas') = L /\ \A j \in 1 .. L : areas'[j] = IF j = L THEN area ELSE areas[j]
      BY <1>1, <2>2, <2>3, <2>9, ExceptSeq
    <3> QED  BY <2>2, <2>9, <3>1 DEF SameSegments
  <2>12. status'[id] \notin {Allocated, Disabled}
    <3>1. q[id] # 0
      BY <1>1, <2>6
    <3> HIDE DEF q, area, other
    <3> QED  BY <2>1, <2>10, <3>1, LinkedMeaning
  <2> QED  BY <2>1, <2>3, <2>5, <2>10, <2>11, <2>12
<1> QED  BY <1>2, <1>3

\* Growth: the new ids go to the outermost area.
Larger(place, n) == [x \in 0 .. 2 * n - 1 |-> IF x \in 0 .. n - 1 THEN place[x] ELSE 1]

LEMMA GrownLinked ==
    ASSUME Shape, NEW place, Linked(Ids, areas, status, place)
    PROVE  /\ Linked(0 .. 2 * QubitCapacity - 1, Grown.stack, Grown.array,
                     Larger(place, QubitCapacity))
           /\ \A x \in Ids : Grown.array[x] = status[x]
           /\ SameSegments(areas, Grown.stack)
<1> DEFINE N == QubitCapacity
           M == 2 * N - 1
           larger == [id \in 0 .. 2 * N - 1 |-> IF id \in Ids THEN status[id] ELSE None]
           fresh == NewList(N, 2 * N - 1, larger)
           moved == MoveAllQubitsFrom(areas[1].FreeQubitsReuseAllowed, fresh.list, fresh.array)
           area == [areas[1] EXCEPT !.FreeQubitsReuseAllowed = moved.list]
           other == moved.array
           q == Larger(place, N)
           L == Len(areas)
<1>1. /\ N \in Nat \ {0} /\ Ids = 0 .. N - 1 /\ M \in Nat
      /\ status \in [Ids -> Statuses]
      /\ areas \in Seq(AreaRecords) /\ L \in Nat \ {0}
      /\ place \in [Ids -> -L .. L]
      /\ \A j \in 1 .. L :
          /\ IsList(areas[j].FreeQubitsReuseProhibited, status, On(place, -j))
          /\ IsList(areas[j].FreeQubitsReuseAllowed, status, On(place, j))
  BY DEF Linked, Shape, Ids
<1>2. /\ larger \in [0 .. M -> Statuses]
      /\ \A x \in Ids : x \in 0 .. M /\ larger[x] = status[x] /\ x < N
  BY <1>1 DEF Statuses
<1>3. /\ fresh.array \in [0 .. M -> Statuses]
      /\ \A x \in 0 .. M : x < N => fresh.array[x] = larger[x]
      /\ IsList(fresh.list, fresh.array, N .. M)
  <2>1. N \in Nat /\ M \in Nat /\ N <= M
    BY <1>1
  <2> HIDE DEF larger
  <2> QED  BY <1>2, <2>1, NewMeaning
<1>4. /\ other \in [0 .. M -> Statuses]
      /\ \A x \in 0 .. M : x \notin N .. M => other[x] = fresh.array[x]
      /\ IsList(moved.list, other, On(place, 1) \cup (N .. M))
  <2>1. On(place, 1) \in SUBSET (0 .. M) /\ N .. M \in SUBSET (0 .. M) /\ 0 .. M \in SUBSET Nat
        /\ \A x \in On(place, 1) : x \in Ids /\ x \notin N .. M
    BY <1>1 DEF On
  <2>2. \A x \in On(place, 1) : fresh.array[x] = status[x]
    BY <1>2, <1>3, <2>1
  <2>3. IsList(areas[1].FreeQubitsReuseAllowed, status, On(place, 1))
    BY <1>1
  <2> HIDE DEF fresh
  <2>4. IsList(areas[1].FreeQubitsReuseAllowed, fresh.array, On(place, 1))
    BY <2>2, <2>3, ListFrame
  <2>5. \A x \in On(place, 1) : x \notin N .. M
    BY <2>1
  <2> HIDE DEF M, N
  <2>6. Movable(0 .. M, fresh.array, areas[1].FreeQubitsReuseAllowed, On(place, 1),
                fresh.list, N .. M)
    BY <1>3, <2>1, <2>4, <2>5 DEF Movable
  <2> QED  BY <2>6, MoveMeaning
<1>5. \A x \in Ids : other[x] = status[x]
  <2>1. \A x \in Ids : x \in 0 .. M /\ x \notin N .. M /\ x < N
    BY <1>1
  <2> HIDE DEF other, fresh, larger
  <2> QED  BY <1>2, <1>3, <1>4, <2>1
<1>6. /\ q \in [0 .. M -> -L .. L]
      /\ \A x \in 0 .. M : q[x] = IF x \in Ids THEN place[x] ELSE 1
      /\ Ids \subseteq 0 .. M
  <2>1. 1 \in -L .. L
    BY <1>1
  <2>2. \A x \in Ids : place[x] \in -L .. L
    BY <1>1
  <2> QED  BY <1>1, <2>1, <2>2 DEF Larger
<1>7. On(q, 1) = On(place, 1) \cup (N .. M) /\ On(q, -1) = On(place, -1)
  <2>1. DOMAIN q = 0 .. M /\ DOMAIN place = Ids /\ \A x \in 0 .. M : x \notin Ids <=> x \in N .. M
    BY <1>1, <1>6
  <2>2. N .. M \subseteq 0 .. M
    BY <1>1
  <2> HIDE DEF q, M, N
  <2> QED  BY <1>6, <2>1, <2>2 DEF On
<1>8. IsList(areas[1].FreeQubitsReuseProhibited, other, On(place, -1))
  <2>1. \A x \in On(place, -1) : other[x] = status[x]
    BY <1>1, <1>5 DEF On
  <2>2. IsList(areas[1].FreeQubitsReuseProhibited, status, On(place, -1))
    BY <1>1
  <2> HIDE DEF other
  <2> QED  BY <2>1, <2>2, ListFrame
<1>9. area \in AreaRecords /\ area.FreeQubitsReuseAllowed = moved.list
      /\ area.FreeQubitsReuseProhibited = areas[1].FreeQubitsReuseProhibited
      /\ area.segment = areas[1].segment
  <2>1. On(place, 1) \cup (N .. M) \in SUBSET Nat
    BY <1>1 DEF On
  <2>2. moved.list \in ListRecords
    BY <1>4, <2>1, ListIsRecord
  <2>3. areas[1] \in AreaRecords
    BY <1>1, ElementOfSeq
  <2> HIDE DEF moved
  <2> QED  BY <2>2, <2>3 DEF AreaRecords
<1>10. Grown = [array |-> other, stack |-> [areas EXCEPT ![1] = area]]
  BY DEF Grown
<1>11. Linked(0 .. M, [areas EXCEPT ![1] = area], other, q)
  <2>1. /\ \A x \in Ids : IF place[x] \in {0, 1, -1} THEN q[x] \in {0, 1, -1}
                          ELSE other[x] = status[x] /\ q[x] = place[x]
        /\ \A x \in 0 .. M : x \notin Ids => q[x] \in {0, 1, -1}
    BY <1>5, <1>6
  <2>2. /\ IsList(area.FreeQubitsReuseProhibited, other, On(q, -1))
        /\ IsList(area.FreeQubitsReuseAllowed, other, On(q, 1))
    BY <1>4, <1>7, <1>8, <1>9
  <2>3. 1 \in 1 .. L /\ 0 .. M \subseteq Nat
    BY <1>1
  <2> HIDE DEF area, other, q, M
  <2>4. OneAreaChanges(Ids, areas, status, place, 1, area, 0 .. M, other, q)
    BY <1>4, <1>6, <1>9, <2>1, <2>2, <2>3 DEF OneAreaChanges
  <2> QED  BY <2>4, AreaChanges
<1>12. SameSegments(areas, [areas EXCEPT ![1] = area])
  <2> HIDE DEF area
  <2>1. /\ Len([areas EXCEPT ![1] = area]) = L
        /\ \A j \in 1 .. L : [areas EXCEPT ![1] = area][j] = IF j = 1 THEN area ELSE areas[j]
    BY <1>1, <1>9, ExceptSeq
  <2> QED  BY <1>9, <2>1 DEF SameSegments
<1> HIDE DEF other, area, q
<1> QED  BY <1>5, <1>10, <1>11, <1>12 DEF q

\* An area starts with empty lists.
LEMMA StartLinked ==
    ASSUME NEW place, Linked(Ids, areas, status, place), areas' = Append(areas, Area(EmptyList))
    PROVE  /\ Linked(Ids, areas', status, place)
           /\ Len(areas') = Len(areas) + 1
           /\ \A i \in 1 .. Len(areas) : areas'[i] = areas[i]
           /\ areas'[Len(areas) + 1].segment = 1
<1> DEFINE L == Len(areas)
<1>1. /\ Ids \subseteq Nat /\ status \in [Ids -> Statuses]
      /\ areas \in Seq(AreaRecords) /\ L \in Nat \ {0}
      /\ place \in [Ids -> -L .. L]
      /\ \A j \in 1 .. L :
          /\ IsList(areas[j].FreeQubitsReuseProhibited, status, On(place, -j))
          /\ IsList(areas[j].FreeQubitsReuseAllowed, status, On(place, j))
  BY DEF Linked
<1>2. /\ Area(EmptyList) \in AreaRecords /\ Area(EmptyList).segment = 1
      /\ Area(EmptyList).FreeQubitsReuseProhibited = EmptyList
      /\ Area(EmptyList).FreeQubitsReuseAllowed = EmptyList
  BY DEF Area, EmptyList, AreaRecords, ListRecords
<1>3. /\ areas' \in Seq(AreaRecords) /\ Len(areas') = L + 1
      /\ \A i \in 1 .. L : areas'[i] = areas[i]
      /\ areas'[L + 1] = Area(EmptyList)
  BY <1>1, <1>2, AppendProperties
<1>4. On(place, L + 1) = {} /\ On(place, -(L + 1)) = {}
  BY <1>1 DEF On
<1>5. ASSUME NEW j \in 1 .. L + 1
      PROVE  /\ IsList(areas'[j].FreeQubitsReuseProhibited, status, On(place, -j))
             /\ IsList(areas'[j].FreeQubitsReuseAllowed, status, On(place, j))
  <2>1. CASE j = L + 1
    BY <1>2, <1>3, <1>4, <2>1, EmptyIsList
  <2>2. CASE j # L + 1
    <3>1. j \in 1 .. L
      BY <1>1, <2>2
    <3> QED  BY <1>1, <1>3, <3>1
  <2> QED  BY <2>1, <2>2
<1>6. place \in [Ids -> -(L + 1) .. L + 1] /\ L + 1 \in Nat \ {0}
  <2>1. -L .. L \subseteq -(L + 1) .. L + 1
    BY <1>1
  <2> QED  BY <1>1, <2>1
<1> QED  BY <1>1, <1>2, <1>3, <1>5, <1>6 DEF Linked

\* The next segment begins: what the innermost area allows it prohibits from now on.
Prohibited(place) == [x \in Ids |-> IF place[x] = Len(areas) THEN -Len(areas) ELSE place[x]]

LEMMA SegmentLinked ==
    ASSUME NEW place, Linked(Ids, areas, status, place), NextRestrictedReuseSegment
    PROVE  /\ Linked(Ids, areas', status', Prohibited(place))
           /\ \A x \in Ids : place[x] # Len(areas) => status'[x] = status[x]
           /\ Len(areas') = Len(areas)
           /\ \A i \in 1 .. Len(areas) : areas'[i].segment =
                IF i = Len(areas) THEN areas[i].segment + 1 ELSE areas[i].segment
<1> DEFINE L == Len(areas)
           E == On(place, -L)
           F == On(place, L)
           moved == MoveAllQubitsFrom(Innermost.FreeQubitsReuseProhibited,
                                      Innermost.FreeQubitsReuseAllowed, status)
           area == [Innermost EXCEPT !.FreeQubitsReuseProhibited = moved.list,
                                     !.FreeQubitsReuseAllowed = EmptyList,
                                     !.segment = Innermost.segment + 1]
           other == moved.array
           q == Prohibited(place)
<1>1. /\ Ids \subseteq Nat /\ status \in [Ids -> Statuses]
      /\ areas \in Seq(AreaRecords) /\ L \in Nat \ {0}
      /\ place \in [Ids -> -L .. L]
      /\ \A j \in 1 .. L :
          /\ IsList(areas[j].FreeQubitsReuseProhibited, status, On(place, -j))
          /\ IsList(areas[j].FreeQubitsReuseAllowed, status, On(place, j))
  BY DEF Linked
<1>2. L \in 1 .. L /\ Innermost = areas[L] /\ Innermost \in AreaRecords
  <2>1. L \in 1 .. L /\ Innermost = areas[L]
    BY <1>1 DEF Innermost
  <2> QED  BY <1>1, <2>1, ElementOfSeq
<1>3. E \subseteq Ids /\ F \subseteq Ids /\ \A x \in E : x \notin F
  BY <1>1 DEF On
<1>4. /\ other \in [Ids -> Statuses]
      /\ \A x \in Ids : x \notin F => other[x] = status[x]
      /\ IsList(moved.list, other, E \cup F)
  <2>1. Movable(Ids, status, Innermost.FreeQubitsReuseProhibited, E,
                Innermost.FreeQubitsReuseAllowed, F)
    BY <1>1, <1>2, <1>3 DEF Movable
  <2> QED  BY <2>1, MoveMeaning
<1>5. q \in [Ids -> -L .. L] /\ \A x \in Ids : q[x] = IF place[x] = L THEN -L ELSE place[x]
  <2>1. -L \in -L .. L /\ \A x \in Ids : place[x] \in -L .. L
    BY <1>1
  <2> QED  BY <2>1 DEF Prohibited
<1>6. On(q, -L) = E \cup F /\ On(q, L) = {}
  <2>1. L # -L /\ DOMAIN q = Ids /\ DOMAIN place = Ids
    BY <1>1, <1>5
  <2> HIDE DEF q, L
  <2> QED  BY <1>5, <2>1 DEF On
<1>7. /\ area \in AreaRecords /\ area.FreeQubitsReuseProhibited = moved.list
      /\ area.FreeQubitsReuseAllowed = EmptyList /\ area.segment = areas[L].segment + 1
  <2>1. E \cup F \in SUBSET Nat
    BY <1>1, <1>3
  <2>2. moved.list \in ListRecords
    BY <1>4, <2>1, ListIsRecord
  <2>3. EmptyList \in ListRecords
    BY DEF EmptyList, ListRecords
  <2>4. Innermost.segment + 1 \in Nat \ {0}
    BY <1>2 DEF AreaRecords
  <2> DEFINE next == Innermost.segment + 1
  <2> HIDE DEF moved, next
  <2>5. area \in AreaRecords
    BY <1>2, <2>2, <2>3, <2>4 DEF AreaRecords
  <2>6. /\ area.FreeQubitsReuseProhibited = moved.list /\ area.FreeQubitsReuseAllowed = EmptyList
        /\ area.segment = Innermost.segment + 1
    BY <1>2 DEF AreaRecords
  <2> QED  BY <1>2, <2>5, <2>6
<1>8. areas' = [areas EXCEPT ![L] = area] /\ status' = other
  <2> QED  BY <1>2 DEF NextRestrictedReuseSegment
<1>9. Linked(Ids, [areas EXCEPT ![L] = area], other, q)
  <2>1. \A x \in Ids : IF place[x] \in {0, L, -L} THEN q[x] \in {0, L, -L}
                       ELSE other[x] = status[x] /\ q[x] = place[x]
    <3>1. \A x \in Ids : x \in F <=> place[x] = L
      BY <1>1 DEF On
    <3> HIDE DEF other, q, F
    <3> QED  BY <1>4, <1>5, <3>1
  <2>2. /\ IsList(area.FreeQubitsReuseProhibited, other, On(q, -L))
        /\ IsList(area.FreeQubitsReuseAllowed, other, On(q, L))
    BY <1>4, <1>6, <1>7, EmptyIsList
  <2> HIDE DEF area, other, q
  <2>3. OneAreaChanges(Ids, areas, status, place, L, area, Ids, other, q)
    BY <1>1, <1>2, <1>4, <1>5, <1>7, <2>1, <2>2 DEF OneAreaChanges
  <2> QED  BY <2>3, AreaChanges
<1>10. Len(areas') = L /\ \A j \in 1 .. L : areas'[j] = IF j = L THEN area ELSE areas[j]
  <2> HIDE DEF area
  <2> QED  BY <1>1, <1>2, <1>7, <1>8, ExceptSeq
<1>11. \A x \in Ids : place[x] # L => other[x] = status[x]
  BY <1>4 DEF On
<1> HIDE DEF other, area, q
<1> QED  BY <1>7, <1>8, <1>9, <1>10, <1>11 DEF q

\* The innermost area ends: what is on its lists the containing area allows.
Returned(place) == [x \in Ids |-> IF place[x] \in {Len(areas), -Len(areas)} THEN Len(areas) - 1
                                  ELSE place[x]]

LEMMA EndLinked ==
    ASSUME NEW place, Linked(Ids, areas, status, place), EndRestrictedReuseArea
    PROVE  /\ Linked(Ids, areas', status', Returned(place))
           /\ \A x \in Ids : place[x] \notin {Len(areas), -Len(areas)} => status'[x] = status[x]
           /\ Len(areas') = Len(areas) - 1
           /\ \A i \in 1 .. Len(areas) - 1 : areas'[i].segment = areas[i].segment
<1> DEFINE L == Len(areas)
           K == L - 1
           E == On(place, K)
           F == On(place, -L)
           G == On(place, L)
           outer == areas[L - 1].FreeQubitsReuseAllowed
           first == MoveAllQubitsFrom(outer, Innermost.FreeQubitsReuseProhibited, status)
           second == MoveAllQubitsFrom(first.list, Innermost.FreeQubitsReuseAllowed, first.array)
           base == SubSeq(areas, 1, L - 1)
           area == [areas[K] EXCEPT !.FreeQubitsReuseAllowed = second.list]
           q == Returned(place)
<1>1. /\ Ids \subseteq Nat /\ status \in [Ids -> Statuses]
      /\ areas \in Seq(AreaRecords) /\ L \in Nat \ {0}
      /\ place \in [Ids -> -L .. L]
      /\ \A j \in 1 .. L :
          /\ IsList(areas[j].FreeQubitsReuseProhibited, status, On(place, -j))
          /\ IsList(areas[j].FreeQubitsReuseAllowed, status, On(place, j))
  BY DEF Linked
<1>2. /\ L > 1 /\ status' = second.array
      /\ areas' = [base EXCEPT ![L - 1].FreeQubitsReuseAllowed = second.list]
  BY DEF EndRestrictedReuseArea
<1>3. K \in 1 .. L /\ L \in 1 .. L /\ Innermost = areas[L] /\ K \in Nat \ {0}
  BY <1>1, <1>2 DEF Innermost
<1>4. /\ E \subseteq Ids /\ F \subseteq Ids /\ G \subseteq Ids
      /\ \A x \in E \cup F : x \notin G
      /\ \A x \in E : x \notin F
  BY <1>1, <1>2 DEF On
<1>5. /\ first.array \in [Ids -> Statuses]
      /\ \A x \in Ids : x \notin F => first.array[x] = status[x]
      /\ IsList(first.list, first.array, E \cup F)
  <2>1. Movable(Ids, status, outer, E, Innermost.FreeQubitsReuseProhibited, F)
    BY <1>1, <1>3, <1>4 DEF Movable
  <2> QED  BY <2>1, MoveMeaning
<1>6. /\ second.array \in [Ids -> Statuses]
      /\ \A x \in Ids : x \notin G => second.array[x] = first.array[x]
      /\ IsList(second.list, second.array, E \cup F \cup G)
  <2>1. IsList(Innermost.FreeQubitsReuseAllowed, status, G)
    BY <1>1, <1>3
  <2>2. \A x \in G : first.array[x] = status[x]
    BY <1>4, <1>5
  <2> HIDE DEF first, E, F, G
  <2>3. IsList(Innermost.FreeQubitsReuseAllowed, first.array, G)
    BY <2>1, <2>2, ListFrame
  <2>4. Movable(Ids, first.array, first.list, E \cup F, Innermost.FreeQubitsReuseAllowed, G)
    BY <1>1, <1>4, <1>5, <2>3 DEF Movable
  <2> QED  BY <2>4, MoveMeaning
<1>7. \A x \in Ids : place[x] \notin {L, -L} => second.array[x] = status[x]
  <2>1. \A x \in Ids : (x \in F <=> place[x] = -L) /\ (x \in G <=> place[x] = L)
    BY <1>1 DEF On
  <2> HIDE DEF first, second, F, G
  <2> QED  BY <1>5, <1>6, <2>1
<1>8. /\ base \in Seq(AreaRecords) /\ Len(base) = K
      /\ \A j \in 1 .. K : base[j] = areas[j]
  <2>1. \A j \in 1 .. K : areas[j] \in AreaRecords
    BY <1>1, <1>3, ElementOfSeq
  <2>2. 1 \in Int /\ K \in Int /\ 1 <= K /\ K - 1 + 1 = K
    BY <1>3
  <2>3. /\ SubSeq(areas, 1, K) \in Seq(AreaRecords)
        /\ Len(SubSeq(areas, 1, K)) = IF 1 <= K THEN K - 1 + 1 ELSE 0
        /\ \A j \in 1 .. K - 1 + 1 : SubSeq(areas, 1, K)[j] = areas[1 + j - 1]
    <3> HIDE DEF K
    <3> QED  BY <2>1, <2>2, SubSeqProperties
  <2>4. \A j \in 1 .. K : 1 + j - 1 = j
    OBVIOUS
  <2> QED  BY <2>2, <2>3, <2>4
<1>9. area \in AreaRecords /\ area.FreeQubitsReuseAllowed = second.list
      /\ area.FreeQubitsReuseProhibited = areas[K].FreeQubitsReuseProhibited
      /\ area.segment = areas[K].segment
  <2>1. E \cup F \cup G \in SUBSET Nat
    BY <1>1, <1>4
  <2>2. second.list \in ListRecords
    BY <1>6, <2>1, ListIsRecord
  <2>3. areas[K] \in AreaRecords
    BY <1>1, <1>3, ElementOfSeq
  <2> HIDE DEF second
  <2> QED  BY <2>2, <2>3 DEF AreaRecords
<1>10. areas' = [base EXCEPT ![K] = area]
  <2>1. K \in 1 .. K /\ base[K] = areas[K]
    BY <1>3, <1>8
  <2> HIDE DEF base, second
  <2> QED  BY <1>2, <2>1
<1>11. /\ areas' \in Seq(AreaRecords) /\ Len(areas') = K
       /\ \A j \in 1 .. K : areas'[j] = IF j = K THEN area ELSE areas[j]
  <2>1. K \in 1 .. Len(base)
    BY <1>3, <1>8
  <2> HIDE DEF base, area, K
  <2> QED  BY <1>8, <1>9, <1>10, <2>1, ExceptSeq
<1>12. /\ q \in [Ids -> -K .. K]
       /\ \A x \in Ids : q[x] = IF place[x] \in {L, -L} THEN K ELSE place[x]
  <2>1. K \in -K .. K /\ \A x \in Ids : place[x] \notin {L, -L} => place[x] \in -K .. K
    BY <1>1, <1>3
  <2> QED  BY <2>1 DEF Returned
<1>13. DOMAIN q = Ids /\ DOMAIN place = Ids
  BY <1>1, <1>12
<1>14. ASSUME NEW j \in 1 .. K
       PROVE  /\ IsList(areas'[j].FreeQubitsReuseProhibited, second.array, On(q, -j))
              /\ IsList(areas'[j].FreeQubitsReuseAllowed, second.array, On(q, j))
  <2>1. j \in 1 .. L /\ -j \notin {L, -L, K} /\ j \notin {L, -L}
    BY <1>3
  <2>2. On(q, -j) = On(place, -j)
    BY <1>12, <1>13, <2>1 DEF On
  <2>3. \A x \in On(place, -j) : second.array[x] = status[x]
    BY <1>7, <1>13, <2>1 DEF On
  <2>4. IsList(areas[j].FreeQubitsReuseProhibited, second.array, On(q, -j))
    <3>1. IsList(areas[j].FreeQubitsReuseProhibited, status, On(place, -j))
      BY <1>1, <2>1
    <3> HIDE DEF second, q
    <3> QED  BY <2>2, <2>3, <3>1, ListFrame
  <2>5. CASE j = K
    <3>1. On(q, K) = E \cup F \cup G
      <4>1. K # L /\ K # -L
        BY <1>3
      <4> HIDE DEF q, K, L
      <4> QED  BY <1>12, <1>13, <4>1 DEF On
    <3> QED  BY <1>6, <1>9, <1>11, <2>4, <2>5, <3>1
  <2>6. CASE j # K
    <3>1. On(q, j) = On(place, j)
      <4> HIDE DEF q, K, L
      <4> QED  BY <1>12, <1>13, <2>1, <2>6 DEF On
    <3>2. \A x \in On(place, j) : second.array[x] = status[x]
      BY <1>7, <1>13, <2>1 DEF On
    <3>3. IsList(areas[j].FreeQubitsReuseAllowed, status, On(place, j))
      BY <1>1, <2>1
    <3> HIDE DEF second, q
    <3>4. IsList(areas[j].FreeQubitsReuseAllowed, second.array, On(q, j))
      BY <3>1, <3>2, <3>3, ListFrame
    <3> QED  BY <1>11, <2>4, <2>6, <3>4
  <2> QED  BY <2>5, <2>6
<1>15. Linked(Ids, areas', status', q)
  <2> HIDE DEF second, q, K
  <2> QED  BY <1>1, <1>2, <1>3, <1>6, <1>11, <1>12, <1>14 DEF Linked
<1>16. \A i \in 1 .. K : areas'[i].segment = areas[i].segment
  BY <1>9, <1>11
<1> QED  BY <1>2, <1>7, <1>11, <1>15, <1>16

-----------------------------------------------------------------------------
(* The inductive invariant                                                  *)

\* What an entry of the array marks the id as: 0 is free, 1 allocated, 2 disabled.
MarkOf(array, x) == IF array[x] = Allocated THEN 1 ELSE IF array[x] = Disabled THEN 2 ELSE 0

\* What is on no list is allocated, disabled or discarded.
Unlisted(entry) == entry \in {Allocated, Disabled} \/ (Discards /\ entry = None)

Covered(place) == \A x \in Ids : place[x] = 0 => Unlisted(status[x])

\* The segments of a release, of the n outermost areas, are running.
Running(release, stack, n) == \A j \in 1 .. n : release[j] = stack[j].segment

\* What area i allows was released in the segment of i that runs, or before the area
\* began, in the outermost; what it prohibits was released in an earlier segment of i.
HistoryOf(release, stack, k) ==
    /\ k >= 1 => /\ Len(release) <= k
                 /\ k > 1 => Len(release) = k
                 /\ Running(release, stack, Len(release))
    /\ k <= -1 => /\ Len(release) = -k
                  /\ Running(release, stack, -k - 1)
                  /\ release[-k] < stack[-k].segment
    /\ Discards /\ k # 0 => release = <<>>

History(place) == \A x \in Ids : HistoryOf(releasedIn[x], areas, place[x])

PlaceInv(place) == Linked(Ids, areas, status, place) /\ Covered(place) /\ History(place)

\* The program holds, or the loop has taken, what is marked.
HeldInv ==
    /\ held \subseteq Ids
    /\ \A x \in held : MarkOf(status, x) # 0
    /\ \A x \in Ids : MarkOf(status, x) = 1 =>
            x \in held \/ \E i \in 1 .. Len(call.got) : call.got[i] = x

Calls(ids) == [op : {"idle", "allocate"}, want : Nat, got : Seq(ids), undoing : BOOLEAN]

\* The loop has taken each qubit once, and none that the program holds.
CallInv ==
    /\ call \in Calls(Ids)
    /\ \A i, j \in 1 .. Len(call.got) : call.got[i] = call.got[j] => i = j
    /\ \A i \in 1 .. Len(call.got) : call.got[i] \notin held /\ MarkOf(status, call.got[i]) = 1
    /\ call.op = "idle" => call = Idle
    /\ call.undoing => call.got # <<>>

Marked(k) == {x \in Ids : MarkOf(status, x) = k}

CountInv ==
    /\ FreeQubitsCount = Cardinality(Marked(0))
    /\ AllocatedQubitsCount = Cardinality(Marked(1))
    /\ DisabledQubitsCount = Cardinality(Marked(2))

RTyping ==
    /\ Shape
    /\ configuration \in Configurations
    /\ releasedIn \in [Ids -> Seq(Nat \ {0})]

RInv == RTyping /\ (\E place : PlaceInv(place)) /\ HeldInv /\ CallInv /\ CountInv

-----------------------------------------------------------------------------
(* What the parts mean                                                      *)

LEMMA ShapeMeaning ==
    ASSUME Shape
    PROVE  /\ QubitCapacity \in Nat \ {0} /\ Ids = 0 .. QubitCapacity - 1
           /\ status \in [Ids -> Statuses] /\ IsFiniteSet(Ids)
<1>1. QubitCapacity \in Nat \ {0} /\ Ids = 0 .. QubitCapacity - 1 /\ status \in [Ids -> Statuses]
  BY DEF Shape, Ids
<1>2. IsFiniteSet(0 .. QubitCapacity - 1)
  BY <1>1, FS_Interval
<1> QED  BY <1>1, <1>2

\* The number of entries in an array of the ids from 0.
LEMMA ShapeFrom ==
    ASSUME NEW n \in Nat \ {0}, status \in [0 .. n - 1 -> Statuses]
    PROVE  Shape /\ QubitCapacity = n /\ Ids = 0 .. n - 1
<1>1. Ids = 0 .. n - 1
  BY DEF Ids
<1>2. Cardinality(0 .. n - 1) = n
  BY FS_Interval
<1> QED  BY <1>1, <1>2 DEF Shape, QubitCapacity

LEMMA MarkMeaning ==
    ASSUME NEW x \in Ids
    PROVE  /\ MarkOf(status, x) = 0 <=> IsFree(x)
           /\ MarkOf(status, x) = 1 <=> status[x] = Allocated
           /\ MarkOf(status, x) = 2 <=> status[x] = Disabled
           /\ MarkOf(status, x) \in {0, 1, 2}
BY SpecialEntries DEF MarkOf, IsFree

\* An id whose release was before the segments that run is permitted, and no other.
LEMMA PermittedMeaning ==
    ASSUME NEW x \in Ids, areas \in Seq(AreaRecords), releasedIn[x] \in Seq(Nat \ {0}),
           Len(releasedIn[x]) <= Len(areas)
    PROVE  Permitted(x) <=> Running(releasedIn[x], areas, Len(releasedIn[x]))
<1> DEFINE s == releasedIn[x]
           n == Len(s)
           prefix == SubSeq(Segments, 1, n)
<1>1. n \in Nat /\ Len(areas) \in Nat
  BY LenProperties
<1>2. \A i \in 1 .. Len(areas) : areas[i].segment \in Nat \ {0}
  <2>1. \A i \in 1 .. Len(areas) : areas[i] \in AreaRecords
    BY ElementOfSeq
  <2> QED  BY <2>1 DEF AreaRecords
<1>3. \A i \in 1 .. n : Segments[i] = areas[i].segment /\ Segments[i] \in Nat \ {0}
  BY <1>1, <1>2 DEF Segments
<1>4. /\ prefix \in Seq(Nat \ {0}) /\ Len(prefix) = n
      /\ \A i \in 1 .. n : prefix[i] = areas[i].segment
  <2>1. 1 \in Int /\ n \in Int /\ n - 1 + 1 = n /\ (~(1 <= n) => n = 0)
    BY <1>1
  <2>2. /\ prefix \in Seq(Nat \ {0})
        /\ Len(prefix) = IF 1 <= n THEN n - 1 + 1 ELSE 0
        /\ \A i \in 1 .. n - 1 + 1 : prefix[i] = Segments[1 + i - 1]
    <3> HIDE DEF n
    <3> QED  BY <1>3, <2>1, SubSeqProperties
  <2>3. \A i \in 1 .. n : 1 + i - 1 = i
    OBVIOUS
  <2> HIDE DEF prefix, n
  <2> QED  BY <1>3, <2>1, <2>2, <2>3
<1>5. (\A i \in 1 .. n : s[i] = prefix[i]) => s = prefix
  <2> HIDE DEF prefix
  <2> QED  BY <1>4, SeqEqual
<1> QED  BY <1>4, <1>5 DEF Permitted, Running

\* What an area allows is permitted, what it prohibits is not.
LEMMA PlacePermits ==
    ASSUME RTyping, NEW place, PlaceInv(place), NEW x \in Ids
    PROVE  /\ place[x] >= 1 => Permitted(x)
           /\ place[x] <= -1 => ~Permitted(x)
<1>1. /\ areas \in Seq(AreaRecords) /\ Len(areas) \in Nat \ {0}
      /\ releasedIn[x] \in Seq(Nat \ {0}) /\ Len(releasedIn[x]) \in Nat
      /\ place[x] \in Int /\ -Len(areas) <= place[x] /\ place[x] <= Len(areas)
  <2>1. areas \in Seq(AreaRecords) /\ Len(areas) \in Nat \ {0}
    BY DEF PlaceInv, Linked
  <2>2. releasedIn[x] \in Seq(Nat \ {0}) /\ Len(releasedIn[x]) \in Nat
    BY LenProperties DEF RTyping
  <2>3. place[x] \in Int /\ -Len(areas) <= place[x] /\ place[x] <= Len(areas)
    BY LinkedMeaning DEF PlaceInv
  <2> QED  BY <2>1, <2>2, <2>3
<1>2. History(place)
  BY DEF PlaceInv
<1>3. place[x] >= 1 => Permitted(x)
  <2>1. place[x] >= 1 => /\ Len(releasedIn[x]) <= Len(areas)
                         /\ Running(releasedIn[x], areas, Len(releasedIn[x]))
    BY <1>1, <1>2 DEF History, HistoryOf
  <2> QED  BY <1>1, <2>1, PermittedMeaning
<1>4. place[x] <= -1 => ~Permitted(x)
  <2> SUFFICES ASSUME place[x] <= -1, Permitted(x)
               PROVE  FALSE
    OBVIOUS
  <2>1. Len(releasedIn[x]) = -place[x] /\ releasedIn[x][-place[x]] < areas[-place[x]].segment
    BY <1>2 DEF History, HistoryOf
  <2>2. Running(releasedIn[x], areas, Len(releasedIn[x]))
    BY <1>1, <2>1, PermittedMeaning
  <2>3. -place[x] \in 1 .. Len(releasedIn[x]) /\ -place[x] \in 1 .. Len(areas)
    BY <1>1, <2>1
  <2>4. releasedIn[x][-place[x]] = areas[-place[x]].segment
    BY <2>2, <2>3 DEF Running
  <2>5. areas[-place[x]].segment \in Nat
    <3>1. areas[-place[x]] \in AreaRecords
      BY <1>1, <2>3, ElementOfSeq
    <3> QED  BY <3>1 DEF AreaRecords
  <2> QED  BY <2>1, <2>4, <2>5
<1> QED  BY <1>3, <1>4

\* The search for an area finds one if there is one.
LEMMA SearchFinds ==
    ASSUME OutOfQubits, Len(areas) \in Nat
    PROVE  \A i \in 1 .. Len(areas) : IsEmpty(areas[i].FreeQubitsReuseAllowed)
<1> DEFINE R == Reusable(areas)
           L == Len(areas)
<1>1. SUFFICES ASSUME R # {}
               PROVE  FALSE
  BY DEF Reusable
<1>2. R \subseteq 1 .. L
  BY DEF Reusable
<1>3. \E i \in R : \A j \in R : i <= j
  <2>1. R \in SUBSET Nat
    BY <1>2
  <2> HIDE DEF R
  <2> QED  BY <1>1, <2>1, LeastExists
<1>4. \E i \in R : \A j \in R : j <= i
  <2> DEFINE T == {k \in Nat : L - k \in R}
  <2>1. T \in SUBSET Nat /\ T # {}
    <3>1. PICK i \in R : TRUE
      BY <1>1
    <3>2. L - i \in Nat /\ L - (L - i) = i
      BY <1>2, <3>1
    <3> QED  BY <3>1, <3>2
  <2>2. PICK k \in T : \A l \in T : k <= l
    <3> HIDE DEF T
    <3> QED  BY <2>1, LeastExists
  <2>3. ASSUME NEW j \in R
        PROVE  j <= L - k
    <3>1. j \in 1 .. L
      BY <1>2
    <3>2. L - j \in Nat /\ L - (L - j) = j
      BY <3>1
    <3>3. k <= L - j
      BY <2>2, <3>2
    <3> QED  BY <2>2, <3>1, <3>3
  <2> QED  BY <2>2, <2>3
<1>5. PICK i \in R : \A j \in R : IF EncourageReuse THEN j <= i ELSE i <= j
  BY <1>3, <1>4
<1> QED  BY <1>5 DEF OutOfQubits, SearchStart

-----------------------------------------------------------------------------
(* Allocation and release: the pool                                         *)

\* What only the segments of areas 1 to n bear on.
LEMMA HistoryKept ==
    ASSUME NEW release, NEW stack, NEW k \in Int, HistoryOf(release, stack, k),
           Len(release) \in Nat, NEW n \in Nat, -n <= k, k <= n, NEW other,
           \A i \in 1 .. n : other[i].segment = stack[i].segment
    PROVE  HistoryOf(release, other, k)
<1>1. k >= 1 => /\ Len(release) <= k
                /\ k > 1 => Len(release) = k
                /\ Running(release, other, Len(release))
  BY DEF HistoryOf, Running
<1>2. k <= -1 => /\ Len(release) = -k
                 /\ Running(release, other, -k - 1)
                 /\ release[-k] < other[-k].segment
  <2>1. k <= -1 => -k \in 1 .. n
    OBVIOUS
  <2> QED  BY <2>1 DEF HistoryOf, Running
<1>3. Discards /\ k # 0 => release = <<>>
  BY DEF HistoryOf
<1> QED  BY <1>1, <1>2, <1>3 DEF HistoryOf

\* An id without a history may be on the list of what the outermost area allows, or on none.
LEMMA NoHistory ==
    ASSUME NEW stack, NEW k \in {0, 1}
    PROVE  HistoryOf(<<>>, stack, k)
BY DEF HistoryOf, Running

\* If no area has a qubit that may be reused, none may be.
LEMMA NonePermitted ==
    ASSUME RTyping, NEW place, PlaceInv(place), OutOfQubits, ~Discards,
           NEW x \in Ids, IsFree(x)
    PROVE  ~Permitted(x)
<1> DEFINE L == Len(areas)
<1>1. /\ Linked(Ids, areas, status, place) /\ Covered(place)
      /\ L \in Nat \ {0} /\ Ids \subseteq Nat
      /\ place \in [Ids -> -L .. L]
      /\ place[x] \in Int /\ -L <= place[x] /\ place[x] <= L
  BY LinkedMeaning DEF PlaceInv, Linked
<1>2. place[x] # 0
  BY <1>1 DEF Covered, Unlisted, IsFree
<1>3. ~(place[x] >= 1)
  <2> SUFFICES ASSUME place[x] >= 1
               PROVE  FALSE
    OBVIOUS
  <2>1. place[x] \in 1 .. L /\ x \in On(place, place[x])
    BY <1>1 DEF On
  <2>2. IsEmpty(areas[place[x]].FreeQubitsReuseAllowed)
    BY <1>1, <2>1, SearchFinds
  <2>3. IsList(areas[place[x]].FreeQubitsReuseAllowed, status, On(place, place[x]))
        /\ On(place, place[x]) \in SUBSET Nat
    BY <1>1, <2>1, LinkedMeaning DEF Linked
  <2> QED  BY <2>1, <2>2, <2>3, ListMeaning
<1>4. place[x] <= -1
  BY <1>1, <1>2, <1>3
<1> QED  BY <1>4, PlacePermits

\* One qubit is allocated: it was free and permitted, or is new; the capacity doubles only
\* if nothing free is permitted.
LEMMA AllocateEffect ==
    ASSUME RTyping, NEW place, PlaceInv(place), NEW id, AllocateOne(id), UNCHANGED configuration,
           FreeQubitsCount \in Int
    PROVE  /\ RTyping'
           /\ (\E q : PlaceInv(q))'
           /\ Ids \subseteq Ids' /\ id \in Ids'
           /\ \A x \in Ids : x # id => MarkOf(status', x) = MarkOf(status, x)
           /\ \A x \in Ids' : x \notin Ids /\ x # id => MarkOf(status', x) = 0
           /\ MarkOf(status', id) = 1
           /\ id \in Ids => /\ MarkOf(status, id) = 0 /\ Permitted(id)
                            /\ Discards => releasedIn[id] = <<>>
           /\ FreeQubitsCount' = FreeQubitsCount + (QubitCapacity' - QubitCapacity) - 1
           /\ Ids' # Ids /\ ~Discards => \A x \in Ids : IsFree(x) => ~Permitted(x)
<1> DEFINE L == Len(areas)
           N == QubitCapacity
<1>1. /\ Linked(Ids, areas, status, place) /\ Covered(place) /\ History(place)
      /\ areas \in Seq(AreaRecords) /\ L \in Nat \ {0}
      /\ place \in [Ids -> -L .. L]
      /\ \A x \in Ids : place[x] \in Int /\ -L <= place[x] /\ place[x] <= L
  BY LinkedMeaning DEF PlaceInv, Linked
<1>2. /\ N \in Nat \ {0} /\ Ids = 0 .. N - 1 /\ status \in [Ids -> Statuses]
      /\ releasedIn \in [Ids -> Seq(Nat \ {0})]
      /\ \A x \in Ids : Len(releasedIn[x]) \in Nat
  <2>1. releasedIn \in [Ids -> Seq(Nat \ {0})] /\ Shape
    BY DEF RTyping
  <2>2. \A x \in Ids : releasedIn[x] \in Seq(Nat \ {0})
    BY <2>1
  <2> QED  BY <2>1, <2>2, ShapeMeaning, LenProperties
<1>3. Discards' = Discards /\ configuration' \in Configurations /\ <<>> \in Seq(Nat \ {0})
  BY DEF Discards, MayExtendCapacity, EncourageReuse, RTyping
<1>4. CASE ~OutOfQubits
  <2>1. /\ Take(id, areas, status)
        /\ FreeQubitsCount' = FreeQubitsCount - 1
        /\ releasedIn' = [releasedIn EXCEPT ![id] = <<>>]
    BY <1>4 DEF AllocateOne
  <2>q. PICK q : q = [place EXCEPT ![id] = 0]
    OBVIOUS
  <2>2. /\ id \in Ids /\ place[id] \in 1 .. L
        /\ status' = [status EXCEPT ![id] = Allocated]
        /\ Linked(Ids, areas', status', q)
        /\ Len(areas') = L /\ \A j \in 1 .. L : areas'[j].segment = areas[j].segment
    BY <1>1, <2>1, <2>q, TakeLinked
  <2>3. Ids' = Ids /\ status' \in [Ids -> Statuses]
        /\ \A x \in Ids : status'[x] = IF x = id THEN Allocated ELSE status[x]
    <3>1. DOMAIN status = Ids
      BY DEF Ids
    <3> QED  BY <1>2, <2>2, <3>1 DEF Ids, Statuses
  <2>4. Shape' /\ QubitCapacity' = N
    BY <1>2, <2>3 DEF Shape, QubitCapacity, Ids
  <2>5. releasedIn' \in [Ids -> Seq(Nat \ {0})]
        /\ \A x \in Ids : releasedIn'[x] = IF x = id THEN <<>> ELSE releasedIn[x]
    BY <1>2, <1>3, <2>1, <2>2
  <2>6. \A x \in Ids : q[x] = IF x = id THEN 0 ELSE place[x]
    BY <1>1, <2>q
  <2>7. \A x \in Ids : MarkOf(status', x) = IF x = id THEN 1 ELSE MarkOf(status, x)
    BY <2>3 DEF MarkOf
  <2>8. Covered(q)'
    <3>1. ASSUME NEW x \in Ids, q[x] = 0
          PROVE  Unlisted(status'[x])
      <4>1. CASE x = id
        <5>1. status'[x] = Allocated
          BY <2>3, <4>1
        <5> QED  BY <5>1 DEF Unlisted
      <4>2. CASE x # id
        <5>1. place[x] = 0 /\ status'[x] = status[x]
          BY <2>3, <2>6, <3>1, <4>2
        <5> QED  BY <1>1, <5>1 DEF Covered
      <4> QED  BY <4>1, <4>2
    <3> QED  BY <1>3, <2>3, <3>1 DEF Covered, Unlisted
  <2>9. History(q)'
    <3>1. ASSUME NEW x \in Ids
          PROVE  HistoryOf(releasedIn'[x], areas', q[x])
      <4>1. CASE x = id
        BY <2>5, <2>6, <4>1, NoHistory
      <4>2. CASE x # id
        <5>1. HistoryOf(releasedIn[x], areas, place[x]) /\ q[x] = place[x]
              /\ releasedIn'[x] = releasedIn[x]
          BY <1>1, <2>5, <2>6, <4>2 DEF History
        <5> QED  BY <1>1, <1>2, <2>2, <5>1, HistoryKept
      <4> QED  BY <4>1, <4>2
    <3> QED  BY <1>3, <2>3, <3>1 DEF History, HistoryOf
  <2>10. PlaceInv(q)'
    BY <2>2, <2>3, <2>8, <2>9 DEF PlaceInv
  <2>11. MarkOf(status, id) = 0 /\ Permitted(id) /\ (Discards => releasedIn[id] = <<>>)
    <3>1. status[id] \notin {Allocated, Disabled}
      BY <1>1, <2>2, LinkedMeaning
    <3>2. Permitted(id)
      BY <2>2, PlacePermits
    <3>3. Discards => releasedIn[id] = <<>>
      BY <1>1, <2>2 DEF History, HistoryOf
    <3> QED  BY <3>1, <3>2, <3>3 DEF MarkOf
  <2>12. RTyping'
    BY <1>3, <2>3, <2>4, <2>5 DEF RTyping
  <2>13. (\E r : PlaceInv(r))'
    BY <2>10
  <2>14. FreeQubitsCount' = FreeQubitsCount + (QubitCapacity' - QubitCapacity) - 1
    BY <1>2, <2>1, <2>4
  <2> QED  BY <2>2, <2>3, <2>7, <2>11, <2>12, <2>13, <2>14
<1>5. CASE OutOfQubits
  <2>1. /\ Take(id, Grown.stack, Grown.array)
        /\ FreeQubitsCount' = FreeQubitsCount + N - 1
        /\ releasedIn' = [x \in 0 .. 2 * N - 1 |-> IF x \in Ids THEN releasedIn[x] ELSE <<>>]
    BY <1>5 DEF AllocateOne
  <2> DEFINE M == 2 * N
             D == 0 .. M - 1
  <2>l. PICK larger : larger = Larger(place, N)
    OBVIOUS
  <2>q. PICK q : q = [larger EXCEPT ![id] = 0]
    OBVIOUS
  <2>2. /\ Linked(D, Grown.stack, Grown.array, larger)
        /\ \A x \in Ids : Grown.array[x] = status[x]
        /\ Len(Grown.stack) = L /\ \A j \in 1 .. L : Grown.stack[j].segment = areas[j].segment
    BY <1>1, <2>l, GrownLinked DEF SameSegments, RTyping
  <2>3. /\ id \in D /\ larger[id] \in 1 .. L
        /\ status' = [Grown.array EXCEPT ![id] = Allocated]
        /\ Linked(D, areas', status', q)
        /\ Len(areas') = L /\ \A j \in 1 .. L : areas'[j].segment = areas[j].segment
    <3> HIDE DEF D
    <3>1. PICK stack : stack = Grown.stack
      OBVIOUS
    <3>2. PICK array : array = Grown.array
      OBVIOUS
    <3>3. Take(id, stack, array)
      BY <2>1, <3>1, <3>2 DEF Take
    <3>4. Linked(D, stack, array, larger)
      BY <2>2, <3>1, <3>2
    <3>5. /\ id \in D /\ larger[id] \in 1 .. Len(stack)
          /\ status' = [array EXCEPT ![id] = Allocated]
          /\ Linked(D, areas', status', [larger EXCEPT ![id] = 0])
          /\ Len(areas') = Len(stack)
          /\ \A k \in 1 .. Len(stack) : areas'[k].segment = stack[k].segment
      BY <3>3, <3>4, TakeLinked
    <3> HIDE DEF L
    <3> QED  BY <2>2, <2>q, <3>1, <3>2, <3>5
  <2>4. M \in Nat \ {0} /\ Ids \subseteq D /\ M # N /\ D # Ids
        /\ \A x \in D : larger[x] = IF x \in Ids THEN place[x] ELSE 1
    <3>1. M \in Nat \ {0} /\ M > N
      BY <1>2
    <3>2. N \in D /\ N \notin Ids /\ Ids \subseteq D
      BY <1>2
    <3> QED  BY <1>2, <2>l, <3>1, <3>2 DEF Larger
  <2>5. Grown.array \in [D -> Statuses] /\ status' \in [D -> Statuses]
        /\ \A x \in D : status'[x] = IF x = id THEN Allocated ELSE Grown.array[x]
    <3>1. Grown.array \in [D -> Statuses]
      BY <2>2 DEF Linked
    <3> HIDE DEF D
    <3> QED  BY <2>3, <3>1 DEF Statuses
  <2>6. Shape' /\ QubitCapacity' = M /\ Ids' = D
    <3>1. DOMAIN status' = D /\ Cardinality(D) = M
      BY <2>4, <2>5, FS_Interval
    <3>2. Ids' = D /\ QubitCapacity' = M
      BY <3>1 DEF Ids, QubitCapacity
    <3> QED  BY <2>4, <2>5, <3>2 DEF Shape
  <2>7. /\ \A x \in Ids : x # id => MarkOf(status', x) = MarkOf(status, x)
        /\ \A x \in D : x \notin Ids /\ x # id => MarkOf(status', x) = 0
        /\ MarkOf(status', id) = 1
        /\ id \in Ids => MarkOf(status, id) = 0
    <3>1. \A x \in D : x \notin Ids => Grown.array[x] \notin {Allocated, Disabled}
      <4>1. \A x \in D : x \notin Ids => larger[x] # 0
        BY <2>4
      <4> HIDE DEF D
      <4> QED  BY <2>2, <4>1, LinkedMeaning
    <3>2. id \in Ids => status[id] \notin {Allocated, Disabled}
      <4>1. id \in Ids => place[id] # 0
        BY <2>3, <2>4
      <4> QED  BY <1>1, <4>1, LinkedMeaning
    <3> HIDE DEF D
    <3> QED  BY <2>2, <2>3, <2>4, <2>5, <3>1, <3>2 DEF MarkOf
  <2>8. releasedIn' \in [D -> Seq(Nat \ {0})]
        /\ \A x \in D : releasedIn'[x] = IF x \in Ids THEN releasedIn[x] ELSE <<>>
    BY <1>2, <1>3, <2>1
  <2>9. \A x \in D : q[x] = IF x = id THEN 0 ELSE IF x \in Ids THEN place[x] ELSE 1
    <3>1. DOMAIN larger = D
      BY <2>l DEF Larger
    <3> HIDE DEF D
    <3> QED  BY <2>4, <2>q, <3>1
  <2>10. Covered(q)'
    <3> HIDE DEF D
    <3>1. ASSUME NEW x \in D, q[x] = 0
          PROVE  Unlisted(status'[x])
      <4>1. CASE x = id
        <5>1. status'[x] = Allocated
          BY <2>5, <4>1
        <5> QED  BY <5>1 DEF Unlisted
      <4>2. CASE x # id
        <5>1. x \in Ids /\ place[x] = 0 /\ status'[x] = status[x]
          BY <2>2, <2>5, <2>9, <3>1, <4>2
        <5> QED  BY <1>1, <5>1 DEF Covered
      <4> QED  BY <4>1, <4>2
    <3> QED  BY <1>3, <2>6, <3>1 DEF Covered, Unlisted
  <2>11. History(q)'
    <3>1. ASSUME NEW x \in D
          PROVE  HistoryOf(releasedIn'[x], areas', q[x])
      <4> HIDE DEF D
      <4>1. CASE x \in Ids /\ x # id
        <5>1. HistoryOf(releasedIn[x], areas, place[x]) /\ q[x] = place[x]
              /\ releasedIn'[x] = releasedIn[x]
          BY <1>1, <2>8, <2>9, <4>1 DEF History
        <5> QED  BY <1>1, <1>2, <2>3, <4>1, <5>1, HistoryKept
      <4>2. CASE x = id
        <5>1. q[x] = 0
          BY <2>9, <4>2
        <5> QED  BY <5>1 DEF HistoryOf
      <4>3. CASE x \notin Ids
        <5>1. q[x] \in {0, 1} /\ releasedIn'[x] = <<>>
          BY <2>8, <2>9, <4>3
        <5> QED  BY <5>1, NoHistory
      <4> QED  BY <4>1, <4>2, <4>3
    <3> HIDE DEF D
    <3> QED  BY <1>3, <2>6, <3>1 DEF History, HistoryOf
  <2>12. PlaceInv(q)'
    <3> HIDE DEF D
    <3> QED  BY <2>3, <2>6, <2>10, <2>11 DEF PlaceInv
  <2>13. id \in Ids => Permitted(id) /\ (Discards => releasedIn[id] = <<>>)
    <3>1. id \in Ids => place[id] >= 1
      BY <2>3, <2>4
    <3>2. id \in Ids => Permitted(id)
      BY <3>1, PlacePermits
    <3>3. id \in Ids /\ Discards => releasedIn[id] = <<>>
      BY <1>1, <3>1 DEF History, HistoryOf
    <3> QED  BY <3>2, <3>3
  <2>14. ~Discards => \A x \in Ids : IsFree(x) => ~Permitted(x)
    BY <1>5, NonePermitted
  <2>15. RTyping'
    BY <1>3, <2>6, <2>8 DEF RTyping
  <2>16. FreeQubitsCount' = FreeQubitsCount + (QubitCapacity' - QubitCapacity) - 1
    <3>1. QubitCapacity' - QubitCapacity = N
      BY <1>2, <2>6
    <3> QED  BY <2>1, <3>1
  <2>17. (\E r : PlaceInv(r))'
    BY <2>12
  <2> HIDE DEF D, M
  <2> QED  BY <2>3, <2>4, <2>6, <2>7, <2>13, <2>14, <2>15, <2>16, <2>17
<1> QED  BY <1>4, <1>5

-----------------------------------------------------------------------------
(* Releases and areas: the pool                                             *)

\* A step in which the capacity stays.
LEMMA TypingKept ==
    ASSUME RTyping, status' \in [Ids -> Statuses], releasedIn' \in [Ids -> Seq(Nat \ {0})],
           UNCHANGED configuration
    PROVE  RTyping' /\ Ids' = Ids /\ Discards' = Discards
<1>1. /\ QubitCapacity \in Nat \ {0} /\ Ids = 0 .. QubitCapacity - 1
      /\ configuration \in Configurations
  BY ShapeMeaning DEF RTyping
<1>2. Ids' = Ids
  BY DEF Ids
<1>3. QubitCapacity' = QubitCapacity
  BY <1>2 DEF QubitCapacity
<1>4. Shape'
  BY <1>1, <1>2, <1>3 DEF Shape
<1> QED  BY <1>1, <1>2, <1>4 DEF RTyping, Discards, MayExtendCapacity, EncourageReuse

\* What the invariant of a place says, with the types it rests on.
LEMMA PlaceMeaning ==
    ASSUME RTyping, NEW place, PlaceInv(place)
    PROVE  /\ Linked(Ids, areas, status, place) /\ Covered(place)
           /\ \A x \in Ids : HistoryOf(releasedIn[x], areas, place[x])
           /\ areas \in Seq(AreaRecords) /\ Len(areas) \in Nat \ {0}
           /\ \A i \in 1 .. Len(areas) : areas[i].segment \in Nat \ {0}
           /\ Ids \subseteq Nat /\ status \in [Ids -> Statuses]
           /\ releasedIn \in [Ids -> Seq(Nat \ {0})]
           /\ \A x \in Ids : Len(releasedIn[x]) \in Nat
           /\ place \in [Ids -> -Len(areas) .. Len(areas)]
           /\ \A x \in Ids : /\ place[x] \in Int
                             /\ -Len(areas) <= place[x] /\ place[x] <= Len(areas)
           /\ \A x \in Ids : place[x] # 0 => MarkOf(status, x) = 0
<1>1. /\ Linked(Ids, areas, status, place) /\ Covered(place)
      /\ \A x \in Ids : HistoryOf(releasedIn[x], areas, place[x])
      /\ areas \in Seq(AreaRecords) /\ Len(areas) \in Nat \ {0}
      /\ place \in [Ids -> -Len(areas) .. Len(areas)]
      /\ Ids \subseteq Nat /\ status \in [Ids -> Statuses]
  BY DEF PlaceInv, Linked, History
<1>2. \A i \in 1 .. Len(areas) : areas[i].segment \in Nat \ {0}
  <2>1. \A i \in 1 .. Len(areas) : areas[i] \in AreaRecords
    BY <1>1, ElementOfSeq
  <2> QED  BY <2>1 DEF AreaRecords
<1>3. /\ releasedIn \in [Ids -> Seq(Nat \ {0})]
      /\ \A x \in Ids : Len(releasedIn[x]) \in Nat
  <2>1. releasedIn \in [Ids -> Seq(Nat \ {0})]
    BY DEF RTyping
  <2> QED  BY <2>1, LenProperties
<1>4. /\ \A x \in Ids : /\ place[x] \in Int
                        /\ -Len(areas) <= place[x] /\ place[x] <= Len(areas)
      /\ \A x \in Ids : place[x] # 0 => status[x] \notin {Allocated, Disabled}
  BY <1>1, LinkedMeaning
<1>5. \A x \in Ids : place[x] # 0 => MarkOf(status, x) = 0
  BY <1>4 DEF MarkOf
<1> QED  BY <1>1, <1>2, <1>3, <1>4, <1>5

\* A new place of every id is right once its three parts are.
LEMMA PlaceFrom ==
    ASSUME NEW q, Linked(Ids, areas', status', q), Ids' = Ids, Discards' = Discards,
           \A x \in Ids : q[x] = 0 => Unlisted(status'[x]),
           \A x \in Ids : HistoryOf(releasedIn'[x], areas', q[x])
    PROVE  PlaceInv(q)'
<1>1. Covered(q)'
  BY DEF Covered, Unlisted
<1>2. History(q)'
  BY DEF History, HistoryOf
<1> QED  BY <1>1, <1>2 DEF PlaceInv

\* A released qubit is free, and on a list unless it is discarded.
LEMMA ReleaseEffect ==
    ASSUME RTyping, NEW place, PlaceInv(place), NEW id \in Ids, MarkOf(status, id) # 0,
           EncourageReuse \/ MayExtendCapacity, ReleaseOne(id), UNCHANGED configuration
    PROVE  /\ RTyping' /\ (\E q : PlaceInv(q))' /\ Ids' = Ids
           /\ \A x \in Ids : MarkOf(status', x) = IF x = id THEN 0 ELSE MarkOf(status, x)
<1> DEFINE L == Len(areas)
<1>1. /\ Linked(Ids, areas, status, place) /\ Covered(place)
      /\ \A x \in Ids : HistoryOf(releasedIn[x], areas, place[x])
      /\ L \in Nat \ {0} /\ \A i \in 1 .. L : areas[i].segment \in Nat \ {0}
      /\ releasedIn \in [Ids -> Seq(Nat \ {0})] /\ status \in [Ids -> Statuses]
      /\ \A x \in Ids : Len(releasedIn[x]) \in Nat
      /\ place \in [Ids -> -L .. L]
      /\ \A x \in Ids : place[x] \in Int /\ -L <= place[x] /\ place[x] <= L
      /\ place[id] = 0
  BY PlaceMeaning
<1>2. PICK q : q = Released(place, id)
  OBVIOUS
<1>3. /\ Linked(Ids, areas', status', q)
      /\ \A x \in Ids : x # id => status'[x] = status[x]
      /\ status'[id] \notin {Allocated, Disabled}
      /\ Len(areas') = L /\ \A i \in 1 .. L : areas'[i].segment = areas[i].segment
  BY <1>1, <1>2, ReleaseLinked DEF SameSegments
<1>4. /\ Segments \in Seq(Nat \ {0}) /\ Len(Segments) = L
      /\ \A i \in 1 .. L : Segments[i] = areas[i].segment
  BY <1>1 DEF Segments
<1>5. /\ releasedIn' \in [Ids -> Seq(Nat \ {0})]
      /\ \A x \in Ids : releasedIn'[x] = IF x = id THEN Segments ELSE releasedIn[x]
  <2>1. releasedIn' = [releasedIn EXCEPT ![id] = Segments]
    BY DEF ReleaseOne
  <2> QED  BY <1>1, <1>4, <2>1
<1>6. status' \in [Ids -> Statuses]
  BY <1>3 DEF Linked
<1>7. RTyping' /\ Ids' = Ids /\ Discards' = Discards
  BY <1>5, <1>6, TypingKept
<1>8. \A x \in Ids : MarkOf(status', x) = IF x = id THEN 0 ELSE MarkOf(status, x)
  BY <1>3 DEF MarkOf
<1>9. \A x \in Ids : q[x] = IF x = id /\ ~Discards THEN L ELSE place[x]
  <2>1. CASE Discards
    BY <1>2, <2>1 DEF Released
  <2>2. CASE ~Discards
    BY <1>1, <1>2, <2>2 DEF Released
  <2> QED  BY <2>1, <2>2
<1>10. ASSUME NEW x \in Ids, q[x] = 0
       PROVE  Unlisted(status'[x])
  <2>1. CASE x # id
    <3>1. place[x] = 0 /\ status'[x] = status[x]
      BY <1>3, <1>9, <1>10, <2>1
    <3> QED  BY <1>1, <3>1 DEF Covered
  <2>2. CASE x = id
    <3>1. Discards
      BY <1>1, <1>9, <1>10, <2>2
    <3>2. status' = [status EXCEPT ![id] = None]
      BY <3>1 DEF ReleaseOne, Discards
    <3>3. status'[id] = None
      BY <1>1, <3>2
    <3> QED  BY <2>2, <3>1, <3>3 DEF Unlisted
  <2> QED  BY <2>1, <2>2
<1>11. ASSUME NEW x \in Ids
       PROVE  HistoryOf(releasedIn'[x], areas', q[x])
  <2>1. CASE x # id
    <3>1. HistoryOf(releasedIn[x], areas, place[x]) /\ q[x] = place[x]
          /\ releasedIn'[x] = releasedIn[x]
      BY <1>1, <1>5, <1>9, <2>1
    <3> QED  BY <1>1, <1>3, <3>1, HistoryKept
  <2>2. CASE x = id /\ Discards
    <3>1. q[x] = 0
      BY <1>1, <1>9, <2>2
    <3> QED  BY <3>1 DEF HistoryOf
  <2>3. CASE x = id /\ ~Discards
    <3>1. q[x] = L /\ releasedIn'[x] = Segments
      BY <1>5, <1>9, <2>3
    <3>2. Running(Segments, areas', L)
      BY <1>3, <1>4 DEF Running
    <3> HIDE DEF L
    <3> QED  BY <1>1, <1>4, <2>3, <3>1, <3>2 DEF HistoryOf
  <2> QED  BY <2>1, <2>2, <2>3
<1>12. PlaceInv(q)'
  BY <1>3, <1>7, <1>10, <1>11, PlaceFrom
<1> QED  BY <1>7, <1>8, <1>12

\* A new area allows and prohibits nothing yet.
LEMMA StartEffect ==
    ASSUME RTyping, NEW place, PlaceInv(place), StartRestrictedReuseArea,
           UNCHANGED configuration
    PROVE  RTyping' /\ (\E q : PlaceInv(q))' /\ Ids' = Ids
<1> DEFINE L == Len(areas)
<1>1. /\ Linked(Ids, areas, status, place) /\ Covered(place)
      /\ \A x \in Ids : HistoryOf(releasedIn[x], areas, place[x])
      /\ L \in Nat \ {0} /\ releasedIn \in [Ids -> Seq(Nat \ {0})]
      /\ status \in [Ids -> Statuses]
      /\ \A x \in Ids : Len(releasedIn[x]) \in Nat
      /\ \A x \in Ids : place[x] \in Int /\ -L <= place[x] /\ place[x] <= L
  BY PlaceMeaning
<1>2. /\ areas' = Append(areas, Area(EmptyList))
      /\ status' = status /\ releasedIn' = releasedIn
  BY DEF StartRestrictedReuseArea
<1>3. /\ Linked(Ids, areas', status', place)
      /\ \A i \in 1 .. L : areas'[i].segment = areas[i].segment
  BY <1>1, <1>2, StartLinked
<1>4. RTyping' /\ Ids' = Ids /\ Discards' = Discards
  BY <1>1, <1>2, TypingKept
<1>5. \A x \in Ids : place[x] = 0 => Unlisted(status'[x])
  BY <1>1, <1>2 DEF Covered
<1>6. ASSUME NEW x \in Ids
      PROVE  HistoryOf(releasedIn'[x], areas', place[x])
  BY <1>1, <1>2, <1>3, HistoryKept
<1>7. PlaceInv(place)'
  BY <1>3, <1>4, <1>5, <1>6, PlaceFrom
<1> QED  BY <1>4, <1>7

\* What was allowed in the segment before was released in an earlier segment.
LEMMA SegmentEffect ==
    ASSUME RTyping, NEW place, PlaceInv(place), NextRestrictedReuseSegment,
           UNCHANGED configuration
    PROVE  /\ RTyping' /\ (\E q : PlaceInv(q))' /\ Ids' = Ids
           /\ \A x \in Ids : MarkOf(status', x) = MarkOf(status, x)
<1> DEFINE L == Len(areas)
<1>1. /\ Linked(Ids, areas, status, place) /\ Covered(place)
      /\ \A x \in Ids : HistoryOf(releasedIn[x], areas, place[x])
      /\ L \in Nat \ {0} /\ \A i \in 1 .. L : areas[i].segment \in Nat \ {0}
      /\ releasedIn \in [Ids -> Seq(Nat \ {0})]
      /\ \A x \in Ids : Len(releasedIn[x]) \in Nat
      /\ \A x \in Ids : place[x] \in Int /\ -L <= place[x] /\ place[x] <= L
      /\ \A x \in Ids : place[x] # 0 => MarkOf(status, x) = 0
  BY PlaceMeaning
<1>2. releasedIn' = releasedIn /\ L > 1
  BY DEF NextRestrictedReuseSegment
<1>3. PICK q : q = Prohibited(place)
  OBVIOUS
<1>4. /\ Linked(Ids, areas', status', q)
      /\ \A x \in Ids : place[x] # L => status'[x] = status[x]
      /\ Len(areas') = L
      /\ \A i \in 1 .. L : areas'[i].segment =
            IF i = L THEN areas[i].segment + 1 ELSE areas[i].segment
  BY <1>1, <1>3, SegmentLinked
<1>5. status' \in [Ids -> Statuses]
  BY <1>4 DEF Linked
<1>6. RTyping' /\ Ids' = Ids /\ Discards' = Discards
  BY <1>1, <1>2, <1>5, TypingKept
<1>7. \A x \in Ids : q[x] = IF place[x] = L THEN -L ELSE place[x]
  BY <1>3 DEF Prohibited
<1>8. ASSUME NEW x \in Ids
      PROVE  MarkOf(status', x) = MarkOf(status, x)
  <2>1. CASE place[x] # L
    BY <1>4, <2>1 DEF MarkOf
  <2>2. CASE place[x] = L
    <3>1. q[x] # 0 /\ place[x] # 0
      BY <1>1, <1>7, <2>2
    <3>2. status'[x] \notin {Allocated, Disabled}
      BY <1>4, <3>1, LinkedMeaning
    <3> QED  BY <1>1, <3>1, <3>2 DEF MarkOf
  <2> QED  BY <2>1, <2>2
<1>9. ASSUME NEW x \in Ids, q[x] = 0
      PROVE  Unlisted(status'[x])
  <2>1. place[x] = 0 /\ status'[x] = status[x]
    BY <1>1, <1>4, <1>7, <1>9
  <2> QED  BY <1>1, <2>1 DEF Covered
<1>10. ASSUME NEW x \in Ids
       PROVE  HistoryOf(releasedIn'[x], areas', q[x])
  <2> DEFINE release == releasedIn[x]
             segment == areas[L].segment
  <2>1. HistoryOf(release, areas, place[x]) /\ releasedIn'[x] = release /\ Len(release) \in Nat
    BY <1>1, <1>2
  <2>2. segment \in Nat /\ areas'[L].segment = segment + 1
    BY <1>1, <1>4
  <2>3. \A i \in 1 .. L - 1 : areas'[i].segment = areas[i].segment
    BY <1>1, <1>4
  <2>4. CASE place[x] = L
    <3>1. Len(release) = L /\ Running(release, areas, L) /\ (Discards => release = <<>>)
      BY <1>1, <1>2, <2>1, <2>4 DEF HistoryOf
    <3>2. Running(release, areas', L - 1) /\ release[L] = segment
      <4>1. L \in 1 .. L /\ \A i \in 1 .. L - 1 : i \in 1 .. L
        BY <1>1
      <4>2. \A i \in 1 .. L : release[i] = areas[i].segment
        BY <3>1 DEF Running
      <4> HIDE DEF L, release
      <4> QED  BY <2>3, <4>1, <4>2 DEF Running
    <3>3. q[x] = -L /\ -(-L) = L
      BY <1>1, <1>7, <2>4
    <3> HIDE DEF L, release, segment
    <3> QED  BY <1>1, <2>1, <2>2, <3>1, <3>2, <3>3 DEF HistoryOf
  <2>5. CASE place[x] = -L
    <3>1. /\ Len(release) = L /\ Running(release, areas, L - 1) /\ release[L] < segment
          /\ Discards => release = <<>>
      <4>1. -(-L) = L /\ -L <= -1 /\ -L # 0
        BY <1>1
      <4> HIDE DEF release
      <4> QED  BY <2>1, <2>5, <4>1 DEF HistoryOf
    <3>2. Running(release, areas', L - 1)
      BY <2>3, <3>1 DEF Running
    <3>3. q[x] = -L /\ -(-L) = L /\ -L <= -1 /\ ~(-L >= 1)
      BY <1>1, <1>7, <2>5
    <3>4. release[L] < areas'[L].segment
      <4>1. release[L] \in Nat
        <5>1. release \in Seq(Nat \ {0}) /\ L \in 1 .. Len(release)
          BY <1>1, <3>1
        <5>2. release[L] \in Nat \ {0}
          BY <5>1, ElementOfSeq
        <5> QED  BY <5>2
      <4> HIDE DEF release, segment
      <4> QED  BY <2>2, <3>1, <4>1
    <3> HIDE DEF L, release
    <3> QED  BY <2>1, <3>1, <3>2, <3>3, <3>4 DEF HistoryOf
  <2>6. CASE place[x] \notin {L, -L}
    <3>1. q[x] = place[x] /\ place[x] \in Int /\ -(L - 1) <= place[x] /\ place[x] <= L - 1
          /\ L - 1 \in Nat
      BY <1>1, <1>7, <2>6
    <3> HIDE DEF release, L
    <3> QED  BY <2>1, <2>3, <3>1, HistoryKept
  <2> QED  BY <2>4, <2>5, <2>6
<1>11. PlaceInv(q)'
  BY <1>4, <1>6, <1>9, <1>10, PlaceFrom
<1> QED  BY <1>6, <1>8, <1>11

\* The history of a release keeps the segments of the areas that go on.
LEMMA OutsideMeaning ==
    ASSUME NEW release \in Seq(Nat \ {0}), Len(areas) \in Nat, Len(areas) > 1
    PROVE  /\ Outside(release) \in Seq(Nat \ {0})
           /\ Len(release) < Len(areas) => Len(Outside(release)) = Len(release)
           /\ Len(release) >= Len(areas) => Len(Outside(release)) = Len(areas) - 1
           /\ Len(Outside(release)) \in Nat
           /\ \A j \in 1 .. Len(Outside(release)) : Outside(release)[j] = release[j]
           /\ Outside(<<>>) = <<>>
<1> DEFINE L == Len(areas)
           n == IF Len(release) < L THEN Len(release) ELSE L - 1
           cut == SubSeq(release, 1, n)
<1>1. n \in Nat /\ n <= Len(release) /\ Len(release) \in Nat
  BY LenProperties
<1>2. Outside(release) = cut
  BY DEF Outside
<1>3. \A j \in 1 .. n : release[j] \in Nat \ {0}
  <2> HIDE DEF n
  <2> QED  BY <1>1, ElementOfSeq
<1>4. /\ cut \in Seq(Nat \ {0}) /\ Len(cut) = n
      /\ \A j \in 1 .. n : cut[j] = release[j]
  <2>1. 1 \in Int /\ n \in Int /\ n - 1 + 1 = n /\ (~(1 <= n) => n = 0)
    BY <1>1
  <2>2. /\ cut \in Seq(Nat \ {0})
        /\ Len(cut) = IF 1 <= n THEN n - 1 + 1 ELSE 0
        /\ \A j \in 1 .. n - 1 + 1 : cut[j] = release[1 + j - 1]
    <3> HIDE DEF n
    <3> QED  BY <1>3, <2>1, SubSeqProperties
  <2>3. \A j \in 1 .. n : 1 + j - 1 = j
    BY <1>1
  <2> HIDE DEF cut, n
  <2> QED  BY <2>1, <2>2, <2>3
<1>5. Outside(<<>>) = <<>>
  <2>1. Len(<<>>) = 0 /\ 0 < L
    OBVIOUS
  <2>2. Outside(<<>>) = SubSeq(<<>>, 1, 0)
    BY <2>1 DEF Outside
  <2>3. SubSeq(<<>>, 1, 0) = <<>>
    OBVIOUS
  <2> QED  BY <2>2, <2>3
<1>6. (Len(release) < L => n = Len(release)) /\ (Len(release) >= L => n = L - 1)
  BY <1>1
<1> HIDE DEF n, cut
<1> QED  BY <1>1, <1>2, <1>4, <1>5, <1>6

\* The containing area may reuse what the area that ends allowed or prohibited.
LEMMA EndEffect ==
    ASSUME RTyping, NEW place, PlaceInv(place), EndRestrictedReuseArea, UNCHANGED configuration
    PROVE  /\ RTyping' /\ (\E q : PlaceInv(q))' /\ Ids' = Ids
           /\ \A x \in Ids : MarkOf(status', x) = MarkOf(status, x)
<1> DEFINE L == Len(areas)
<1>1. /\ Linked(Ids, areas, status, place) /\ Covered(place)
      /\ \A x \in Ids : HistoryOf(releasedIn[x], areas, place[x])
      /\ L \in Nat \ {0} /\ \A i \in 1 .. L : areas[i].segment \in Nat \ {0}
      /\ releasedIn \in [Ids -> Seq(Nat \ {0})]
      /\ \A x \in Ids : Len(releasedIn[x]) \in Nat
      /\ \A x \in Ids : place[x] \in Int /\ -L <= place[x] /\ place[x] <= L
      /\ \A x \in Ids : place[x] # 0 => MarkOf(status, x) = 0
  BY PlaceMeaning
<1>2. releasedIn' = [x \in Ids |-> Outside(releasedIn[x])] /\ L > 1
  BY DEF EndRestrictedReuseArea
<1>3. PICK q : q = Returned(place)
  OBVIOUS
<1>4. /\ Linked(Ids, areas', status', q)
      /\ \A x \in Ids : place[x] \notin {L, -L} => status'[x] = status[x]
      /\ Len(areas') = L - 1
      /\ \A i \in 1 .. L - 1 : areas'[i].segment = areas[i].segment
  BY <1>1, <1>3, EndLinked
<1>5. status' \in [Ids -> Statuses]
  BY <1>4 DEF Linked
<1>6. /\ \A x \in Ids : releasedIn'[x] = Outside(releasedIn[x])
      /\ releasedIn' \in [Ids -> Seq(Nat \ {0})]
  BY <1>1, <1>2, OutsideMeaning
<1>7. RTyping' /\ Ids' = Ids /\ Discards' = Discards
  BY <1>5, <1>6, TypingKept
<1>8. \A x \in Ids : q[x] = IF place[x] \in {L, -L} THEN L - 1 ELSE place[x]
  BY <1>3 DEF Returned
<1>9. ASSUME NEW x \in Ids
      PROVE  MarkOf(status', x) = MarkOf(status, x)
  <2>1. CASE place[x] \notin {L, -L}
    BY <1>4, <2>1 DEF MarkOf
  <2>2. CASE place[x] \in {L, -L}
    <3>1. q[x] # 0 /\ place[x] # 0
      BY <1>1, <1>2, <1>8, <2>2
    <3>2. status'[x] \notin {Allocated, Disabled}
      BY <1>4, <3>1, LinkedMeaning
    <3> QED  BY <1>1, <3>1, <3>2 DEF MarkOf
  <2> QED  BY <2>1, <2>2
<1>10. ASSUME NEW x \in Ids, q[x] = 0
       PROVE  Unlisted(status'[x])
  <2>1. place[x] = 0 /\ status'[x] = status[x]
    BY <1>1, <1>2, <1>4, <1>8, <1>10
  <2> QED  BY <1>1, <2>1 DEF Covered
<1>11. ASSUME NEW x \in Ids
       PROVE  HistoryOf(releasedIn'[x], areas', q[x])
  <2> DEFINE release == releasedIn[x]
             left == Outside(release)
             k == place[x]
  <2>1. HistoryOf(release, areas, k) /\ releasedIn'[x] = left /\ Len(release) \in Nat
    BY <1>1, <1>6
  <2>2. /\ Len(release) < L => Len(left) = Len(release)
        /\ Len(release) >= L => Len(left) = L - 1
        /\ Len(left) \in Nat /\ \A j \in 1 .. Len(left) : left[j] = release[j]
        /\ Outside(<<>>) = <<>>
    BY <1>1, <1>2, OutsideMeaning
  <2>3. k \in Int /\ -L <= k /\ k <= L
    BY <1>1
  <2>4. CASE k \in {L, -L}
    <3>1. Len(release) = L /\ Running(release, areas, L - 1) /\ (Discards => release = <<>>)
      <4>1. CASE k = L
        <5>1. Len(release) = L /\ Running(release, areas, L) /\ (Discards => release = <<>>)
          <6> HIDE DEF release
          <6> QED  BY <1>1, <1>2, <2>1, <4>1 DEF HistoryOf
        <5>2. \A i \in 1 .. L - 1 : i \in 1 .. L
          BY <1>1
        <5> HIDE DEF L, release
        <5> QED  BY <5>1, <5>2 DEF Running
      <4>2. CASE k = -L
        <5>1. -(-L) = L /\ -L <= -1 /\ -L # 0
          BY <1>1
        <5> HIDE DEF release
        <5> QED  BY <2>1, <4>2, <5>1 DEF HistoryOf
      <4> QED  BY <2>4, <4>1, <4>2
    <3>2. Len(left) = L - 1 /\ Running(left, areas', L - 1)
      <4>1. Len(left) = L - 1
        BY <1>1, <2>2, <3>1
      <4> HIDE DEF L, left, release
      <4> QED  BY <1>4, <2>2, <3>1, <4>1 DEF Running
    <3>3. Discards => left = <<>>
      <4> HIDE DEF L
      <4> QED  BY <2>2, <3>1
    <3>4. q[x] = L - 1 /\ L - 1 \in Nat /\ L - 1 >= 1
      BY <1>1, <1>2, <1>8, <2>4
    <3> HIDE DEF L, left
    <3> QED  BY <2>1, <3>2, <3>3, <3>4 DEF HistoryOf
  <2>5. CASE k \notin {L, -L} /\ k # 0
    <3>1. q[x] = k /\ -(L - 1) <= k /\ k <= L - 1 /\ L - 1 \in Nat
      BY <1>1, <1>8, <2>3, <2>5
    <3>2. HistoryOf(release, areas', k)
      <4> HIDE DEF release, L, k
      <4> QED  BY <1>4, <2>1, <2>3, <3>1, HistoryKept
    <3>3. Len(release) <= k \/ Len(release) = -k
      <4> HIDE DEF release, k
      <4> QED  BY <2>1, <2>3, <2>5 DEF HistoryOf
    <3>4. Len(left) = Len(release)
      <4>1. Len(release) < L
        <5> HIDE DEF release, k
        <5> QED  BY <1>1, <2>1, <2>3, <3>1, <3>3
      <4> QED  BY <2>2, <4>1
    <3>5. HistoryOf(left, areas', k)
      <4> DEFINE n == Len(release)
      <4>1. n \in Nat /\ Len(left) = n /\ \A j \in 1 .. n : left[j] = release[j]
        BY <2>1, <2>2, <3>4
      <4>2. /\ k >= 1 => /\ n <= k
                         /\ k > 1 => n = k
                         /\ Running(release, areas', n)
            /\ k <= -1 => /\ n = -k
                          /\ Running(release, areas', -k - 1)
                          /\ release[-k] < areas'[-k].segment
            /\ Discards => release = <<>>
        BY <2>5, <3>2 DEF HistoryOf
      <4>3. k >= 1 => Running(left, areas', n)
        <5> HIDE DEF left, release, n, k
        <5> QED  BY <4>1, <4>2 DEF Running
      <4>4. k <= -1 => Running(left, areas', -k - 1) /\ left[-k] = release[-k]
        <5>1. k <= -1 => -k \in 1 .. n /\ \A j \in 1 .. -k - 1 : j \in 1 .. n
          <6> HIDE DEF k, n
          <6> QED  BY <2>3, <4>1, <4>2
        <5> HIDE DEF left, release, n, k
        <5> QED  BY <4>1, <4>2, <5>1 DEF Running
      <4>5. Discards => left = <<>>
        BY <2>2, <4>2
      <4> HIDE DEF left, release, n, k
      <4> QED  BY <4>1, <4>2, <4>3, <4>4, <4>5 DEF HistoryOf
    <3> QED  BY <2>1, <3>1, <3>5
  <2>6. CASE k = 0
    <3>1. q[x] = 0
      BY <1>1, <1>8, <2>6
    <3> QED  BY <3>1 DEF HistoryOf
  <2> QED  BY <2>4, <2>5, <2>6
<1>12. PlaceInv(q)'
  BY <1>4, <1>7, <1>10, <1>11, PlaceFrom
<1> QED  BY <1>7, <1>9, <1>12

\* A disabled qubit stays on no list.
LEMMA DisableEffect ==
    ASSUME RTyping, NEW place, PlaceInv(place), NEW id \in Ids, Disable(id),
           UNCHANGED configuration
    PROVE  /\ RTyping' /\ (\E q : PlaceInv(q))' /\ Ids' = Ids
           /\ \A x \in Ids : MarkOf(status', x) = IF x = id THEN 2 ELSE MarkOf(status, x)
           /\ MarkOf(status, id) = 1
<1>1. /\ Linked(Ids, areas, status, place) /\ Covered(place)
      /\ \A x \in Ids : HistoryOf(releasedIn[x], areas, place[x])
      /\ releasedIn \in [Ids -> Seq(Nat \ {0})] /\ status \in [Ids -> Statuses]
      /\ \A x \in Ids : place[x] # 0 => MarkOf(status, x) = 0
  BY PlaceMeaning
<1>2. /\ status[id] = Allocated /\ status' = [status EXCEPT ![id] = Disabled]
      /\ areas' = areas /\ releasedIn' = releasedIn
  BY DEF Disable
<1>3. MarkOf(status, id) = 1 /\ place[id] = 0
  BY <1>1, <1>2 DEF MarkOf
<1>4. Linked(Ids, areas', status', place)
  <2>1. Disabled \in Statuses
    BY DEF Statuses
  <2>2. Linked(Ids, areas, [status EXCEPT ![id] = Disabled], place)
    BY <1>1, <1>3, <2>1, UnlistedFrame
  <2> QED  BY <1>2, <2>2
<1>5. /\ status' \in [Ids -> Statuses]
      /\ \A x \in Ids : status'[x] = IF x = id THEN Disabled ELSE status[x]
  BY <1>1, <1>2 DEF Statuses
<1>6. RTyping' /\ Ids' = Ids /\ Discards' = Discards
  BY <1>1, <1>2, <1>5, TypingKept
<1>7. \A x \in Ids : MarkOf(status', x) = IF x = id THEN 2 ELSE MarkOf(status, x)
  BY <1>5, SpecialEntries DEF MarkOf
<1>8. ASSUME NEW x \in Ids, place[x] = 0
      PROVE  Unlisted(status'[x])
  <2>1. CASE x = id
    BY <1>5, <2>1 DEF Unlisted
  <2>2. CASE x # id
    BY <1>1, <1>5, <1>8, <2>2 DEF Covered
  <2> QED  BY <2>1, <2>2
<1>9. \A x \in Ids : HistoryOf(releasedIn'[x], areas', place[x])
  BY <1>1, <1>2
<1>10. PlaceInv(place)'
  BY <1>4, <1>6, <1>8, <1>9, PlaceFrom
<1> QED  BY <1>3, <1>6, <1>7, <1>10

-----------------------------------------------------------------------------
(* Counting                                                                 *)

LEMMA MarkedMeaning ==
    ASSUME RTyping, NEW k
    PROVE  /\ IsFiniteSet(Marked(k)) /\ Cardinality(Marked(k)) \in Nat
           /\ Marked(k) \subseteq Ids
<1>1. IsFiniteSet(Ids) /\ Marked(k) \subseteq Ids
  BY ShapeMeaning DEF RTyping, Marked
<1>2. IsFiniteSet(Marked(k))
  BY <1>1, FS_Subset
<1> QED  BY <1>1, <1>2, FS_CardinalityType

\* One more element, and one fewer.
LEMMA OneMore ==
    ASSUME NEW S, IsFiniteSet(S), NEW x, x \notin S
    PROVE  Cardinality(S \cup {x}) = Cardinality(S) + 1
BY FS_AddElement

LEMMA OneFewer ==
    ASSUME NEW S, IsFiniteSet(S), NEW x \in S
    PROVE  Cardinality(S \ {x}) = Cardinality(S) - 1
BY FS_RemoveElement

\* The mark of id changes from j to k.
LEMMA MarkChanges ==
    ASSUME RTyping, Ids' = Ids, NEW id \in Ids, NEW j \in {0, 1, 2}, NEW k \in {0, 1, 2},
           j # k, MarkOf(status, id) = j,
           \A x \in Ids : MarkOf(status', x) = IF x = id THEN k ELSE MarkOf(status, x)
    PROVE  /\ Cardinality(Marked(j)') = Cardinality(Marked(j)) - 1
           /\ Cardinality(Marked(k)') = Cardinality(Marked(k)) + 1
           /\ \A l \in {0, 1, 2} : l \notin {j, k} => Marked(l)' = Marked(l)
<1>1. Marked(j)' = Marked(j) \ {id} /\ id \in Marked(j)
  BY DEF Marked
<1>2. Marked(k)' = Marked(k) \cup {id} /\ id \notin Marked(k)
  BY DEF Marked
<1>3. \A l \in {0, 1, 2} : l \notin {j, k} => Marked(l)' = Marked(l)
  BY DEF Marked
<1>4. IsFiniteSet(Marked(j)) /\ IsFiniteSet(Marked(k))
  BY MarkedMeaning
<1>5. Cardinality(Marked(j) \ {id}) = Cardinality(Marked(j)) - 1
  BY <1>1, <1>4, OneFewer
<1>6. Cardinality(Marked(k) \cup {id}) = Cardinality(Marked(k)) + 1
  BY <1>2, <1>4, OneMore
<1> QED  BY <1>1, <1>2, <1>3, <1>5, <1>6

\* An allocation marks id, in an array that may have grown by free ids.
LEMMA AllocationMarks ==
    ASSUME RTyping, NEW n \in Nat, NEW m \in Nat, n <= m, Ids = 0 .. n - 1, Ids' = 0 .. m - 1,
           NEW id \in Ids', id \in Ids => MarkOf(status, id) = 0,
           \A x \in Ids : x # id => MarkOf(status', x) = MarkOf(status, x),
           \A x \in Ids' : x \notin Ids /\ x # id => MarkOf(status', x) = 0,
           MarkOf(status', id) = 1
    PROVE  /\ Cardinality(Marked(0)') = Cardinality(Marked(0)) + (m - n) - 1
           /\ Cardinality(Marked(1)') = Cardinality(Marked(1)) + 1
           /\ Cardinality(Marked(2)') = Cardinality(Marked(2))
<1> DEFINE fresh == n .. m - 1
           all == Marked(0) \cup fresh
<1>1. /\ Ids \subseteq Ids' /\ \A x : x \in Ids' <=> x \in Ids \/ x \in fresh
      /\ \A x \in fresh : x \notin Ids
  OBVIOUS
<1> HIDE DEF fresh
<1>2. id \in all /\ Marked(0)' = all \ {id}
  BY <1>1 DEF Marked
<1>3. Marked(1)' = Marked(1) \cup {id} /\ id \notin Marked(1)
  BY <1>1 DEF Marked
<1>4. Marked(2)' = Marked(2)
  BY <1>1 DEF Marked
<1>5. /\ IsFiniteSet(Marked(0)) /\ IsFiniteSet(Marked(1))
      /\ Cardinality(Marked(0)) \in Nat
  BY MarkedMeaning
<1>6. IsFiniteSet(fresh) /\ Cardinality(fresh) = m - n
  <2>1. CASE n <= m - 1
    <3>1. n \in Int /\ m - 1 \in Int /\ ~(n > m - 1) /\ (m - 1) - n + 1 = m - n
      BY <2>1
    <3>2. IsFiniteSet(n .. m - 1) /\ Cardinality(n .. m - 1) = (m - 1) - n + 1
      BY <3>1, FS_Interval
    <3> QED  BY <3>1, <3>2 DEF fresh
  <2>2. CASE n > m - 1
    <3>1. n .. m - 1 = {} /\ m - n = 0
      BY <2>2
    <3> QED  BY <3>1, FS_EmptySet DEF fresh
  <2> QED  BY <2>1, <2>2
<1>7. IsFiniteSet(all) /\ Cardinality(all) = Cardinality(Marked(0)) + (m - n)
  <2>1. Marked(0) \cap fresh = {}
    BY <1>1 DEF Marked
  <2>2. /\ IsFiniteSet(Marked(0) \cup fresh)
        /\ Cardinality(Marked(0) \cup fresh) =
              Cardinality(Marked(0)) + Cardinality(fresh) - Cardinality(Marked(0) \cap fresh)
    BY <1>5, <1>6, FS_Union
  <2>3. Cardinality(Marked(0) \cap fresh) = 0
    BY <2>1, FS_EmptySet
  <2> QED  BY <1>5, <1>6, <2>2, <2>3
<1>8. Cardinality(all \ {id}) = Cardinality(all) - 1
  <2> HIDE DEF all
  <2> QED  BY <1>2, <1>7, OneFewer
<1>9. Cardinality(Marked(1) \cup {id}) = Cardinality(Marked(1)) + 1
  BY <1>3, <1>5, OneMore
<1> HIDE DEF all
<1>10. Cardinality(Marked(0)') = Cardinality(Marked(0)) + (m - n) - 1
  <2>1. Cardinality(Marked(0)') = Cardinality(all \ {id})
    BY <1>2
  <2>2. Cardinality(Marked(0)') = Cardinality(all) - 1
    BY <1>8, <2>1
  <2>3. Cardinality(all) = Cardinality(Marked(0)) + (m - n)
    BY <1>7
  <2>4. Cardinality(Marked(0)) \in Nat
    BY <1>5
  <2> QED  BY <2>2, <2>3, <2>4
<1> QED  BY <1>3, <1>4, <1>9, <1>10

-----------------------------------------------------------------------------
(* The steps                                                                *)

\* What no step may do: mark a free id that is not permitted, or that was released before
\* if released qubits are discarded; grow while a free id is permitted.
Restricted ==
    /\ Ids \subseteq Ids'
    /\ \A x \in Ids : MarkOf(status, x) = 0 /\ MarkOf(status', x) # 0 =>
            Permitted(x) /\ (Discards => releasedIn[x] = <<>>)
    /\ Ids' # Ids /\ ~Discards => \A x \in Ids : IsFree(x) => ~Permitted(x)

\* A step that marks nothing.
LEMMA NothingTaken ==
    ASSUME Ids' = Ids,
           \A x \in Ids : MarkOf(status', x) = MarkOf(status, x) \/ MarkOf(status', x) = 0
    PROVE  Restricted
BY DEF Restricted

\* A step of the areas, the program and the loop being where they were.
LEMMA MarksKept ==
    ASSUME RInv, RTyping', (\E q : PlaceInv(q))', Ids' = Ids, UNCHANGED <<counters, call, held>>,
           \A x \in Ids : MarkOf(status', x) = MarkOf(status, x)
    PROVE  RInv' /\ Restricted
<1>1. HeldInv'
  BY DEF RInv, HeldInv
<1>2. CallInv'
  <2>1. CallInv /\ call' = call
    BY DEF RInv
  <2>2. \A i \in 1 .. Len(call.got) : call.got[i] \in Ids
    BY <2>1 DEF CallInv, Calls
  <2> QED  BY <2>1, <2>2 DEF CallInv, Calls, Idle
<1>3. \A k : Marked(k)' = Marked(k)
  BY DEF Marked
<1>4. CountInv'
  BY <1>3 DEF RInv, CountInv, counters
<1>5. Restricted
  BY NothingTaken
<1> QED  BY <1>1, <1>2, <1>4, <1>5 DEF RInv

LEMMA AreaSteps ==
    ASSUME RInv, UNCHANGED configuration,
           StartRestrictedReuseArea \/ NextRestrictedReuseSegment \/ EndRestrictedReuseArea
    PROVE  RInv' /\ Restricted
<1>1. PICK place : PlaceInv(place)
  BY DEF RInv
<1>2. RTyping
  BY DEF RInv
<1>3. UNCHANGED <<counters, call, held>>
  BY DEF StartRestrictedReuseArea, NextRestrictedReuseSegment, EndRestrictedReuseArea, counters
<1>4. /\ RTyping' /\ (\E q : PlaceInv(q))' /\ Ids' = Ids
      /\ \A x \in Ids : MarkOf(status', x) = MarkOf(status, x)
  <2>1. CASE StartRestrictedReuseArea
    <3>1. status' = status
      BY <2>1 DEF StartRestrictedReuseArea
    <3> QED  BY <1>1, <1>2, <2>1, <3>1, StartEffect DEF MarkOf
  <2>2. CASE NextRestrictedReuseSegment
    BY <1>1, <1>2, <2>2, SegmentEffect
  <2>3. CASE EndRestrictedReuseArea
    BY <1>1, <1>2, <2>3, EndEffect
  <2> QED  BY <2>1, <2>2, <2>3
<1> QED  BY <1>3, <1>4, MarksKept

\* A loop that has taken other qubits.
LEMMA CallWith ==
    ASSUME NEW c, NEW S, c \in Calls(S), NEW T, NEW got \in Seq(T)
    PROVE  /\ [c EXCEPT !.got = got] \in Calls(T)
           /\ [c EXCEPT !.got = got].got = got
           /\ [c EXCEPT !.got = got].op = c.op
           /\ [c EXCEPT !.got = got].undoing = c.undoing
BY DEF Calls

\* An allocation of the loop: the last one gives everything taken to the program.
LEMMA AllocateStep ==
    ASSUME RInv, NEW id, AllocateNext(id), UNCHANGED configuration
    PROVE  RInv' /\ Restricted
<1> DEFINE got == call.got
<1>1. RTyping /\ HeldInv /\ CallInv /\ CountInv
  BY DEF RInv
<1>2. PICK place : PlaceInv(place)
  BY DEF RInv
<1>3. AllocateOne(id)
  BY DEF AllocateNext
<1>4. FreeQubitsCount \in Int /\ AllocatedQubitsCount \in Int
  BY <1>1, MarkedMeaning DEF CountInv
<1>5. /\ RTyping' /\ (\E q : PlaceInv(q))' /\ Ids \subseteq Ids' /\ id \in Ids'
      /\ \A x \in Ids : x # id => MarkOf(status', x) = MarkOf(status, x)
      /\ \A x \in Ids' : x \notin Ids /\ x # id => MarkOf(status', x) = 0
      /\ MarkOf(status', id) = 1
      /\ id \in Ids => /\ MarkOf(status, id) = 0 /\ Permitted(id)
                       /\ Discards => releasedIn[id] = <<>>
      /\ FreeQubitsCount' = FreeQubitsCount + (QubitCapacity' - QubitCapacity) - 1
      /\ Ids' # Ids /\ ~Discards => \A x \in Ids : IsFree(x) => ~Permitted(x)
  BY <1>1, <1>2, <1>3, <1>4, AllocateEffect
<1>6. Restricted
  BY <1>5 DEF Restricted
<1>7. CountInv'
  <2>1. QubitCapacity \in Nat /\ Ids = 0 .. QubitCapacity - 1
    BY <1>1, ShapeMeaning DEF RTyping
  <2>2. QubitCapacity' \in Nat /\ Ids' = 0 .. QubitCapacity' - 1
    BY <1>5 DEF RTyping, Shape, Ids
  <2>3. PICK n \in Nat : n = QubitCapacity
    BY <2>1
  <2>4. PICK m \in Nat : m = QubitCapacity'
    BY <2>2
  <2>5. n <= m /\ Ids = 0 .. n - 1 /\ Ids' = 0 .. m - 1
    <3>1. Ids = 0 .. n - 1 /\ Ids' = 0 .. m - 1 /\ Ids \subseteq Ids'
      BY <1>5, <2>1, <2>2, <2>3, <2>4
    <3>2. 0 .. n - 1 \subseteq 0 .. m - 1
      BY <3>1
    <3>3. n # 0 => n - 1 \in 0 .. n - 1
      OBVIOUS
    <3>4. n # 0 => n - 1 \in 0 .. m - 1
      BY <3>2, <3>3
    <3> QED  BY <3>1, <3>4
  <2>6. /\ Cardinality(Marked(0)') = Cardinality(Marked(0)) + (m - n) - 1
        /\ Cardinality(Marked(1)') = Cardinality(Marked(1)) + 1
        /\ Cardinality(Marked(2)') = Cardinality(Marked(2))
    BY <1>1, <1>5, <2>5, AllocationMarks
  <2>7. /\ FreeQubitsCount' = FreeQubitsCount + (m - n) - 1
        /\ AllocatedQubitsCount' = AllocatedQubitsCount + 1
        /\ DisabledQubitsCount' = DisabledQubitsCount
    BY <1>3, <1>5, <2>3, <2>4 DEF AllocateOne
  <2> QED  BY <1>1, <2>6, <2>7 DEF CountInv
<1>8. /\ call \in Calls(Ids) /\ got \in Seq(Ids) /\ Len(got) \in Nat
      /\ \A i \in 1 .. Len(got) : got[i] \in Ids
  <2>1. call \in Calls(Ids) /\ got \in Seq(Ids)
    BY <1>1 DEF CallInv, Calls
  <2> HIDE DEF got
  <2> QED  BY <2>1, LenProperties, ElementOfSeq
<1>9. /\ \A x \in held : x \in Ids' /\ x # id /\ MarkOf(status', x) # 0
      /\ \A i \in 1 .. Len(got) : got[i] \in Ids' /\ got[i] # id /\ MarkOf(status', got[i]) = 1
      /\ \A x \in Ids' : MarkOf(status', x) = 1 =>
            x = id \/ x \in held \/ \E i \in 1 .. Len(got) : got[i] = x
  <2>1. \A x \in held : x \in Ids' /\ x # id /\ MarkOf(status', x) # 0
    BY <1>1, <1>5 DEF HeldInv
  <2>2. ASSUME NEW i \in 1 .. Len(got)
        PROVE  got[i] \in Ids' /\ got[i] # id /\ MarkOf(status', got[i]) = 1
    <3>1. got[i] \in Ids /\ MarkOf(status, got[i]) = 1
      BY <1>1, <1>8 DEF CallInv
    <3> HIDE DEF got
    <3> QED  BY <1>5, <3>1
  <2>3. ASSUME NEW x \in Ids', MarkOf(status', x) = 1, x # id
        PROVE  x \in held \/ \E i \in 1 .. Len(got) : got[i] = x
    <3>1. x \in Ids /\ MarkOf(status, x) = 1
      BY <1>5, <2>3
    <3> QED  BY <1>1, <3>1 DEF HeldInv
  <2> QED  BY <2>1, <2>2, <2>3
<1>10. \A i, j \in 1 .. Len(got) : got[i] = got[j] => i = j
  BY <1>1 DEF CallInv
<1>11. \A i \in 1 .. Len(got) : got[i] \notin held
  BY <1>1 DEF CallInv
<1>12. HeldInv' /\ CallInv'
  <2>1. CASE Len(got) + 1 = call.want
    <3>1. call' = Idle /\ held' = held \cup Range(got) \cup {id}
      BY <2>1 DEF AllocateNext
    <3>2. \A x : x \in Range(got) <=> \E i \in 1 .. Len(got) : got[i] = x
      <4> HIDE DEF got
      <4> QED  BY <1>8 DEF Range
    <3>3. HeldInv'
      <4> HIDE DEF got
      <4>1. held' \subseteq Ids' /\ \A x \in held' : MarkOf(status', x) # 0
        BY <1>5, <1>9, <3>1, <3>2
      <4>2. \A x \in Ids' : MarkOf(status', x) = 1 => x \in held'
        BY <1>9, <3>1, <3>2
      <4> QED  BY <4>1, <4>2 DEF HeldInv
    <3>4. CallInv'
      BY <3>1 DEF CallInv, Calls, Idle
    <3> QED  BY <3>3, <3>4
  <2>2. CASE Len(got) + 1 # call.want
    <3> DEFINE more == Append(got, id)
    <3>1. call' = [call EXCEPT !.got = more] /\ held' = held
      BY <2>2 DEF AllocateNext
    <3>2. /\ more \in Seq(Ids') /\ Len(more) = Len(got) + 1
          /\ \A i \in 1 .. Len(got) : more[i] = got[i]
          /\ more[Len(got) + 1] = id
      <4>1. got \in Seq(Ids')
        <5> HIDE DEF got
        <5> QED  BY <1>5, <1>8
      <4> HIDE DEF got
      <4> QED  BY <1>5, <4>1, AppendProperties
    <3>3. /\ call' \in Calls(Ids') /\ call'.got = more /\ call'.op = call.op
          /\ call'.undoing = call.undoing
      <4> HIDE DEF more
      <4> QED  BY <1>8, <3>1, <3>2, CallWith
    <3>4. \A i \in 1 .. Len(more) : i \in 1 .. Len(got) \/ i = Len(got) + 1
      <4> HIDE DEF got, more
      <4> QED  BY <1>8, <3>2
    <3>5. \A i \in 1 .. Len(got) : i \in 1 .. Len(more)
      <4> HIDE DEF got, more
      <4> QED  BY <1>8, <3>2
    <3>6. Len(got) + 1 \in 1 .. Len(more)
      <4> HIDE DEF got, more
      <4> QED  BY <1>8, <3>2
    <3>7. HeldInv'
      <4> HIDE DEF got, more
      <4>1. held' \subseteq Ids' /\ \A x \in held' : MarkOf(status', x) # 0
        BY <1>9, <3>1
      <4>2. \A x \in Ids' : MarkOf(status', x) = 1 =>
                x \in held' \/ \E i \in 1 .. Len(more) : more[i] = x
        BY <1>9, <3>1, <3>2, <3>5, <3>6
      <4> QED  BY <3>3, <4>1, <4>2 DEF HeldInv
    <3>8. CallInv'
      <4>1. call.op = "allocate" /\ ~call.undoing
        BY DEF AllocateNext
      <4> HIDE DEF got, more
      <4>2. \A i, j \in 1 .. Len(more) : more[i] = more[j] => i = j
        BY <1>9, <1>10, <3>2, <3>4
      <4>3. \A i \in 1 .. Len(more) : more[i] \notin held' /\ MarkOf(status', more[i]) = 1
        BY <1>5, <1>9, <1>11, <3>1, <3>2, <3>4
      <4>4. call'.op # "idle" /\ ~call'.undoing
        BY <3>3, <4>1
      <4> QED  BY <3>3, <4>2, <4>3, <4>4 DEF CallInv
    <3> QED  BY <3>7, <3>8
  <2> QED  BY <2>1, <2>2
<1> QED  BY <1>5, <1>6, <1>7, <1>12 DEF RInv

\* A call begins, or fails: no qubit is touched.
LEMMA CallSteps ==
    ASSUME RInv, UNCHANGED configuration,
           (\E n \in 1 .. MaxRequest : BeginAllocate(n)) \/ AllocateFails
    PROVE  RInv' /\ Restricted
<1>1. RTyping /\ HeldInv /\ CallInv /\ CountInv
  BY DEF RInv
<1>2. PICK place : PlaceInv(place)
  BY DEF RInv
<1>3. UNCHANGED <<status, areas, counters, held, releasedIn>>
  BY DEF BeginAllocate, AllocateFails
<1>4. RTyping' /\ Ids' = Ids /\ Discards' = Discards
  <2>1. status' \in [Ids -> Statuses] /\ releasedIn' \in [Ids -> Seq(Nat \ {0})]
    BY <1>1, <1>2, <1>3, PlaceMeaning
  <2> QED  BY <1>1, <2>1, TypingKept
<1>5. PlaceInv(place)'
  <2>1. /\ Linked(Ids, areas', status', place)
        /\ \A x \in Ids : place[x] = 0 => Unlisted(status'[x])
        /\ \A x \in Ids : HistoryOf(releasedIn'[x], areas', place[x])
    BY <1>1, <1>2, <1>3, PlaceMeaning DEF Covered
  <2> QED  BY <1>4, <2>1, PlaceFrom
<1>6. CountInv'
  BY <1>1, <1>3 DEF CountInv, counters, Marked, Ids
<1>7. Restricted
  BY <1>3, <1>4, NothingTaken
<1>8. CallInv' /\ HeldInv'
  <2>1. CASE \E n \in 1 .. MaxRequest : BeginAllocate(n)
    <3>1. PICK n \in 1 .. MaxRequest : BeginAllocate(n)
      BY <2>1
    <3>2. call = Idle /\ call' = [Idle EXCEPT !.op = "allocate", !.want = n]
      BY <3>1 DEF BeginAllocate
    <3>3. /\ call' \in Calls(Ids) /\ call'.got = <<>> /\ call.got = <<>>
          /\ call'.op = "allocate" /\ ~call'.undoing
      <4>1. call' = [op |-> "allocate", want |-> n, got |-> <<>>, undoing |-> FALSE]
        BY <3>2 DEF Idle
      <4>2. n \in Nat /\ <<>> \in Seq(Ids)
        OBVIOUS
      <4> QED  BY <3>2, <4>1, <4>2 DEF Idle, Calls
    <3>4. CallInv'
      BY <1>4, <3>3 DEF CallInv
    <3>5. HeldInv'
      BY <1>1, <1>3, <1>4, <3>3 DEF HeldInv
    <3> QED  BY <3>4, <3>5
  <2>2. CASE AllocateFails /\ call.got = <<>>
    <3>1. call' = Idle
      BY <2>2 DEF AllocateFails
    <3>2. CallInv'
      BY <3>1 DEF CallInv, Calls, Idle
    <3>3. HeldInv'
      BY <1>1, <1>3, <1>4, <2>2, <3>1 DEF HeldInv, Idle
    <3> QED  BY <3>2, <3>3
  <2>3. CASE AllocateFails /\ call.got # <<>>
    <3>1. call' = [call EXCEPT !.undoing = TRUE] /\ call.op = "allocate"
      BY <2>3 DEF AllocateFails
    <3>2. call' \in Calls(Ids) /\ call'.got = call.got /\ call'.op = call.op
      BY <1>1, <3>1 DEF CallInv, Calls
    <3>3. \A i \in 1 .. Len(call.got) : call.got[i] \in Ids
      BY <1>1 DEF CallInv, Calls
    <3>4. CallInv'
      BY <1>1, <1>3, <1>4, <2>3, <3>1, <3>2, <3>3 DEF CallInv
    <3>5. HeldInv'
      BY <1>1, <1>3, <1>4, <3>2 DEF HeldInv
    <3> QED  BY <3>4, <3>5
  <2> QED  BY <2>1, <2>2, <2>3
<1> QED  BY <1>4, <1>5, <1>6, <1>7, <1>8 DEF RInv

\* An allocated qubit is released, by the program or by the loop that undoes.
LEMMA ReleaseStep ==
    ASSUME RInv, NoneToTheBack, NEW id \in Ids, MarkOf(status, id) = 1, ReleaseOne(id),
           UNCHANGED configuration
    PROVE  /\ RTyping' /\ (\E q : PlaceInv(q))' /\ CountInv' /\ Restricted /\ Ids' = Ids
           /\ \A x \in Ids : MarkOf(status', x) = IF x = id THEN 0 ELSE MarkOf(status, x)
<1>1. RTyping /\ CountInv
  BY DEF RInv
<1>2. PICK place : PlaceInv(place)
  BY DEF RInv
<1>3. EncourageReuse \/ MayExtendCapacity
  BY <1>1 DEF NoneToTheBack, RTyping, EncourageReuse, MayExtendCapacity
<1>4. /\ RTyping' /\ (\E q : PlaceInv(q))' /\ Ids' = Ids
      /\ \A x \in Ids : MarkOf(status', x) = IF x = id THEN 0 ELSE MarkOf(status, x)
  BY <1>1, <1>2, <1>3, ReleaseEffect
<1>5. Restricted
  BY <1>4, NothingTaken
<1>6. /\ Cardinality(Marked(1)') = Cardinality(Marked(1)) - 1
      /\ Cardinality(Marked(0)') = Cardinality(Marked(0)) + 1
      /\ Marked(2)' = Marked(2)
  BY <1>1, <1>4, MarkChanges
<1>7. /\ FreeQubitsCount' = FreeQubitsCount + 1
      /\ AllocatedQubitsCount' = AllocatedQubitsCount - 1
      /\ DisabledQubitsCount' = DisabledQubitsCount
  BY DEF ReleaseOne
<1>8. CountInv'
  BY <1>1, <1>6, <1>7 DEF CountInv
<1> QED  BY <1>4, <1>5, <1>8

LEMMA ProgramReleases ==
    ASSUME RInv, NoneToTheBack, NEW id, Release(id), UNCHANGED configuration
    PROVE  RInv' /\ Restricted
<1>1. RTyping /\ HeldInv /\ CallInv /\ CountInv
  BY DEF RInv
<1>2. /\ id \in held /\ held' = held \ {id} /\ call' = call /\ call = Idle
      /\ id \in Ids /\ held \subseteq Ids
  BY <1>1 DEF Release, HeldInv
<1>3. CallInv'
  BY <1>2 DEF CallInv, Calls, Idle
<1>4. Len(call.got) = 0 /\ Len(call'.got) = 0
  BY <1>2 DEF Idle
<1>5. CASE status[id] = Disabled
  <2>1. UNCHANGED <<status, areas, counters, releasedIn>>
    BY <1>5, SpecialEntries DEF Release
  <2>2. PICK place : PlaceInv(place)
    BY DEF RInv
  <2>3. RTyping' /\ Ids' = Ids /\ Discards' = Discards
    <3>1. status' \in [Ids -> Statuses] /\ releasedIn' \in [Ids -> Seq(Nat \ {0})]
      BY <1>1, <2>1, <2>2, PlaceMeaning
    <3> QED  BY <1>1, <3>1, TypingKept
  <2>4. PlaceInv(place)'
    <3>1. /\ Linked(Ids, areas', status', place)
          /\ \A x \in Ids : place[x] = 0 => Unlisted(status'[x])
          /\ \A x \in Ids : HistoryOf(releasedIn'[x], areas', place[x])
      BY <1>1, <2>1, <2>2, PlaceMeaning DEF Covered
    <3> QED  BY <2>3, <3>1, PlaceFrom
  <2>5. CountInv'
    BY <1>1, <2>1 DEF CountInv, counters, Marked, Ids
  <2>6. Restricted
    BY <2>1, <2>3, NothingTaken
  <2>7. MarkOf(status, id) # 1 /\ status' = status
    BY <1>5, <2>1, SpecialEntries DEF MarkOf
  <2>8. HeldInv'
    BY <1>1, <1>2, <1>4, <2>3, <2>7 DEF HeldInv
  <2> QED  BY <1>3, <2>3, <2>4, <2>5, <2>6, <2>8 DEF RInv
<1>6. CASE status[id] = Allocated
  <2>1. ReleaseOne(id) /\ MarkOf(status, id) = 1
    BY <1>6, SpecialEntries DEF Release, MarkOf
  <2>2. /\ RTyping' /\ (\E q : PlaceInv(q))' /\ CountInv' /\ Restricted /\ Ids' = Ids
        /\ \A x \in Ids : MarkOf(status', x) = IF x = id THEN 0 ELSE MarkOf(status, x)
    BY <1>2, <2>1, ReleaseStep
  <2>3. HeldInv'
    BY <1>1, <1>2, <1>4, <2>2 DEF HeldInv
  <2> QED  BY <1>3, <2>2, <2>3 DEF RInv
<1> QED  BY <1>5, <1>6 DEF Release

\* The loop gives back the first of what it has taken.
LEMMA LoopReleases ==
    ASSUME RInv, NoneToTheBack, RollbackNext, UNCHANGED configuration
    PROVE  RInv' /\ Restricted
<1> DEFINE got == call.got
           id == Head(call.got)
           rest == Tail(call.got)
<1>1. RTyping /\ HeldInv /\ CallInv /\ CountInv
  BY DEF RInv
<1>2. /\ call \in Calls(Ids) /\ got \in Seq(Ids) /\ got # <<>> /\ call.undoing
      /\ \A i, j \in 1 .. Len(got) : got[i] = got[j] => i = j
      /\ \A i \in 1 .. Len(got) : got[i] \notin held /\ MarkOf(status, got[i]) = 1
  BY <1>1 DEF CallInv, Calls, RollbackNext
<1>3. Len(got) \in Nat \ {0} /\ id = got[1] /\ 1 \in 1 .. Len(got)
  <2> HIDE DEF got
  <2>1. Len(got) \in Nat \ {0}
    BY <1>2, EmptySeq, LenProperties
  <2>2. Head(got) = got[1]
    BY <1>2, HeadTailProperties
  <2> QED  BY <2>1, <2>2 DEF got
<1>4. \A i \in 1 .. Len(got) : got[i] \in Ids
  <2> HIDE DEF got
  <2> QED  BY <1>2, ElementOfSeq
<1>5. id \in Ids /\ MarkOf(status, id) = 1 /\ id \notin held
  <2> HIDE DEF got, id
  <2> QED  BY <1>2, <1>3, <1>4
<1>6. ReleaseOne(id) /\ held' = held
  BY DEF RollbackNext
<1>7. /\ RTyping' /\ (\E q : PlaceInv(q))' /\ CountInv' /\ Restricted /\ Ids' = Ids
      /\ \A x \in Ids : MarkOf(status', x) = IF x = id THEN 0 ELSE MarkOf(status, x)
  <2> HIDE DEF id
  <2> QED  BY <1>5, <1>6, ReleaseStep
<1>8. held' \subseteq Ids' /\ \A x \in held' : MarkOf(status', x) # 0
  <2> HIDE DEF id
  <2> QED  BY <1>1, <1>5, <1>6, <1>7 DEF HeldInv
<1>9. \A x \in Ids' : MarkOf(status', x) = 1 =>
            x \in held' \/ \E i \in 1 .. Len(got) : got[i] = x /\ i # 1
  <2> SUFFICES ASSUME NEW x \in Ids', MarkOf(status', x) = 1
               PROVE  x \in held' \/ \E i \in 1 .. Len(got) : got[i] = x /\ i # 1
    OBVIOUS
  <2>1. x # id /\ x \in Ids /\ MarkOf(status, x) = 1
    <3> HIDE DEF id
    <3> QED  BY <1>7
  <2>2. x \in held \/ \E i \in 1 .. Len(got) : got[i] = x
    BY <1>1, <2>1 DEF HeldInv
  <2> HIDE DEF got, id
  <2> QED  BY <1>3, <1>6, <2>1, <2>2
<1>10. CASE Len(got) = 1
  <2>1. call' = Idle
    BY <1>10 DEF RollbackNext
  <2>2. CallInv'
    BY <2>1 DEF CallInv, Calls, Idle
  <2>3. HeldInv'
    <3>1. \A x \in Ids' : MarkOf(status', x) = 1 => x \in held'
      <4> HIDE DEF got
      <4> QED  BY <1>9, <1>10
    <3> QED  BY <1>8, <3>1 DEF HeldInv
  <2> QED  BY <1>7, <2>2, <2>3 DEF RInv
<1>11. CASE Len(got) # 1
  <2>1. call' = [call EXCEPT !.got = rest]
    BY <1>11 DEF RollbackNext
  <2>2. /\ rest \in Seq(Ids) /\ Len(rest) = Len(got) - 1
        /\ \A i \in 1 .. Len(rest) : rest[i] = got[i + 1]
    <3> HIDE DEF got
    <3>1. /\ Tail(got) \in Seq(Ids) /\ Len(Tail(got)) = Len(got) - 1
          /\ \A i \in 1 .. Len(Tail(got)) : Tail(got)[i] = got[i + 1]
      BY <1>2, HeadTailProperties
    <3> QED  BY <3>1 DEF got
  <2>3. /\ call' \in Calls(Ids) /\ call'.got = rest /\ call'.op = call.op
        /\ call'.undoing = call.undoing
    <3>1. call \in Calls(Ids) /\ rest \in Seq(Ids)
      BY <1>2, <2>2
    <3> HIDE DEF rest
    <3> QED  BY <2>1, <3>1, CallWith
  <2>4. call.op # "idle"
    BY <1>1, <1>2 DEF CallInv, Idle
  <2>5. \A i \in 1 .. Len(rest) : i + 1 \in 1 .. Len(got) /\ i + 1 # 1
    <3> HIDE DEF rest, got
    <3> QED  BY <1>3, <2>2
  <2>6. \A i \in 1 .. Len(got) : i # 1 => i - 1 \in 1 .. Len(rest) /\ rest[i - 1] = got[i]
    <3> HIDE DEF rest, got
    <3>1. \A i \in 1 .. Len(got) : i # 1 => i - 1 \in 1 .. Len(rest) /\ i - 1 + 1 = i
      BY <1>3, <2>2
    <3> QED  BY <2>2, <3>1
  <2>7. HeldInv'
    <3>1. \A x \in Ids' : MarkOf(status', x) = 1 =>
              x \in held' \/ \E i \in 1 .. Len(rest) : rest[i] = x
      <4> HIDE DEF rest, got
      <4> QED  BY <1>9, <2>6
    <3> HIDE DEF rest
    <3> QED  BY <1>8, <2>3, <3>1 DEF HeldInv
  <2>8. CallInv'
    <3>1. \A i, j \in 1 .. Len(rest) : rest[i] = rest[j] => i = j
      <4> SUFFICES ASSUME NEW i \in 1 .. Len(rest), NEW j \in 1 .. Len(rest), rest[i] = rest[j]
                   PROVE  i = j
        OBVIOUS
      <4> HIDE DEF rest, got
      <4>1. got[i + 1] = got[j + 1] /\ i + 1 \in 1 .. Len(got) /\ j + 1 \in 1 .. Len(got)
        BY <2>2, <2>5
      <4>2. i + 1 = j + 1
        BY <1>2, <4>1
      <4> QED  BY <4>2
    <3>2. \A i \in 1 .. Len(rest) : rest[i] \notin held' /\ MarkOf(status', rest[i]) = 1
      <4> SUFFICES ASSUME NEW i \in 1 .. Len(rest)
                   PROVE  rest[i] \notin held' /\ MarkOf(status', rest[i]) = 1
        OBVIOUS
      <4> HIDE DEF rest, got, id
      <4>1. rest[i] = got[i + 1] /\ i + 1 \in 1 .. Len(got) /\ i + 1 # 1
        BY <2>2, <2>5
      <4>2. got[i + 1] # id /\ got[i + 1] \in Ids
        BY <1>2, <1>3, <1>4, <4>1
      <4> QED  BY <1>2, <1>6, <1>7, <4>1, <4>2
    <3>3. rest # <<>> /\ call'.op # "idle"
      <4>1. Len(rest) # 0
        <5> HIDE DEF rest, got
        <5> QED  BY <1>3, <1>11, <2>2
      <4>2. Len(<<>>) = 0
        OBVIOUS
      <4> HIDE DEF rest
      <4> QED  BY <2>3, <2>4, <4>1, <4>2
    <3> HIDE DEF rest
    <3> QED  BY <1>7, <2>3, <3>1, <3>2, <3>3 DEF CallInv
  <2> QED  BY <1>7, <2>7, <2>8 DEF RInv
<1> QED  BY <1>7, <1>10, <1>11

LEMMA DisableStep ==
    ASSUME RInv, NEW id, Disable(id), UNCHANGED configuration
    PROVE  RInv' /\ Restricted
<1>1. RTyping /\ HeldInv /\ CallInv /\ CountInv
  BY DEF RInv
<1>2. PICK place : PlaceInv(place)
  BY DEF RInv
<1>3. /\ id \in held /\ held' = held /\ call' = call /\ call = Idle /\ id \in Ids
  BY <1>1 DEF Disable, HeldInv
<1>4. /\ RTyping' /\ (\E q : PlaceInv(q))' /\ Ids' = Ids
      /\ \A x \in Ids : MarkOf(status', x) = IF x = id THEN 2 ELSE MarkOf(status, x)
      /\ MarkOf(status, id) = 1
  BY <1>1, <1>2, <1>3, DisableEffect
<1>5. CallInv'
  BY <1>3 DEF CallInv, Calls, Idle
<1>6. Len(call.got) = 0 /\ Len(call'.got) = 0
  BY <1>3 DEF Idle
<1>7. HeldInv'
  BY <1>1, <1>3, <1>4, <1>6 DEF HeldInv
<1>8. /\ Cardinality(Marked(1)') = Cardinality(Marked(1)) - 1
      /\ Cardinality(Marked(2)') = Cardinality(Marked(2)) + 1
      /\ Marked(0)' = Marked(0)
  BY <1>1, <1>3, <1>4, MarkChanges
<1>9. /\ FreeQubitsCount' = FreeQubitsCount
      /\ AllocatedQubitsCount' = AllocatedQubitsCount - 1
      /\ DisabledQubitsCount' = DisabledQubitsCount + 1
  BY DEF Disable
<1>10. CountInv'
  BY <1>1, <1>8, <1>9 DEF CountInv
<1>11. Restricted
  BY <1>4 DEF Restricted
<1> QED  BY <1>4, <1>5, <1>7, <1>10, <1>11 DEF RInv

\* The constructor puts every id on the list of what the outermost area allows.
LEMMA InitStep ==
    ASSUME Init
    PROVE  RInv
<1> DEFINE n == configuration.capacity
           array == [id \in 0 .. n - 1 |-> None]
           fresh == NewList(0, n - 1, array)
           place == [x \in 0 .. n - 1 |-> 1]
<1>1. n \in Nat \ {0} /\ configuration \in Configurations
  BY ConstantsAssumption DEF ConstantsAssumption, Init
<1>2. /\ status = fresh.array /\ areas = <<Area(fresh.list)>>
      /\ AllocatedQubitsCount = 0 /\ DisabledQubitsCount = 0 /\ FreeQubitsCount = n
      /\ call = Idle /\ held = {}
      /\ releasedIn = [id \in 0 .. n - 1 |-> <<>>]
  BY DEF Init
<1>3. /\ fresh.array \in [0 .. n - 1 -> Statuses]
      /\ IsList(fresh.list, fresh.array, 0 .. n - 1)
  <2>1. array \in [0 .. n - 1 -> Statuses] /\ 0 <= n - 1 /\ n - 1 \in Nat
    BY <1>1 DEF Statuses
  <2> HIDE DEF array, n
  <2> QED  BY <2>1, NewMeaning
<1> HIDE DEF fresh
<1>4. Shape /\ QubitCapacity = n /\ Ids = 0 .. n - 1
  <2> HIDE DEF n
  <2> QED  BY <1>1, <1>2, <1>3, ShapeFrom
<1>5. RTyping
  <2>1. <<>> \in Seq(Nat \ {0})
    OBVIOUS
  <2> HIDE DEF n
  <2> QED  BY <1>1, <1>2, <1>4, <2>1 DEF RTyping
<1>6. /\ areas \in Seq(AreaRecords) /\ Len(areas) = 1
      /\ areas[1].FreeQubitsReuseProhibited = EmptyList
      /\ areas[1].FreeQubitsReuseAllowed = fresh.list /\ areas[1].segment = 1
  <2>1. fresh.list \in ListRecords
    <3>1. 0 .. n - 1 \in SUBSET Nat
      OBVIOUS
    <3> HIDE DEF n
    <3> QED  BY <1>3, <3>1, ListIsRecord
  <2>2. EmptyList \in ListRecords
    BY DEF EmptyList, ListRecords
  <2>3. /\ Area(fresh.list) \in AreaRecords
        /\ Area(fresh.list).FreeQubitsReuseProhibited = EmptyList
        /\ Area(fresh.list).FreeQubitsReuseAllowed = fresh.list
        /\ Area(fresh.list).segment = 1
    <3> HIDE DEF EmptyList
    <3> QED  BY <2>1, <2>2 DEF Area, AreaRecords
  <2> QED  BY <1>2, <2>3
<1>7. PICK q : q = place
  OBVIOUS
<1>8. q \in [Ids -> -1 .. 1] /\ \A x \in Ids : q[x] = 1
  BY <1>4, <1>7
<1>9. On(q, 1) = Ids /\ On(q, -1) = {}
  BY <1>8 DEF On
<1>10. Linked(Ids, areas, status, q)
  <2>1. /\ IsList(areas[1].FreeQubitsReuseProhibited, status, On(q, -1))
        /\ IsList(areas[1].FreeQubitsReuseAllowed, status, On(q, 1))
    BY <1>2, <1>3, <1>4, <1>6, <1>9, EmptyIsList
  <2>2. Ids \subseteq Nat /\ status \in [Ids -> Statuses]
    BY <1>2, <1>3, <1>4
  <2>3. \A i \in 1 .. 1 : i = 1
    OBVIOUS
  <2> QED  BY <1>6, <1>8, <2>1, <2>2, <2>3 DEF Linked
<1>11. PlaceInv(q)
  <2>1. Covered(q)
    BY <1>8 DEF Covered
  <2>2. History(q)
    <3>1. \A x \in Ids : releasedIn[x] = <<>> /\ q[x] \in {0, 1}
      <4> HIDE DEF n
      <4> QED  BY <1>2, <1>4, <1>8
    <3> QED  BY <3>1, NoHistory DEF History
  <2> QED  BY <1>10, <2>1, <2>2 DEF PlaceInv
<1>12. \A x \in Ids : MarkOf(status, x) = 0
  BY <1>5, <1>8, <1>11, PlaceMeaning
<1>13. HeldInv
  BY <1>2, <1>12 DEF HeldInv
<1>14. CallInv
  BY <1>2 DEF CallInv, Calls, Idle
<1>15. CountInv
  <2>1. Marked(0) = Ids /\ Marked(1) = {} /\ Marked(2) = {}
    BY <1>12 DEF Marked
  <2>2. Cardinality(Ids) = n
    BY <1>4 DEF QubitCapacity
  <2> QED  BY <1>2, <2>1, <2>2, FS_EmptySet DEF CountInv
<1> QED  BY <1>5, <1>11, <1>13, <1>14, <1>15 DEF RInv

LEMMA NextStep ==
    ASSUME RInv, NoneToTheBack, Next
    PROVE  RInv' /\ Restricted
<1>1. UNCHANGED configuration
  BY DEF Next
<1>2. CASE StartRestrictedReuseArea \/ NextRestrictedReuseSegment \/ EndRestrictedReuseArea
  BY <1>1, <1>2, AreaSteps
<1>3. CASE (\E n \in 1 .. MaxRequest : BeginAllocate(n)) \/ AllocateFails
  BY <1>1, <1>3, CallSteps
<1>4. CASE \E id \in 0 .. 2 * QubitCapacity : AllocateNext(id) \/ Release(id) \/ Disable(id)
  <2>1. PICK id : AllocateNext(id) \/ Release(id) \/ Disable(id)
    BY <1>4
  <2>2. CASE AllocateNext(id)
    BY <1>1, <2>2, AllocateStep
  <2>3. CASE Release(id)
    BY <1>1, <2>3, ProgramReleases
  <2>4. CASE Disable(id)
    BY <1>1, <2>4, DisableStep
  <2> QED  BY <2>1, <2>2, <2>3, <2>4
<1>5. CASE RollbackNext
  BY <1>1, <1>5, LoopReleases
<1> QED  BY <1>2, <1>3, <1>4, <1>5 DEF Next

LEMMA StutterStep ==
    ASSUME RInv, UNCHANGED vars
    PROVE  RInv'
<1>1. /\ status' = status /\ areas' = areas /\ releasedIn' = releasedIn
      /\ UNCHANGED configuration /\ UNCHANGED <<counters, call, held>>
  BY DEF vars, counters
<1>2. PICK place : PlaceInv(place)
  BY DEF RInv
<1>3. RTyping /\ status \in [Ids -> Statuses] /\ releasedIn \in [Ids -> Seq(Nat \ {0})]
  BY <1>2, PlaceMeaning DEF RInv
<1>4. RTyping' /\ Ids' = Ids /\ Discards' = Discards
  BY <1>1, <1>3, TypingKept
<1>5. PlaceInv(place)'
  <2>1. /\ Linked(Ids, areas', status', place)
        /\ \A x \in Ids : place[x] = 0 => Unlisted(status'[x])
        /\ \A x \in Ids : HistoryOf(releasedIn'[x], areas', place[x])
    BY <1>1, <1>2, <1>3, PlaceMeaning DEF Covered
  <2> QED  BY <1>4, <2>1, PlaceFrom
<1> QED  BY <1>1, <1>4, <1>5, MarksKept

-----------------------------------------------------------------------------
(* The theorems                                                             *)

\* RInv is inductive: every state of the manager has a place for every id.
THEOREM PlacesAreKept ==
    ASSUME NoneToTheBack
    PROVE  Spec => []RInv
<1>1. Init => RInv
  BY InitStep
<1>2. RInv /\ [Next]_vars => RInv'
  BY NextStep, StutterStep
<1> QED  BY <1>1, <1>2, PTL DEF Spec

\* The list of each name is that of the ids at one place.
KeyOf(name) == IF name[2] = "FreeQubitsReuseAllowed" THEN name[1] ELSE -name[1]

LEMMA NamesMeaning ==
    ASSUME RInv, NEW place, PlaceInv(place)
    PROVE  /\ \A name \in ListNames :
                  /\ IsList(ListOf(name), status, On(place, KeyOf(name)))
                  /\ On(place, KeyOf(name)) \in SUBSET Ids
                  /\ Elements(ListOf(name)) = On(place, KeyOf(name))
                  /\ Walk(ListOf(name))[QubitCapacity] = None
                  /\ KeyOf(name) # 0
           /\ \A one, other \in ListNames : one # other => KeyOf(one) # KeyOf(other)
           /\ \A x \in Ids : place[x] # 0 => \E name \in ListNames : KeyOf(name) = place[x]
<1> DEFINE L == Len(areas)
<1>1. /\ Linked(Ids, areas, status, place) /\ L \in Nat \ {0} /\ Shape
      /\ \A x \in Ids : place[x] \in Int /\ -L <= place[x] /\ place[x] <= L
  BY PlaceMeaning DEF RInv, RTyping
<1>2. ASSUME NEW name \in ListNames
      PROVE  \E i \in 1 .. L :
                \/ name = <<i, "FreeQubitsReuseAllowed">> /\ KeyOf(name) = i
                        /\ ListOf(name) = areas[i].FreeQubitsReuseAllowed
                \/ name = <<i, "FreeQubitsReuseProhibited">> /\ KeyOf(name) = -i
                        /\ ListOf(name) = areas[i].FreeQubitsReuseProhibited
  <2>1. PICK i \in 1 .. L, field \in {"FreeQubitsReuseProhibited", "FreeQubitsReuseAllowed"} :
             name = <<i, field>>
    BY DEF ListNames
  <2>2. name[1] = i /\ name[2] = field
    BY <2>1
  <2> QED  BY <2>1, <2>2 DEF KeyOf, ListOf
<1>3. ASSUME NEW name \in ListNames
      PROVE  /\ IsList(ListOf(name), status, On(place, KeyOf(name)))
             /\ On(place, KeyOf(name)) \in SUBSET Ids
             /\ KeyOf(name) # 0
  <2>1. IsList(ListOf(name), status, On(place, KeyOf(name))) /\ KeyOf(name) # 0
    <3>1. PICK i \in 1 .. L :
                \/ name = <<i, "FreeQubitsReuseAllowed">> /\ KeyOf(name) = i
                        /\ ListOf(name) = areas[i].FreeQubitsReuseAllowed
                \/ name = <<i, "FreeQubitsReuseProhibited">> /\ KeyOf(name) = -i
                        /\ ListOf(name) = areas[i].FreeQubitsReuseProhibited
      BY <1>2
    <3>2. /\ IsList(areas[i].FreeQubitsReuseProhibited, status, On(place, -i))
          /\ IsList(areas[i].FreeQubitsReuseAllowed, status, On(place, i))
      BY <1>1 DEF Linked
    <3>3. i # 0 /\ -i # 0
      BY <1>1
    <3> QED  BY <3>1, <3>2, <3>3
  <2> QED  BY <1>1, <2>1, LinkedMeaning
<1>4. \A name \in ListNames : /\ Elements(ListOf(name)) = On(place, KeyOf(name))
                              /\ Walk(ListOf(name))[QubitCapacity] = None
  BY <1>1, <1>3, WalkMeaning
<1>5. ASSUME NEW one \in ListNames, NEW other \in ListNames, KeyOf(one) = KeyOf(other)
      PROVE  one = other
  <2>1. PICK i \in 1 .. L : \/ one = <<i, "FreeQubitsReuseAllowed">> /\ KeyOf(one) = i
                            \/ one = <<i, "FreeQubitsReuseProhibited">> /\ KeyOf(one) = -i
    BY <1>2
  <2>2. PICK j \in 1 .. L : \/ other = <<j, "FreeQubitsReuseAllowed">> /\ KeyOf(other) = j
                            \/ other = <<j, "FreeQubitsReuseProhibited">> /\ KeyOf(other) = -j
    BY <1>2
  <2>3. i \in Int /\ i >= 1 /\ j \in Int /\ j >= 1
    BY <1>1
  <2> HIDE DEF L
  <2> QED  BY <1>5, <2>1, <2>2, <2>3
<1>6. ASSUME NEW x \in Ids, place[x] # 0
      PROVE  \E name \in ListNames : KeyOf(name) = place[x]
  <2>1. CASE place[x] > 0
    <3> DEFINE name == <<place[x], "FreeQubitsReuseAllowed">>
    <3>1. name \in ListNames
      BY <1>1, <2>1 DEF ListNames
    <3>2. KeyOf(name) = place[x]
      BY DEF KeyOf
    <3> QED  BY <3>1, <3>2
  <2>2. CASE ~(place[x] > 0)
    <3> DEFINE name == <<-place[x], "FreeQubitsReuseProhibited">>
    <3>1. name \in ListNames
      BY <1>1, <1>6, <2>2 DEF ListNames
    <3>2. KeyOf(name) = -(-place[x])
      BY DEF KeyOf
    <3>3. -(-place[x]) = place[x]
      BY <1>1
    <3> HIDE DEF name
    <3> QED  BY <3>1, <3>2, <3>3
  <2> QED  BY <2>1, <2>2
<1> QED  BY <1>3, <1>4, <1>5, <1>6

\* Every list ends in its last pointer and in None, no free qubit is on two of them, and
\* none is lost: what moves, grows, is released or rolled back stays on the lists.
THEOREM FreeQubitsAreOnOneList ==
    ASSUME NoneToTheBack
    PROVE  Spec => []ListsPartitionFree
<1>1. RInv => ListsPartitionFree
  <2> SUFFICES ASSUME RInv
               PROVE  ListsPartitionFree
    OBVIOUS
  <2>1. PICK place : PlaceInv(place)
    BY DEF RInv
  <2>2. /\ \A name \in ListNames :
              /\ IsList(ListOf(name), status, On(place, KeyOf(name)))
              /\ On(place, KeyOf(name)) \in SUBSET Ids
              /\ Elements(ListOf(name)) = On(place, KeyOf(name))
              /\ Walk(ListOf(name))[QubitCapacity] = None
              /\ KeyOf(name) # 0
        /\ \A one, other \in ListNames : one # other => KeyOf(one) # KeyOf(other)
        /\ \A x \in Ids : place[x] # 0 => \E name \in ListNames : KeyOf(name) = place[x]
    BY <2>1, NamesMeaning
  <2>3. /\ Ids \subseteq Nat /\ Covered(place) /\ DOMAIN place = Ids
        /\ \A x \in Ids : place[x] # 0 => IsFree(x)
    BY <2>1, PlaceMeaning, MarkMeaning DEF RInv
  <2>4. ASSUME NEW name \in ListNames
        PROVE  Elements(ListOf(name)) \subseteq FreeIds
    BY <2>2, <2>3 DEF On, FreeIds
  <2>5. LastElementIsLast
    <3>1. ASSUME NEW name \in ListNames
          PROVE  /\ IsEmpty(ListOf(name)) <=> ListOf(name).last = None
                 /\ ~IsEmpty(ListOf(name)) => /\ ListOf(name).last \in Elements(ListOf(name))
                                              /\ status[ListOf(name).last] = None
      <4>1. /\ IsList(ListOf(name), status, On(place, KeyOf(name)))
            /\ On(place, KeyOf(name)) \in SUBSET Nat
        BY <2>2, <2>3
      <4>2. /\ IsEmpty(ListOf(name)) => ListOf(name) = EmptyList
            /\ ~IsEmpty(ListOf(name)) => /\ ListOf(name).last \in On(place, KeyOf(name))
                                         /\ status[ListOf(name).last] = None
        BY <4>1, ListMeaning
      <4>3. ~IsEmpty(ListOf(name)) => ListOf(name).last # None
        BY <4>1, <4>2, SpecialEntries
      <4> QED  BY <2>2, <4>2, <4>3 DEF EmptyList
    <3> QED  BY <3>1 DEF LastElementIsLast
  <2>6. ASSUME NEW one \in ListNames, NEW other \in ListNames, one # other
        PROVE  Elements(ListOf(one)) \cap Elements(ListOf(other)) = {}
    <3>1. KeyOf(one) # KeyOf(other)
      BY <2>2, <2>6
    <3>2. \A k, l : k # l => On(place, k) \cap On(place, l) = {}
      BY DEF On
    <3> QED  BY <2>2, <3>1, <3>2
  <2>7. ASSUME ~Discards
        PROVE  FreeIds = UNION {Elements(ListOf(name)) : name \in ListNames}
    <3>1. ASSUME NEW x \in FreeIds
          PROVE  \E name \in ListNames : x \in Elements(ListOf(name))
      <4>1. x \in Ids /\ IsFree(x)
        BY DEF FreeIds
      <4>2. place[x] # 0
        BY <2>3, <2>7, <4>1 DEF Covered, Unlisted, IsFree
      <4>3. PICK name \in ListNames : KeyOf(name) = place[x]
        BY <2>2, <4>1, <4>2
      <4> QED  BY <2>2, <2>3, <4>1, <4>3 DEF On
    <3> QED  BY <2>4, <3>1
  <2> QED  BY <2>2, <2>4, <2>5, <2>6, <2>7 DEF ListsPartitionFree
<1> QED  BY <1>1, PlacesAreKept, PTL

\* Every variable has its type: no list and no entry of the array leads out of the ids.
THEOREM TypesAreKept ==
    ASSUME NoneToTheBack
    PROVE  Spec => []TypeOK
<1>1. RInv => TypeOK
  <2> SUFFICES ASSUME RInv
               PROVE  TypeOK
    OBVIOUS
  <2>1. PICK place : PlaceInv(place)
    BY DEF RInv
  <2>2. /\ Linked(Ids, areas, status, place) /\ Covered(place)
        /\ \A i \in 1 .. Len(areas) : areas[i].segment \in Nat \ {0}
        /\ releasedIn \in [Ids -> Seq(Nat \ {0})]
        /\ Ids \subseteq Nat /\ status \in [Ids -> Statuses]
        /\ Len(areas) \in Nat
        /\ \A x \in Ids : /\ place[x] \in Int
                          /\ -Len(areas) <= place[x] /\ place[x] <= Len(areas)
    BY <2>1, PlaceMeaning DEF RInv
  <2>3. \A k : On(place, k) \in SUBSET Ids /\ On(place, k) \in SUBSET Nat
    BY <2>2, LinkedMeaning
  <2>4. ASSUME NEW i \in 1 .. Len(areas)
        PROVE  /\ areas[i].FreeQubitsReuseProhibited \in Lists
               /\ areas[i].FreeQubitsReuseAllowed \in Lists
    <3>1. /\ IsList(areas[i].FreeQubitsReuseProhibited, status, On(place, -i))
          /\ IsList(areas[i].FreeQubitsReuseAllowed, status, On(place, i))
      BY <2>2 DEF Linked
    <3>2. ASSUME NEW list, NEW k, IsList(list, status, On(place, k))
          PROVE  list \in Lists
      <4>1. list \in [first : On(place, k) \cup {None}, last : On(place, k) \cup {None}]
        BY <2>3, <3>2, ListMeaning
      <4> QED  BY <2>3, <4>1 DEF Lists
    <3> QED  BY <3>1, <3>2
  <2>5. ASSUME NEW x \in Ids
        PROVE  status[x] \in Ids \cup {None, Allocated, Disabled}
    <3>1. CASE place[x] = 0
      BY <2>2, <3>1 DEF Covered, Unlisted
    <3>2. CASE place[x] # 0
      <4>1. x \in On(place, place[x]) /\ place[x] # 0
        BY <2>2, <3>2 DEF On, Linked
      <4>2. PICK list : IsList(list, status, On(place, place[x]))
        <5>1. CASE place[x] > 0
          <6>1. place[x] \in 1 .. Len(areas)
            BY <2>2, <5>1
          <6> QED  BY <2>2, <6>1 DEF Linked
        <5>2. CASE ~(place[x] > 0)
          <6>1. -place[x] \in 1 .. Len(areas) /\ -(-place[x]) = place[x]
            BY <2>2, <3>2, <5>2
          <6>2. IsList(areas[-place[x]].FreeQubitsReuseProhibited, status,
                       On(place, -(-place[x])))
            BY <2>2, <6>1 DEF Linked
          <6> QED  BY <6>1, <6>2
        <5> QED  BY <5>1, <5>2
      <4>3. status[x] \in On(place, place[x]) \cup {None}
        BY <2>3, <4>1, <4>2, ListMeaning
      <4> QED  BY <2>3, <4>3
    <3> QED  BY <3>1, <3>2
  <2>6. status \in [Ids -> Ids \cup {None, Allocated, Disabled}]
    BY <2>2, <2>5
  <2>7. {AllocatedQubitsCount, DisabledQubitsCount, FreeQubitsCount} \subseteq Int
    <3>1. /\ Cardinality(Marked(0)) \in Nat /\ Cardinality(Marked(1)) \in Nat
          /\ Cardinality(Marked(2)) \in Nat
      BY MarkedMeaning DEF RInv
    <3> QED  BY <3>1 DEF RInv, CountInv
  <2>8. call \in [op : {"idle", "allocate"}, want : Nat, got : Seq(Ids), undoing : BOOLEAN]
    BY DEF RInv, CallInv, Calls
  <2>9. held \subseteq Ids
    BY DEF RInv, HeldInv
  <2> QED  BY <2>2, <2>4, <2>6, <2>7, <2>8, <2>9 DEF TypeOK
<1> QED  BY <1>1, PlacesAreKept, PTL

\* What the program holds or the loop has taken is marked, nothing else is allocated, and
\* the three counters agree with the array, whatever grew, failed or was disabled.
THEOREM TakenQubitsAreCounted ==
    ASSUME NoneToTheBack
    PROVE  Spec => []HeldIsCounted
<1>1. RInv => HeldIsCounted
  <2> SUFFICES ASSUME RInv
               PROVE  HeldIsCounted
    OBVIOUS
  <2> DEFINE got == call.got
             taken == held \cup Range(got)
             allocated == {id \in Ids : status[id] = Allocated}
             disabled == {id \in Ids : status[id] = Disabled}
  <2>1. Marked(1) = allocated /\ Marked(2) = disabled /\ Marked(0) = FreeIds
    BY MarkMeaning DEF Marked, FreeIds
  <2>2. got \in Seq(Ids) /\ \A i \in 1 .. Len(got) : got[i] \in Ids
    <3>1. got \in Seq(Ids)
      BY DEF RInv, CallInv, Calls
    <3> HIDE DEF got
    <3> QED  BY <3>1, ElementOfSeq
  <2>3. \A x : x \in Range(got) <=> \E i \in 1 .. Len(got) : got[i] = x
    <3> HIDE DEF got
    <3> QED  BY <2>2 DEF Range
  <2>4. \A x \in Ids : MarkOf(status, x) = 1 => x \in taken
    BY <2>3 DEF RInv, HeldInv
  <2>5. allocated \subseteq taken
    BY <2>4, MarkMeaning
  <2>6. \A x \in taken : x \in Ids /\ MarkOf(status, x) # 0
    <3>1. \A i \in 1 .. Len(got) : got[i] \in Ids /\ MarkOf(status, got[i]) = 1
      BY <2>2 DEF RInv, CallInv
    <3>2. \A x \in held : x \in Ids /\ MarkOf(status, x) # 0
      BY DEF RInv, HeldInv
    <3> HIDE DEF got
    <3> QED  BY <2>3, <3>1, <3>2
  <2>7. taken \subseteq allocated \cup disabled
    <3> HIDE DEF taken
    <3> QED  BY <2>6, MarkMeaning
  <2>8. /\ AllocatedQubitsCount = Cardinality(allocated)
        /\ DisabledQubitsCount = Cardinality(disabled)
        /\ FreeQubitsCount = Cardinality(FreeIds)
    <3> HIDE DEF allocated, disabled
    <3> QED  BY <2>1 DEF RInv, CountInv
  <2> QED  BY <2>5, <2>7, <2>8 DEF HeldIsCounted
<1> QED  BY <1>1, PlacesAreKept, PTL

\* A qubit released in one segment is never reused in a later segment of the same area,
\* however the areas nest, start and end.
THEOREM ReuseFollowsTheAreas ==
    ASSUME NoneToTheBack
    PROVE  Spec => ReuseIsRestricted
<1> DEFINE A == \A id \in FreeIds : ~IsFree(id)' => Permitted(id)
<1>1. RInv /\ [Next]_vars => [A]_vars
  <2> SUFFICES ASSUME RInv, Next
               PROVE  A
    BY DEF vars
  <2>1. Restricted
    BY NextStep
  <2>2. ASSUME NEW id \in FreeIds, ~IsFree(id)'
        PROVE  Permitted(id)
    <3>1. id \in Ids /\ MarkOf(status, id) = 0 /\ MarkOf(status', id) # 0
      BY <2>2, SpecialEntries DEF FreeIds, IsFree, MarkOf
    <3> QED  BY <2>1, <3>1 DEF Restricted
  <2> QED  BY <2>2
<1> QED  BY <1>1, PlacesAreKept, PTL DEF Spec, ReuseIsRestricted

\* The manager grows, or throws, only when the areas permit no free qubit.
THEOREM ShortagesAreReal ==
    ASSUME NoneToTheBack
    PROVE  Spec => NoFalseShortage
<1> DEFINE A == (Ids' # Ids \/ AllocateFails) /\ ~Discards => \A id \in FreeIds : ~Permitted(id)
<1>1. RInv /\ [Next]_vars => [A]_vars
  <2> SUFFICES ASSUME RInv, Next, ~Discards, Ids' # Ids \/ AllocateFails, NEW id \in FreeIds
               PROVE  ~Permitted(id)
    BY DEF vars
  <2>1. id \in Ids /\ IsFree(id)
    BY DEF FreeIds
  <2>2. CASE Ids' # Ids
    BY <2>1, <2>2, NextStep DEF Restricted
  <2>3. CASE AllocateFails
    <3>1. OutOfQubits /\ RTyping
      BY <2>3 DEF AllocateFails, RInv
    <3>2. PICK place : PlaceInv(place)
      BY DEF RInv
    <3> QED  BY <2>1, <3>1, <3>2, NonePermitted
  <2> QED  BY <2>2, <2>3
<1> QED  BY <1>1, PlacesAreKept, PTL DEF Spec, NoFalseShortage

\* A manager that discards released qubits hands out every id once.
THEOREM DiscardedIdsAreNotReused ==
    ASSUME NoneToTheBack
    PROVE  Spec => NeverReused
<1> DEFINE A == Discards => \A id \in FreeIds : ~IsFree(id)' => releasedIn[id] = <<>>
<1>1. RInv /\ [Next]_vars => [A]_vars
  <2> SUFFICES ASSUME RInv, Next, Discards, NEW id \in FreeIds, ~IsFree(id)'
               PROVE  releasedIn[id] = <<>>
    BY DEF vars
  <2>1. Restricted
    BY NextStep
  <2>2. id \in Ids /\ MarkOf(status, id) = 0 /\ MarkOf(status', id) # 0
    BY SpecialEntries DEF FreeIds, IsFree, MarkOf
  <2> QED  BY <2>1, <2>2 DEF Restricted
<1> QED  BY <1>1, PlacesAreKept, PTL DEF Spec, NeverReused
=============================================================================
