------------------------------- MODULE QArray -------------------------------
(***************************************************************************)
(* The Q# array: src/Simulation/Core/QArray.cs.                            *)
(*                                                                         *)
(* A QArray is a window (start, step, Length) on an inner array that other *)
(* QArrays may share, with a reference count.  Copies and slices share, a  *)
(* write copies first when the inner array is shared, and a concatenation  *)
(* extends the inner array of its left argument in place when the window   *)
(* runs to the end of it.  Nothing counts an array down when it is         *)
(* dropped.                                                                *)
(*                                                                         *)
(* A program has the arrays Vars; value is what each of them would be if   *)
(* arrays were plain sequences.                                            *)
(*                                                                         *)
(* Definitions named X_Bug are X with a mistake, for the mutation runs.    *)
(***************************************************************************)
EXTENDS Integers, Sequences, FiniteSets

CONSTANTS
    Vars,
    Values,         \* what an element may be
    Default,        \* Default.OfType<T>()
    Strides,        \* steps of the ranges the program uses
    MinIndex,       \* least index the program passes to Modify
    SelfUpdates,    \* may a range update take its values from the array it updates?
    Capacity,       \* cells an inner array can have: the range of an Int32
    MaxLength,      \* bound: elements of an array
    MaxStep,        \* bound: step of a window
    MaxReferences   \* bound: references counted

ASSUME ConstantsAssumption ==
    /\ Vars # {} /\ IsFiniteSet(Vars) /\ Default \in Values
    /\ Strides \subseteq Int \ {0} /\ MinIndex \in Int
    /\ SelfUpdates \in BOOLEAN
    /\ Capacity \in Nat /\ MaxStep \in Nat
    /\ MaxLength \in Nat \ {0} /\ MaxReferences \in Nat \ {0}

VARIABLES
    arrays,         \* per array: its inner array, start, step and Length
    inners,         \* per inner array: refCount and storage
    value,          \* the sequence each array stands for
    outside         \* has an index outside the bounds been accepted?

vars == <<arrays, inners, value, outside>>

\* An array that is being given a new inner array still holds the old one.
Inners == 0 .. Cardinality(Vars)

Unused == [refCount |-> 0, storage |-> <<>>]

-----------------------------------------------------------------------------
(* The heap: arrays and inner arrays.                                       *)

Heap == [arrays |-> arrays, inners |-> inners]

ConvertIndex(a, i) == a.start + i * a.step

Storage(h, v) == h.inners[h.arrays[v].inner].storage

Elements(h, v) == [i \in 1 .. h.arrays[v].length |->
                    Storage(h, v)[ConvertIndex(h.arrays[v], i - 1) + 1]]

Fresh(h) == CHOOSE n \in Inners : \A v \in Vars : h.arrays[v].inner # n

\* v is a new array with storage s.
NewArray(h, v, s) ==
    [arrays |-> [h.arrays EXCEPT ![v] = [inner |-> Fresh(h), start |-> 0, step |-> 1,
                                         length |-> Len(s)]],
     inners |-> [h.inners EXCEPT ![Fresh(h)] = [refCount |-> 1, storage |-> s]]]

Share_Uncounted(h, v, w) == [h EXCEPT !.arrays[v] = h.arrays[w]]

\* v is a copy of w: the same window on the same inner array.
Share(h, v, w) == [h EXCEPT !.arrays[v] = h.arrays[w],
                            !.inners[h.arrays[w].inner].refCount = @ + 1]

\* v moves to an inner array of its own, with storage s.
Detach(h, v, s) ==
    [arrays |-> [h.arrays EXCEPT ![v].inner = Fresh(h)],
     inners |-> [h.inners EXCEPT ![h.arrays[v].inner].refCount = @ - 1,
                                 ![Fresh(h)] = [refCount |-> 1, storage |-> s]]]

CopyAndCompress_KeepsStep(h, v) ==
    [Detach(h, v, Elements(h, v)) EXCEPT !.arrays[v].start = 0]

\* The elements of the window only, and a window on all of them.
CopyAndCompress(h, v) ==
    [Detach(h, v, Elements(h, v)) EXCEPT !.arrays[v].start = 0, !.arrays[v].step = 1]

IsCell(h, v, cell) == cell \in 0 .. Len(Storage(h, v)) - 1

\* Copies a shared inner array; the copy is lost if the cell does not exist, the
\* reference that was taken off for it is not put back.
SetElement(h, v, cell, x) ==
    LET shared == h.inners[h.arrays[v].inner].refCount > 1
        d == IF shared THEN Detach(h, v, Storage(h, v)) ELSE h
    IN  IF IsCell(h, v, cell)
        THEN [d EXCEPT !.inners[d.arrays[v].inner].storage[cell + 1] = x]
        ELSE [d EXCEPT !.arrays = h.arrays]

UnsafeToSet(h, v, cell) ==
    h.inners[h.arrays[v].inner].refCount > 1 /\ cell < Len(Storage(h, v))

\* The heap before the element is set.
Owned(h, v, i) ==
    IF UnsafeToSet(h, v, ConvertIndex(h.arrays[v], i)) THEN CopyAndCompress(h, v) ELSE h

Written(h, v, i, x) ==
    LET own == Owned(h, v, i) IN SetElement(own, v, ConvertIndex(own.arrays[v], i), x)

Accepts(h, v, i) ==
    LET own == Owned(h, v, i) IN IsCell(own, v, ConvertIndex(own.arrays[v], i))

ExtendsInPlace_AnyEnd(h, w) == h.arrays[w].step >= 0

\* Add extends w's inner array itself when w's window is increasing and ends with it.
ExtendsInPlace(h, w) ==
    /\ h.arrays[w].step >= 0
    /\ ConvertIndex(h.arrays[w], h.arrays[w].length) >= Len(Storage(h, w))

\* Cells that w's inner array has after Add put count elements behind w's window.
NewEnd(h, w, count) == ConvertIndex(h.arrays[w], h.arrays[w].length + count - 1) + 1

\* w's inner array with the elements added behind w's window, a step apart.
Extended(h, w, added) ==
    LET a == h.arrays[w]
        cells == [i \in 1 .. Len(added) |-> ConvertIndex(a, a.length + i - 1) + 1]
        old == Storage(h, w)
    IN  [h EXCEPT !.inners[a.inner].storage =
            [n \in 1 .. NewEnd(h, w, Len(added)) |->
                IF \E i \in 1 .. Len(added) : cells[i] = n
                THEN added[CHOOSE i \in 1 .. Len(added) : cells[i] = n]
                ELSE IF n <= Len(old) THEN old[n] ELSE Default]]

\* The inner arrays nobody points to are garbage.
Become(h) ==
    /\ arrays' = h.arrays
    /\ inners' = [n \in Inners |-> IF \E v \in Vars : h.arrays[v].inner = n
                                   THEN h.inners[n] ELSE Unused]

-----------------------------------------------------------------------------
(* Ranges.                                                                  *)

IsEmptyRange(r) == \/ r.end < r.start /\ r.step >= 0
                   \/ r.end > r.start /\ r.step <= 0

\* Indices in a range that is not empty; C# division truncates.
RangeCount(r) == 1 + IF r.step > 0 THEN (r.end - r.start) \div r.step
                     ELSE (r.start - r.end) \div (-r.step)

RangeEnd(r) == r.start + (RangeCount(r) - 1) * r.step

Indices(r) == IF IsEmptyRange(r) THEN <<>>
              ELSE [n \in 1 .. RangeCount(r) |-> r.start + (n - 1) * r.step]

Ranges == [start : 0 .. MaxLength - 1, step : Strides, end : -1 .. MaxLength - 1]

-----------------------------------------------------------------------------
(* Operations.  An operation that throws and changes nothing is not a step.  *)

Init ==
    /\ \E inner \in [Vars -> 1 .. Cardinality(Vars)] :
        /\ \A v \in Vars, w \in Vars : inner[v] = inner[w] => v = w
        /\ arrays = [v \in Vars |-> [inner |-> inner[v], start |-> 0, step |-> 1, length |-> 0]]
    /\ inners = [n \in Inners |-> IF n = 0 THEN Unused ELSE [refCount |-> 1, storage |-> <<>>]]
    /\ value = [v \in Vars |-> <<>>]
    /\ outside = FALSE

Countable(w) == inners[arrays[w].inner].refCount < MaxReferences

\* v := an array of the given elements.
New(v, s) ==
    /\ Become(NewArray(Heap, v, s))
    /\ value' = [value EXCEPT ![v] = s]
    /\ UNCHANGED outside

\* v := w.Copy()
Copy(v, w) ==
    /\ Countable(w)
    /\ Become(Share(Heap, v, w))
    /\ value' = [value EXCEPT ![v] = value[w]]
    /\ UNCHANGED outside

\* A window on w's inner array, unless there is at most one element to see.
Sliced(v, w, r) ==
    IF IsEmptyRange(r) THEN NewArray(Heap, v, <<>>)
    ELSE IF r.start = r.end THEN NewArray(Heap, v, <<Elements(Heap, w)[r.start + 1]>>)
    ELSE [Share(Heap, v, w) EXCEPT !.arrays[v].start = ConvertIndex(arrays[w], r.start),
                                   !.arrays[v].step = r.step * arrays[w].step,
                                   !.arrays[v].length = RangeCount(r)]

\* v := w.Slice(r)
Slice(v, w, r) ==
    /\ Countable(w)
    /\ IsEmptyRange(r) \/ {r.start, RangeEnd(r)} \subseteq 0 .. arrays[w].length - 1
    /\ r.step * arrays[w].step \in -MaxStep .. MaxStep
    /\ Become(Sliced(v, w, r))
    /\ value' = [value EXCEPT ![v] = [n \in 1 .. Len(Indices(r)) |-> value[w][Indices(r)[n] + 1]]]
    /\ UNCHANGED outside

\* Add copies w's window first unless it can extend w's inner array.
Extendable(w) == IF ExtendsInPlace(Heap, w) THEN Heap ELSE CopyAndCompress(Heap, w)

AddFits(w, u) == {arrays[w].length, arrays[u].length} \subseteq Nat \ {0} =>
                    NewEnd(Extendable(w), w, arrays[u].length) <= Capacity

\* The heap in which v is the result of Add(w, u) for two QArrays.
Added(v, w, u) ==
    LET long == Share(Extended(Extendable(w), w, Elements(Heap, u)), v, w)
    IN  IF arrays[w].length = 0 THEN NewArray(Heap, v, Elements(Heap, u))
        ELSE IF arrays[u].length = 0 THEN Share(Heap, v, w)
        ELSE [long EXCEPT !.arrays[v].length = arrays[w].length + arrays[u].length]

\* v := Add(w, u), where the inner array has room.
Add(v, w, u) ==
    /\ Countable(w) /\ AddFits(w, u)
    /\ arrays[w].length + arrays[u].length <= MaxLength
    /\ Become(Added(v, w, u))
    /\ value' = [value EXCEPT ![v] = value[w] \o value[u]]
    /\ UNCHANGED outside

\* Add(w, u), which throws because the inner array would have too many cells: by then
\* w's window has been copied, if it could not be extended in place.
AddThrows(w, u) ==
    /\ ~AddFits(w, u)
    /\ Become(Extendable(w))
    /\ UNCHANGED <<value, outside>>

\* v := Add(w, u) for two IQArrays, which first copies w into an array that is then
\* dropped, its reference still counted.
AddInterfaces(v, w, u) ==
    /\ MaxReferences > 1
    /\ arrays[w].length + arrays[u].length <= MaxLength
    /\ LET new == NewArray(Heap, v, Elements(Heap, w) \o Elements(Heap, u))
       IN  Become([new EXCEPT !.inners[new.arrays[v].inner].refCount =
                                IF arrays[w].length = 0 THEN 1 ELSE 2])
    /\ value' = [value EXCEPT ![v] = value[w] \o value[u]]
    /\ UNCHANGED outside

\* v.Modify(i, x)
Modify(v, i, x) ==
    /\ i < arrays[v].length
    /\ Become(Written(Heap, v, i, x))
    /\ value' = [value EXCEPT ![v] = IF i \in 0 .. Len(@) - 1 THEN [@ EXCEPT ![i + 1] = x] ELSE @]
    /\ outside' = (outside \/ (i \notin 0 .. Len(value[v]) - 1 /\ Accepts(Heap, v, i)))

\* v[i] is set to the n-th element of w, which is read when it is written.
WrittenFrom(h, v, i, w, n) == Written(h, v, i, Elements(h, w)[n])

\* The heap after n elements of w have been written to v at the indices.
WrittenRange(h, v, indices, w, n) ==
    LET after[m \in 0 .. n] ==
            IF m = 0 THEN h ELSE WrittenFrom(after[m - 1], v, indices[m], w, m)
    IN  after[n]

\* v.Modify(r, w): an element at a time up to the first index beyond the array, which
\* throws; count elements are written before that.
ModifyRange(v, r, w) ==
    LET indices == Indices(r)
        Within(n) == \A m \in 1 .. n : indices[m] < arrays[v].length
    IN  /\ v # w \/ SelfUpdates
        /\ \A n \in DOMAIN indices : indices[n] >= 0
        /\ Len(indices) = arrays[w].length
        /\ \E count \in 0 .. Len(indices) :
            /\ Within(count)
            /\ count < Len(indices) => indices[count + 1] >= arrays[v].length
            /\ Become(WrittenRange(Heap, v, indices, w, count))
            /\ value' = [value EXCEPT ![v] =
                    [n \in DOMAIN @ |-> IF \E m \in 1 .. count : indices[m] = n - 1
                                        THEN value[w][CHOOSE m \in 1 .. count : indices[m] = n - 1]
                                        ELSE @[n]]]
        /\ UNCHANGED outside

Next ==
    \/ \E v \in Vars, n \in 0 .. MaxLength : \E s \in [1 .. n -> Values] : New(v, s)
    \/ \E v \in Vars, w \in Vars : Copy(v, w)
    \/ \E v \in Vars, w \in Vars, r \in Ranges : Slice(v, w, r)
    \/ \E v \in Vars, w \in Vars, u \in Vars : Add(v, w, u) \/ AddInterfaces(v, w, u)
    \/ \E w \in Vars, u \in Vars : AddThrows(w, u)
    \/ \E v \in Vars, i \in MinIndex .. MaxLength - 1, x \in Values : Modify(v, i, x)
    \/ \E v \in Vars, w \in Vars, r \in Ranges : ModifyRange(v, r, w)

Spec == Init /\ [][Next]_vars

-----------------------------------------------------------------------------
(* Properties                                                               *)

\* Every window lies within its inner array.
TypeOK ==
    /\ \A v \in Vars :
        /\ arrays[v].inner \in Inners /\ arrays[v].length \in Nat
        /\ arrays[v].length > 0 =>
            {arrays[v].start, ConvertIndex(arrays[v], arrays[v].length - 1)}
                \subseteq 0 .. Len(Storage(Heap, v)) - 1
    /\ \A n \in Inners : inners[n].refCount \in Nat /\ inners[n].storage \in Seq(Values)
    /\ outside \in BOOLEAN

\* However copies, slices and concatenations share their inner arrays, every array
\* reads as if it had its own: a write to one is never seen through another
\* (QArrayTests.cs ArraySharing).
ValueSemantics == \A v \in Vars : Elements(Heap, v) = value[v]

\* "Reference count: how many QArray instances point to this inner array"
\* (QArray.cs:39): never fewer are counted than there are, or a write to a shared
\* inner array would be made in place.
ReferencesCounted ==
    \A n \in Inners : inners[n].refCount >= Cardinality({v \in Vars : arrays[v].inner = n})

\* "If the given index is outside the array bounds, it throws" (QArray.cs:317).
OutOfBoundsThrows == ~outside

=============================================================================
