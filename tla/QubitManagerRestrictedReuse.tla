-------------------- MODULE QubitManagerRestrictedReuse --------------------
(***************************************************************************)
(* The qubit manager of the tracer for circuits with restricted reuse:     *)
(* src/Simulation/QCTraceSimulator/QubitManagerRestrictedReuse.cs.         *)
(*                                                                         *)
(* A restricted reuse area consists of segments; a qubit released in one   *)
(* segment must not be reused in a later segment of the same area, and     *)
(* areas nest.  Free qubits are on linked lists threaded through one       *)
(* shared status array: each area of the stack has a list of those it may  *)
(* reuse and one of those it may not.                                      *)
(*                                                                         *)
(* The tracer drives the manager from one thread.  Allocate(n) loops over  *)
(* single allocations and undoes them if it runs out, one action per       *)
(* iteration.  Borrowing is allocation here, so it has no actions.         *)
(* Definitions named X_Bug are X with a mistake, for the mutation runs.    *)
(***************************************************************************)
EXTENDS Integers, FiniteSets, Sequences, Functions

CONSTANTS
    Configurations,     \* what the constructor may be called with
    None, Allocated, Disabled,  \* the special entries of the status array
    MaxCapacity,        \* bound: capacity is never doubled beyond this
    MaxRequest,         \* bound: qubits asked for in one call
    MaxDepth,           \* bound: areas on the stack
    MaxSegments,        \* bound: segments of an area
    MaxDisabled         \* bound: qubits ever disabled

ASSUME ConstantsAssumption ==
    /\ Configurations \subseteq [capacity : Nat \ {0}, MayExtendCapacity : BOOLEAN,
                                EncourageReuse : BOOLEAN]
    /\ {MaxCapacity, MaxRequest, MaxDepth, MaxSegments, MaxDisabled} \subseteq Nat
    /\ {None, Allocated, Disabled} \cap Nat = {}
    /\ Cardinality({None, Allocated, Disabled}) = 3

VARIABLES
    configuration,      \* the arguments of the constructor, kept in read-only properties
    status,             \* SharedQubitStatusArray: the next free id, None, or a marker
    areas,              \* FreeQubitsInAreas, the innermost area last
    AllocatedQubitsCount,
    DisabledQubitsCount,
    FreeQubitsCount,
    call,               \* the loop of Allocate(n) in progress
    held,               \* history: what the program has allocated and not released
    releasedIn          \* history: per free id, the segment it was released in of each
                        \* area that was on the stack then and has not ended since

counters == <<AllocatedQubitsCount, DisabledQubitsCount, FreeQubitsCount>>
vars == <<configuration, status, areas, counters, call, held, releasedIn>>

MayExtendCapacity == configuration.MayExtendCapacity
EncourageReuse == configuration.EncourageReuse

Ids == DOMAIN status
QubitCapacity == Cardinality(Ids)
IsFree(id) == status[id] \notin {Allocated, Disabled}
FreeIds == {id \in Ids : IsFree(id)}

-----------------------------------------------------------------------------
(* Lists.  An operator that changes a list returns it with the array.       *)

EmptyList == [first |-> None, last |-> None]
IsEmpty(list) == list.first = None

NewList_NoEnd(low, high, array) ==
    [list |-> [first |-> low, last |-> high],
     array |-> [id \in DOMAIN array |-> IF id \in low .. high THEN id + 1 ELSE array[id]]]

\* A list of the ids low to high, in an array that holds at least those.
NewList(low, high, array) ==
    [list |-> [first |-> low, last |-> high],
     array |-> [id \in DOMAIN array |->
                    IF id \in low .. high - 1 THEN id + 1
                    ELSE IF id = high THEN None ELSE array[id]]]

\* LastElement stays as it is when the qubit goes to the back.
AddQubit(list, id, array) ==
    IF IsEmpty(list)
    THEN [list |-> [first |-> id, last |-> id], array |-> [array EXCEPT ![id] = None]]
    ELSE IF EncourageReuse
    THEN [list |-> [list EXCEPT !.first = id], array |-> [array EXCEPT ![id] = list.first]]
    ELSE [list |-> list, array |-> [array EXCEPT ![list.last] = id, ![id] = None]]

\* The list that is left of a non-empty one.
TakeQubitFromFront(list, array) ==
    IF array[list.first] = None THEN EmptyList
    ELSE [list EXCEPT !.first = array[list.first]]

MoveAllQubitsFrom_NotLinked(list, source, array) ==
    IF IsEmpty(source) THEN [list |-> list, array |-> array]
    ELSE IF IsEmpty(list) THEN [list |-> source, array |-> array]
    ELSE [list |-> [list EXCEPT !.first = source.first], array |-> array]

\* The source is put in front; the caller empties it.
MoveAllQubitsFrom(list, source, array) ==
    IF IsEmpty(source) THEN [list |-> list, array |-> array]
    ELSE IF IsEmpty(list) THEN [list |-> source, array |-> array]
    ELSE [list |-> [list EXCEPT !.first = source.first],
          array |-> [array EXCEPT ![source.last] = list.first]]

-----------------------------------------------------------------------------
(* Areas.  "segment" is history.                                            *)

Area(freeQubits) ==
    [FreeQubitsReuseProhibited |-> EmptyList, FreeQubitsReuseAllowed |-> freeQubits,
     segment |-> 1]

Innermost == areas[Len(areas)]

\* The segments that are running, outermost area first.
Segments == [i \in 1 .. Len(areas) |-> areas[i].segment]

Idle == [op |-> "idle", want |-> 0, got |-> <<>>, undoing |-> FALSE]

Init ==
    /\ configuration \in Configurations
    /\ LET capacity == configuration.capacity
           fresh == NewList(0, capacity - 1, [id \in 0 .. capacity - 1 |-> None])
       IN  /\ status = fresh.array
           /\ areas = <<Area(fresh.list)>>
           /\ AllocatedQubitsCount = 0 /\ DisabledQubitsCount = 0 /\ FreeQubitsCount = capacity
           /\ call = Idle
           /\ held = {}
           /\ releasedIn = [id \in 0 .. capacity - 1 |-> <<>>]

StartRestrictedReuseArea ==
    /\ call = Idle
    /\ Len(areas) < MaxDepth
    /\ areas' = Append(areas, Area(EmptyList))
    /\ UNCHANGED <<status, counters, call, held, releasedIn>>

NextRestrictedReuseSegment_NoEffect ==
    /\ call = Idle
    /\ Len(areas) > 1 /\ Innermost.segment < MaxSegments
    /\ areas' = [areas EXCEPT ![Len(areas)].segment = @ + 1]
    /\ UNCHANGED <<status, counters, call, held, releasedIn>>

NextRestrictedReuseSegment ==
    /\ call = Idle
    /\ Len(areas) > 1                       \* otherwise ApplicationException
    /\ Innermost.segment < MaxSegments
    /\ LET moved == MoveAllQubitsFrom(Innermost.FreeQubitsReuseProhibited,
                                      Innermost.FreeQubitsReuseAllowed, status)
       IN  /\ status' = moved.array
           /\ areas' = [areas EXCEPT
                ![Len(areas)] = [Innermost EXCEPT !.FreeQubitsReuseProhibited = moved.list,
                                                  !.FreeQubitsReuseAllowed = EmptyList,
                                                  !.segment = Innermost.segment + 1]]
    /\ UNCHANGED <<counters, call, held, releasedIn>>

\* The history of a release, without the area that ends.
Outside(segments) == SubSeq(segments, 1, IF Len(segments) < Len(areas) THEN Len(segments)
                                         ELSE Len(areas) - 1)

EndRestrictedReuseArea_ForgetsProhibited ==
    /\ call = Idle
    /\ Len(areas) > 1
    /\ LET outer == areas[Len(areas) - 1].FreeQubitsReuseAllowed
           allowed == MoveAllQubitsFrom(outer, Innermost.FreeQubitsReuseAllowed, status)
       IN  /\ status' = allowed.array
           /\ areas' = [SubSeq(areas, 1, Len(areas) - 1) EXCEPT
                            ![Len(areas) - 1].FreeQubitsReuseAllowed = allowed.list]
    /\ releasedIn' = [id \in Ids |-> Outside(releasedIn[id])]
    /\ UNCHANGED <<counters, call, held>>

\* Both lists of the area join what the containing area may reuse.
EndRestrictedReuseArea ==
    /\ call = Idle
    /\ Len(areas) > 1                       \* otherwise ApplicationException
    /\ LET outer == areas[Len(areas) - 1].FreeQubitsReuseAllowed
           prohibited == MoveAllQubitsFrom(outer, Innermost.FreeQubitsReuseProhibited, status)
           allowed == MoveAllQubitsFrom(prohibited.list, Innermost.FreeQubitsReuseAllowed,
                                        prohibited.array)
       IN  /\ status' = allowed.array
           /\ areas' = [SubSeq(areas, 1, Len(areas) - 1) EXCEPT
                            ![Len(areas) - 1].FreeQubitsReuseAllowed = allowed.list]
    /\ releasedIn' = [id \in Ids |-> Outside(releasedIn[id])]
    /\ UNCHANGED <<counters, call, held>>

-----------------------------------------------------------------------------
(* Allocation and release                                                   *)

\* The ids met on the way from the first element along the array, in order.
Walk(list) ==
    LET walk[n \in 0 .. QubitCapacity] ==
            IF n = 0 THEN list.first
            ELSE IF walk[n - 1] \in Ids THEN status[walk[n - 1]] ELSE None
    IN  walk

Elements(list) == Range(Walk(list)) \cap Ids

\* The bound on growth: n more qubits need at most one doubling below MaxCapacity.
Fits(n) ==
    MayExtendCapacity =>
        \/ 2 * QubitCapacity <= MaxCapacity /\ n <= QubitCapacity
        \/ n <= Cardinality(UNION {Elements(areas[i].FreeQubitsReuseAllowed) :
                                      i \in 1 .. Len(areas)})

\* The areas of these that AllocateQubit finds a qubit in.
Reusable(stack) == {i \in 1 .. Len(stack) : ~IsEmpty(stack[i].FreeQubitsReuseAllowed)}

\* From the innermost area if reuse is encouraged, from the outermost if not.
SearchStart(candidates) ==
    {i \in candidates : \A j \in candidates : IF EncourageReuse THEN j <= i ELSE i <= j}

\* AllocateQubit and ChangeStatusToAllocated, on this stack and array.
Take(id, stack, array) ==
    \E i \in SearchStart(Reusable(stack)) :
        LET list == stack[i].FreeQubitsReuseAllowed
        IN  /\ id = list.first
            /\ areas' = [stack EXCEPT ![i].FreeQubitsReuseAllowed = TakeQubitFromFront(list, array)]
            /\ status' = [array EXCEPT ![id] = Allocated]

OutOfQubits == SearchStart(Reusable(areas)) = {}

\* EnsureCapacity: the new qubits go to the outermost area.
Grown ==
    LET larger == [id \in 0 .. 2 * QubitCapacity - 1 |-> IF id \in Ids THEN status[id] ELSE None]
        fresh == NewList(QubitCapacity, 2 * QubitCapacity - 1, larger)
        moved == MoveAllQubitsFrom(areas[1].FreeQubitsReuseAllowed, fresh.list, fresh.array)
    IN  [array |-> moved.array,
         stack |-> [areas EXCEPT ![1].FreeQubitsReuseAllowed = moved.list]]

AllocateOne(id) ==
    /\ \/ /\ ~OutOfQubits
          /\ Take(id, areas, status)
          /\ FreeQubitsCount' = FreeQubitsCount - 1
          /\ releasedIn' = [releasedIn EXCEPT ![id] = <<>>]
       \/ /\ OutOfQubits
          /\ MayExtendCapacity
          /\ 2 * QubitCapacity <= MaxCapacity
          /\ Take(id, Grown.stack, Grown.array)
          /\ FreeQubitsCount' = FreeQubitsCount + QubitCapacity - 1
          /\ releasedIn' = [x \in 0 .. 2 * QubitCapacity - 1 |->
                                IF x \in Ids THEN releasedIn[x] ELSE <<>>]
    /\ AllocatedQubitsCount' = AllocatedQubitsCount + 1
    /\ UNCHANGED DisabledQubitsCount

ReleaseOne_Reuses(id) ==
    /\ LET added == AddQubit(Innermost.FreeQubitsReuseAllowed, id, status)
       IN  /\ status' = added.array
           /\ areas' = [areas EXCEPT ![Len(areas)].FreeQubitsReuseAllowed = added.list]
    /\ releasedIn' = [releasedIn EXCEPT ![id] = Segments]
    /\ FreeQubitsCount' = FreeQubitsCount + 1
    /\ AllocatedQubitsCount' = AllocatedQubitsCount - 1
    /\ UNCHANGED DisabledQubitsCount

\* Release(id) for an allocated qubit: it joins the area it is released in, not
\* the one it was taken from, or no area if it is to be discarded.
ReleaseOne(id) ==
    /\ IF MayExtendCapacity /\ ~EncourageReuse
       THEN /\ status' = [status EXCEPT ![id] = None]
            /\ UNCHANGED areas
       ELSE LET added == AddQubit(Innermost.FreeQubitsReuseAllowed, id, status)
            IN  /\ status' = added.array
                /\ areas' = [areas EXCEPT ![Len(areas)].FreeQubitsReuseAllowed = added.list]
    /\ releasedIn' = [releasedIn EXCEPT ![id] = Segments]
    /\ FreeQubitsCount' = FreeQubitsCount + 1
    /\ AllocatedQubitsCount' = AllocatedQubitsCount - 1
    /\ UNCHANGED DisabledQubitsCount

BeginAllocate(n) ==
    /\ call = Idle
    /\ Fits(n)
    /\ call' = [Idle EXCEPT !.op = "allocate", !.want = n]
    /\ UNCHANGED <<status, areas, counters, held, releasedIn>>

AllocateNext(id) ==
    /\ call.op = "allocate" /\ ~call.undoing
    /\ AllocateOne(id)
    /\ IF Len(call.got) + 1 = call.want
       THEN call' = Idle /\ held' = held \cup Range(call.got) \cup {id}
       ELSE call' = [call EXCEPT !.got = Append(@, id)] /\ UNCHANGED held

AllocateFails ==
    /\ call.op = "allocate" /\ ~call.undoing
    /\ OutOfQubits /\ ~MayExtendCapacity
    /\ call' = IF call.got = <<>> THEN Idle ELSE [call EXCEPT !.undoing = TRUE]
    /\ UNCHANGED <<status, areas, counters, held, releasedIn>>

RollbackNext_Stops ==
    /\ call.undoing
    /\ ReleaseOne(Head(call.got))
    /\ call' = Idle
    /\ UNCHANGED held

RollbackNext ==
    /\ call.undoing
    /\ ReleaseOne(Head(call.got))
    /\ call' = IF Len(call.got) = 1 THEN Idle ELSE [call EXCEPT !.got = Tail(@)]
    /\ UNCHANGED held

\* A disabled qubit stays disabled.
Release(id) ==
    /\ call = Idle
    /\ id \in held
    /\ held' = held \ {id}
    /\ \/ status[id] = Disabled /\ UNCHANGED <<status, areas, counters, releasedIn>>
       \/ status[id] = Allocated /\ ReleaseOne(id)   \* otherwise ArgumentException
    /\ UNCHANGED call

Disable(id) ==
    /\ call = Idle
    /\ id \in held
    /\ status[id] = Allocated               \* otherwise ApplicationException
    /\ DisabledQubitsCount < MaxDisabled
    /\ status' = [status EXCEPT ![id] = Disabled]
    /\ DisabledQubitsCount' = DisabledQubitsCount + 1
    /\ AllocatedQubitsCount' = AllocatedQubitsCount - 1
    /\ UNCHANGED <<areas, FreeQubitsCount, call, held, releasedIn>>

Next ==
    /\ \/ StartRestrictedReuseArea \/ NextRestrictedReuseSegment \/ EndRestrictedReuseArea
       \/ \E n \in 1 .. MaxRequest : BeginAllocate(n)
       \/ \E id \in 0 .. 2 * QubitCapacity : AllocateNext(id) \/ Release(id) \/ Disable(id)
       \/ AllocateFails \/ RollbackNext
    /\ UNCHANGED configuration

Spec == Init /\ [][Next]_vars

-----------------------------------------------------------------------------
(* Properties                                                               *)

Lists == [first : Ids \cup {None}, last : Ids \cup {None}]

\* Every variable has its type.
TypeOK ==
    /\ status \in [Ids -> Ids \cup {None, Allocated, Disabled}]
    /\ \A i \in 1 .. Len(areas) :
        /\ areas[i].FreeQubitsReuseProhibited \in Lists
        /\ areas[i].FreeQubitsReuseAllowed \in Lists
        /\ areas[i].segment \in Nat \ {0}
    /\ {AllocatedQubitsCount, DisabledQubitsCount, FreeQubitsCount} \subseteq Int
    /\ call \in [op : {"idle", "allocate"}, want : Nat, got : Seq(Ids), undoing : BOOLEAN]
    /\ held \subseteq Ids
    /\ releasedIn \in [Ids -> Seq(Nat \ {0})]

\* Prohibited and allowed list of each area.
ListNames == (1 .. Len(areas)) \X {"FreeQubitsReuseProhibited", "FreeQubitsReuseAllowed"}
ListOf(name) == areas[name[1]][name[2]]

Discards == MayExtendCapacity /\ ~EncourageReuse

\* "a singly-linked list with pointers to the first and the last element"
\* (QubitManagerRestrictedReuse.cs:47): the last pointer is the element that
\* ends the list.
LastElementIsLast ==
    \A name \in ListNames :
        LET list == ListOf(name)
        IN  /\ IsEmpty(list) <=> list.last = None
            /\ ~IsEmpty(list) => list.last \in Elements(list) /\ status[list.last] = None

\* Every list ends in None and in its last pointer, no free qubit is on two of them, and
\* unless released qubits are discarded every free qubit is on one: moving lists between
\* areas, growth and rollback neither lose a qubit nor duplicate it.
ListsPartitionFree ==
    /\ \A name \in ListNames :
        /\ Walk(ListOf(name))[QubitCapacity] = None
        /\ Elements(ListOf(name)) \subseteq FreeIds
    /\ LastElementIsLast
    /\ \A one, other \in ListNames :
        one # other => Elements(ListOf(one)) \cap Elements(ListOf(other)) = {}
    /\ ~Discards => FreeIds = UNION {Elements(ListOf(name)) : name \in ListNames}

\* What the program holds, or the loop has taken, nobody else can get: it is marked, and
\* nothing else is marked Allocated, so a call that runs out of qubits keeps none.  The
\* three counters agree, whatever grew, failed or was disabled
\* (QubitManagerRestrictedReuse.cs:263-440).
HeldIsCounted ==
    LET taken == held \cup Range(call.got)
        allocated == {id \in Ids : status[id] = Allocated}
        disabled == {id \in Ids : status[id] = Disabled}
    IN  /\ allocated \subseteq taken /\ taken \subseteq allocated \cup disabled
        /\ AllocatedQubitsCount = Cardinality(allocated)
        /\ DisabledQubitsCount = Cardinality(disabled)
        /\ FreeQubitsCount = Cardinality(FreeIds)

\* Every area that id was last released in and that has not ended is still in the
\* segment of that release.
Permitted(id) == releasedIn[id] = SubSeq(Segments, 1, Len(releasedIn[id]))

\* "Qubits used in one segment cannot be reused in another"
\* (QubitManagerRestrictedReuse.cs:133), over nested areas that start and end.
ReuseIsRestricted ==
    [][ \A id \in FreeIds : ~IsFree(id)' => Permitted(id) ]_vars

\* The converse: the manager grows, or throws, only if no free qubit may be reused.
NoFalseShortage ==
    [][ (Ids' # Ids \/ AllocateFails) /\ ~Discards => \A id \in FreeIds : ~Permitted(id) ]_vars

\* A manager that may grow and does not encourage reuse hands out every id once, in
\* whatever area it is released (QubitManagerRestrictedReuse.cs:427-429).
NeverReused ==
    [][ Discards => \A id \in FreeIds : ~IsFree(id)' => releasedIn[id] = <<>> ]_vars
=============================================================================
