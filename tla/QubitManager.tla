---------------------------- MODULE QubitManager ----------------------------
(***************************************************************************)
(* The qubit manager every simulator of the runtime allocates qubits from: *)
(* src/Simulation/Common/QubitManager.cs.                                  *)
(*                                                                         *)
(* The manager is single threaded, but a call such as Allocate(n) or       *)
(* Borrow(n) is a loop over a virtual per-qubit method that subclasses     *)
(* override and that may fail in the middle.  Each loop iteration is an    *)
(* action of its own here; "call" holds the local variables of the loop,   *)
(* so no other operation can start until the loop has run to its end.      *)
(*                                                                         *)
(* The Q# program is the environment.  It only does what generated code    *)
(* does: it releases in the frame it allocated in, returns in the frame it *)
(* borrowed in, hands qubits it can reach to the operations it calls, and  *)
(* fails anywhere.  The fields "used", "lent" and "lost" of a frame and    *)
(* the variables "orphans" and "strays" are history: what the program      *)
(* holds, and what it can no longer give back.                             *)
(*                                                                         *)
(* Definitions named X_Bug are X with a plausible mistake in it; nothing   *)
(* uses them but the mutation runs, which put X_Bug in the place of X.     *)
(***************************************************************************)
EXTENDS Integers, FiniteSets, Sequences, Functions

CONSTANTS
    Capacity,           \* qubitCapacity, the constructor's first argument
    MayExtendCapacity,  \* double the capacity instead of running out
    EncourageReuse,     \* reuse the qubit released last, or the one released first
    DisableBorrowing,   \* borrowing is plain allocation
    MaxCapacity,        \* bound: capacity is never doubled beyond this
    MaxRequest,         \* bound: qubits asked for in one call
    MaxDepth,           \* bound: frames on the operation stack
    MaxDisabled,        \* bound: qubits ever disabled
    MaxFailures         \* bound: failed executions the host survives

ASSUME ConstantsAssumption ==
    /\ Capacity \in Nat \ {0}
    /\ MayExtendCapacity \in BOOLEAN
    /\ EncourageReuse \in BOOLEAN
    /\ DisableBorrowing \in BOOLEAN
    /\ MaxCapacity \in Nat
    /\ MaxRequest \in Nat
    /\ MaxDepth \in Nat
    /\ MaxDisabled \in Nat
    /\ MaxFailures \in Nat

VARIABLES
    NumQubits,          \* capacity
    NumAllocatedQubits,
    NumDisabledQubits,
    qubits,             \* per id: the next free id, or one of the markers below
    free,               \* head of the list of free qubits
    freeTail,           \* its last element, for ~EncourageReuse
    operationStack,     \* frames, the current one last
    call,               \* the loop in progress
    orphans,            \* history: what frames that ended still held
    strays,             \* history: ids that a single Borrow() allocated
    failures            \* history: number of failures so far, for the bound

poolVars == <<NumQubits, NumAllocatedQubits, NumDisabledQubits, qubits, free, freeTail>>
historyVars == <<orphans, strays, failures>>
vars == <<poolVars, operationStack, call, historyVars>>

-----------------------------------------------------------------------------
(* Markers.  UpdateQubitCapacity derives all four from the capacity.        *)

NoneAt(capacity) == capacity
AllocatedAt(capacity) == capacity + 1
DisabledAt(capacity) == capacity + 2
AllocatedForBorrowingAt(capacity) == capacity + 3

None == NoneAt(NumQubits)
Allocated == AllocatedAt(NumQubits)
Disabled == DisabledAt(NumQubits)
AllocatedForBorrowing == AllocatedForBorrowingAt(NumQubits)

Ids == 0 .. NumQubits - 1
IsFree(id) == qubits[id] < Allocated
IsDisabled(id) == qubits[id] = Disabled
IsAllocatedForBorrowing(id) == qubits[id] >= AllocatedForBorrowing

FreeIds == {id \in Ids : IsFree(id)}
DisabledIds == {id \in Ids : IsDisabled(id)}
BusyIds == Ids \ (FreeIds \cup DisabledIds)

FreeQubitsCount == NumQubits - NumDisabledQubits - NumAllocatedQubits

-----------------------------------------------------------------------------
(* Frames                                                                   *)

(*   args    the qubits of the operation's argument                         *)
(*   locals  allocated or borrowed here, with a count (absent means 0)      *)
(*   used    history: allocated here and not yet released                   *)
(*   lent    history: borrowed here and not yet returned                    *)
(*   lost    history: borrowed here by a call that threw, still counted     *)

Frame(args) == [args |-> args, locals |-> <<>>, used |-> {}, lent |-> {}, lost |-> {}]

Top == operationStack[Len(operationStack)]
SetTop(frame) == operationStack' = [operationStack EXCEPT ![Len(operationStack)] = frame]

AddLocal(locals, id) ==
    IF DisableBorrowing THEN locals
    ELSE [x \in DOMAIN locals \cup {id} |->
            (IF x \in DOMAIN locals THEN locals[x] ELSE 0) + (IF x = id THEN 1 ELSE 0)]

RemoveLocal(locals, id) ==
    IF DisableBorrowing THEN locals
    ELSE IF locals[id] = 1 THEN Restrict(locals, DOMAIN locals \ {id})
    ELSE [locals EXCEPT ![id] = @ - 1]

QubitsInUse_WithDisabled(frame) == DOMAIN frame.locals \cup frame.args

QubitsInUse_NoArguments(frame) == {id \in DOMAIN frame.locals : ~IsDisabled(id)}

QubitsInUse(frame) == {id \in DOMAIN frame.locals \cup frame.args : ~IsDisabled(id)}

-----------------------------------------------------------------------------
(* The loop in progress.                                                    *)
(*   op        "idle", "allocate" or "borrow"                               *)
(*   undoing   the loop ran out of qubits and is releasing what it took     *)
(*   want      qubits asked for                                             *)
(*   got       ids allocated so far, in order                               *)
(*   borrowed  ids borrowed so far, in order                                *)
(*   quota     numBorrowed: how many are to be borrowed, not allocated      *)
(*   inUse     what is left of the stack of ids that must not be borrowed   *)
(*   before    history: the ids that were free when the call began          *)

Idle == [op |-> "idle", undoing |-> FALSE, want |-> 0, got |-> <<>>, borrowed |-> <<>>,
         quota |-> 0, inUse |-> {}, before |-> {}]

Taking(op) == call.op = op /\ ~call.undoing
LastOne == Len(call.got) + Len(call.borrowed) + 1 = call.want

Init ==
    /\ NumQubits = Capacity
    /\ NumAllocatedQubits = 0
    /\ NumDisabledQubits = 0
    /\ qubits = [id \in 0 .. Capacity - 1 |-> id + 1]
    /\ free = 0
    /\ freeTail = Capacity - 1
    /\ operationStack = <<Frame({})>>
    /\ call = Idle
    /\ orphans = [used |-> {}, lent |-> [id \in {} |-> 0]]
    /\ strays = {}
    /\ failures = 0

-----------------------------------------------------------------------------
(* Allocate(bool): take the head of the free list, growing it if it is empty. *)

OutOfQubits == free = None /\ ~MayExtendCapacity

Moved_KeepsAllocated(entry) ==
    IF entry = None THEN NumQubits
    ELSE IF entry > Allocated THEN entry + NumQubits ELSE entry

\* An entry of the old array, carried over to the doubled one.
Moved(entry) ==
    IF entry = None THEN NumQubits
    ELSE IF entry = Allocated THEN AllocatedAt(2 * NumQubits)
    ELSE IF entry = Disabled THEN DisabledAt(2 * NumQubits)
    ELSE IF entry >= AllocatedForBorrowing
         THEN entry - AllocatedForBorrowing + AllocatedForBorrowingAt(2 * NumQubits)
    ELSE 0

GrownQubits ==
    [id \in 0 .. 2 * NumQubits - 1 |->
        IF id >= NumQubits THEN id + 1 ELSE Moved(qubits[id])]

TakeHead(capacity, array, head, usedOnlyForBorrowing) ==
    /\ NumQubits' = capacity
    /\ free' = array[head]
    /\ qubits' = [array EXCEPT ![head] = IF usedOnlyForBorrowing
                                         THEN AllocatedForBorrowingAt(capacity)
                                         ELSE AllocatedAt(capacity)]
    /\ NumAllocatedQubits' = NumAllocatedQubits + 1
    /\ UNCHANGED NumDisabledQubits

\* One call of Allocate(usedOnlyForBorrowing) that returns the qubit id.
AllocateOne(id, usedOnlyForBorrowing) ==
    \/ /\ free # None
       /\ id = free
       /\ TakeHead(NumQubits, qubits, id, usedOnlyForBorrowing)
       /\ UNCHANGED freeTail
    \/ /\ free = None
       /\ MayExtendCapacity
       /\ 2 * NumQubits <= MaxCapacity
       /\ id = NumQubits
       /\ TakeHead(2 * NumQubits, GrownQubits, id, usedOnlyForBorrowing)
       /\ freeTail' = 2 * NumQubits - 1

\* The bound on growth: n more qubits fit below MaxCapacity.
Fits(n) == MayExtendCapacity => 2 * NumQubits <= MaxCapacity \/ n <= Cardinality(FreeIds)

(* Release(qubit, bool) for a qubit that is not disabled.  The three cases    *)
(* are the ones of the code, on EncourageReuse and MayExtendCapacity.       *)

PushFree_LosesHead(id) ==
    /\ EncourageReuse
    /\ qubits' = [qubits EXCEPT ![id] = free]
    /\ free' = qubits[id]
    /\ UNCHANGED freeTail

PushFree(id) ==
    /\ EncourageReuse
    /\ qubits' = [qubits EXCEPT ![id] = free]
    /\ free' = id
    /\ UNCHANGED freeTail

DropFree_Appends(id) ==
    /\ ~EncourageReuse /\ MayExtendCapacity
    /\ qubits' = [qubits EXCEPT ![freeTail] = IF @ = None THEN id ELSE @, ![id] = None]
    /\ free' = IF qubits[freeTail] # None THEN id ELSE free
    /\ freeTail' = id

\* The qubit will never be reused: it joins no list.
DropFree(id) ==
    /\ ~EncourageReuse /\ MayExtendCapacity
    /\ qubits' = [qubits EXCEPT ![id] = None]
    /\ freeTail' = id
    /\ UNCHANGED free

AppendFree(id) ==
    /\ ~EncourageReuse /\ ~MayExtendCapacity
    /\ IF qubits[freeTail] # None   \* there were no free qubits at all
       THEN free' = id /\ qubits' = [qubits EXCEPT ![id] = None]
       ELSE UNCHANGED free /\ qubits' = [qubits EXCEPT ![freeTail] = id, ![id] = None]
    /\ freeTail' = id

ReleaseOne_NoCount(id) ==
    /\ PushFree(id) \/ DropFree(id) \/ AppendFree(id)
    /\ UNCHANGED <<NumQubits, NumAllocatedQubits, NumDisabledQubits>>

ReleaseOne(id) ==
    /\ PushFree(id) \/ DropFree(id) \/ AppendFree(id)
    /\ NumAllocatedQubits' = NumAllocatedQubits - 1
    /\ UNCHANGED <<NumQubits, NumDisabledQubits>>

-----------------------------------------------------------------------------
(* Allocate(n), and Borrow(n) when borrowing is disabled                    *)

BeginAllocate(n) ==
    /\ call = Idle
    /\ Fits(n)
    /\ call' = [Idle EXCEPT !.op = "allocate", !.want = n, !.before = FreeIds]
    /\ UNCHANGED <<poolVars, operationStack, historyVars>>

AllocateNext(id) ==
    /\ Taking("allocate")
    /\ AllocateOne(id, FALSE)
    /\ IF LastOne
       THEN /\ call' = Idle
            /\ SetTop([Top EXCEPT !.locals = AddLocal(@, id),
                                  !.used = @ \cup Range(call.got) \cup {id}])
       ELSE /\ call' = [call EXCEPT !.got = Append(@, id)]
            /\ SetTop([Top EXCEPT !.locals = AddLocal(@, id)])
    /\ UNCHANGED historyVars

AllocateFails_NoRollback ==
    /\ Taking("allocate")
    /\ OutOfQubits
    /\ call' = Idle
    /\ UNCHANGED <<poolVars, operationStack, historyVars>>

\* The pool is empty: what was obtained so far is released first, and then
\* NotEnoughQubits is thrown.
AllocateFails ==
    /\ Taking("allocate")
    /\ OutOfQubits
    /\ call' = IF call.got = <<>> THEN Idle ELSE [call EXCEPT !.undoing = TRUE]
    /\ UNCHANGED <<poolVars, operationStack, historyVars>>

\* One iteration of the rollback loops of Allocate(n) and Borrow(n): release in
\* order what this call allocated.  What Borrow(n) borrowed stays as it is.
RollbackNext ==
    /\ call.undoing
    /\ ReleaseOne(Head(call.got))
    /\ IF Len(call.got) = 1
       THEN /\ call' = Idle
            /\ SetTop([Top EXCEPT !.locals = RemoveLocal(@, Head(call.got)),
                                  !.lost = @ \cup Range(call.borrowed)])
            /\ failures' = IF call.op = "borrow" THEN failures + 1 ELSE failures
       ELSE /\ call' = [call EXCEPT !.got = Tail(@)]
            /\ SetTop([Top EXCEPT !.locals = RemoveLocal(@, Head(call.got))])
            /\ UNCHANGED failures
    /\ UNCHANGED <<orphans, strays>>

Release_IgnoresDisabled(id) ==
    /\ call = Idle
    /\ id \in Top.used
    /\ ReleaseOne(id)
    /\ SetTop([Top EXCEPT !.used = @ \ {id}, !.locals = RemoveLocal(@, id)])
    /\ UNCHANGED <<call, historyVars>>

Release_KeepsLocal(id) ==
    /\ call = Idle
    /\ id \in Top.used
    /\ IF IsDisabled(id) THEN UNCHANGED poolVars ELSE ReleaseOne(id)
    /\ SetTop([Top EXCEPT !.used = @ \ {id}])
    /\ UNCHANGED <<call, historyVars>>

(* Release(qubit).  A disabled qubit stays disabled, and a local.           *)
Release(id) ==
    /\ call = Idle
    /\ id \in Top.used
    /\ IF IsDisabled(id)
       THEN /\ SetTop([Top EXCEPT !.used = @ \ {id}])
            /\ UNCHANGED poolVars
       ELSE /\ qubits[id] = Allocated   \* otherwise ArgumentException
            /\ ReleaseOne(id)
            /\ SetTop([Top EXCEPT !.used = @ \ {id}, !.locals = RemoveLocal(@, id)])
    /\ UNCHANGED <<call, historyVars>>

(* Disable(qubit), for any qubit the program can name in this frame.        *)
Disable(id) ==
    /\ call = Idle
    /\ id \in Top.used \cup Top.lent \cup Top.args
    /\ ~IsDisabled(id)
    /\ NumDisabledQubits < MaxDisabled
    /\ qubits' = [qubits EXCEPT ![id] = Disabled]
    /\ NumDisabledQubits' = NumDisabledQubits + 1
    /\ NumAllocatedQubits' = NumAllocatedQubits - 1
    /\ UNCHANGED <<NumQubits, free, freeTail, operationStack, call, historyVars>>

-----------------------------------------------------------------------------
(* Borrow(n)                                                                *)

\* The stack of ids in use is popped only when its top is the id being looked
\* at, so an entry that is skipped hides the ones above it.
Matched(id, minId) ==
    /\ id \in call.inUse
    /\ \A other \in call.inUse :
        other <= id => other >= minId /\ ~IsFree(other) /\ ~IsDisabled(other)

Borrowable(minId) ==
    {id \in Ids : id >= minId /\ ~IsFree(id) /\ ~IsDisabled(id) /\ ~Matched(id, minId)}

Lowest(S) == {id \in S : \A other \in S : id <= other}

MinId == IF call.borrowed = <<>> THEN 0 ELSE call.borrowed[Len(call.borrowed)] + 1

BeginBorrow(n) ==
    /\ call = Idle
    /\ ~DisableBorrowing
    /\ Fits(n)
    /\ failures <= MaxFailures
    /\ LET inUse == QubitsInUse(Top)
           available == NumAllocatedQubits - Cardinality(inUse)
       IN  call' = [Idle EXCEPT !.op = "borrow", !.want = n, !.inUse = inUse,
                                !.quota = IF available < n THEN available ELSE n,
                                !.before = FreeIds]
    /\ UNCHANGED <<poolVars, operationStack, historyVars>>

\* The quota is met, or the search runs short, which "should not happen"
\* (QubitManager.cs:585).
DoneBorrowing == Len(call.borrowed) >= call.quota \/ Borrowable(MinId) = {}

\* Put id in the array; when it is the last one the program gets the array.
BorrowStep(id, next) ==
    IF LastOne
    THEN /\ call' = Idle
         /\ SetTop([Top EXCEPT !.locals = AddLocal(@, id),
                               !.lent = @ \cup Range(call.borrowed) \cup Range(call.got)
                                          \cup {id}])
    ELSE /\ call' = next
         /\ SetTop([Top EXCEPT !.locals = AddLocal(@, id)])

\* The lowest id not passed yet that is allocated and not in use.
BorrowNext(id) ==
    /\ Taking("borrow")
    /\ ~DoneBorrowing
    /\ id \in Lowest(Borrowable(MinId))
    /\ qubits' = IF IsAllocatedForBorrowing(id) THEN [qubits EXCEPT ![id] = @ + 1] ELSE qubits
    /\ LET passed == {used \in call.inUse : used < id /\ Matched(used, MinId)}
       IN  BorrowStep(id, [call EXCEPT !.borrowed = Append(@, id), !.inUse = @ \ passed])
    /\ UNCHANGED <<NumQubits, NumAllocatedQubits, NumDisabledQubits, free, freeTail,
                   historyVars>>

\* Nothing more to borrow: allocate the rest.
BorrowAllocates(id) ==
    /\ Taking("borrow")
    /\ DoneBorrowing
    /\ AllocateOne(id, TRUE)
    /\ BorrowStep(id, [call EXCEPT !.got = Append(@, id), !.quota = Len(call.borrowed)])
    /\ UNCHANGED historyVars

BorrowFails ==
    /\ Taking("borrow")
    /\ DoneBorrowing
    /\ OutOfQubits
    /\ IF call.got = <<>>
       THEN /\ call' = Idle
            /\ SetTop([Top EXCEPT !.lost = @ \cup Range(call.borrowed)])
            /\ failures' = failures + 1
       ELSE /\ call' = [call EXCEPT !.undoing = TRUE]
            /\ UNCHANGED <<operationStack, failures>>
    /\ UNCHANGED <<poolVars, orphans, strays>>

(* Borrow(), the single-qubit overload: it falls back on Allocate().        *)
BorrowSingle(id) ==
    /\ call = Idle
    /\ ~DisableBorrowing
    /\ Fits(1)
    /\ failures <= MaxFailures
    /\ LET candidates == BusyIds \ QubitsInUse(Top)
       IN  IF NumAllocatedQubits # Cardinality(QubitsInUse(Top)) /\ candidates # {}
           THEN /\ id \in Lowest(candidates)
                /\ qubits' = IF IsAllocatedForBorrowing(id) THEN [qubits EXCEPT ![id] = @ + 1]
                             ELSE qubits
                /\ UNCHANGED <<NumQubits, NumAllocatedQubits, NumDisabledQubits, free,
                               freeTail, strays>>
           ELSE /\ AllocateOne(id, FALSE)
                /\ strays' = strays \cup {id}
    /\ SetTop([Top EXCEPT !.locals = AddLocal(@, id), !.lent = @ \cup {id}])
    /\ UNCHANGED <<call, orphans, failures>>

Return_IgnoresCount(id) ==
    /\ call = Idle
    /\ id \in Top.lent
    /\ IF IsAllocatedForBorrowing(id) THEN ReleaseOne(id) ELSE UNCHANGED poolVars
    /\ SetTop([Top EXCEPT !.lent = @ \ {id}, !.locals = RemoveLocal(@, id)])
    /\ UNCHANGED <<call, historyVars>>

Return_ReleasesOwned(id) ==
    /\ call = Idle
    /\ id \in Top.lent
    /\ IF qubits[id] \in {Allocated, AllocatedForBorrowing} THEN ReleaseOne(id)
       ELSE UNCHANGED poolVars
    /\ SetTop([Top EXCEPT !.lent = @ \ {id}, !.locals = RemoveLocal(@, id)])
    /\ UNCHANGED <<call, historyVars>>

(* Return(qubit)                                                            *)
Return(id) ==
    /\ call = Idle
    /\ id \in Top.lent
    /\ IF qubits[id] = AllocatedForBorrowing
       THEN ReleaseOne(id)
       ELSE /\ qubits' = IF IsAllocatedForBorrowing(id) THEN [qubits EXCEPT ![id] = @ - 1]
                         ELSE qubits
            /\ UNCHANGED <<NumQubits, NumAllocatedQubits, NumDisabledQubits, free, freeTail>>
    /\ SetTop([Top EXCEPT !.lent = @ \ {id}, !.locals = RemoveLocal(@, id)])
    /\ UNCHANGED <<call, historyVars>>

-----------------------------------------------------------------------------
(* Operations.  Operation.Apply pushes a frame before the body and pops it   *)
(* in a finally block; generated code releases before that unless the body  *)
(* threw, and nothing catches below the host program, in the bottom frame.  *)

OnOperationStart(args) ==
    /\ call = Idle
    /\ failures <= MaxFailures
    /\ Len(operationStack) < MaxDepth
    /\ args \subseteq Top.args \cup Top.used \cup Top.lent
    /\ operationStack' = Append(operationStack, Frame(args))
    /\ UNCHANGED <<poolVars, call, historyVars>>

\* What the frames above depth hold joins the orphans.  A loan matters there only
\* if the manager counts it, that is if the qubit was allocated for borrowing.
Abandoned(depth) ==
    LET ended == depth + 1 .. Len(operationStack)
        loans(id) == Cardinality({i \in ended :
                        id \in operationStack[i].lent \cup operationStack[i].lost})
                     + IF id \in DOMAIN orphans.lent THEN orphans.lent[id] ELSE 0
    IN  [used |-> orphans.used \cup UNION {operationStack[i].used : i \in ended},
         lent |-> [id \in {x \in Ids : IsAllocatedForBorrowing(x) /\ loans(x) > 0}
                       |-> loans(id)]]

PopTo(depth) ==
    /\ operationStack' = SubSeq(operationStack, 1, depth)
    /\ orphans' = Abandoned(depth)
    /\ UNCHANGED <<poolVars, call, strays>>

OnOperationEnd ==
    /\ call = Idle
    /\ Len(operationStack) > 1
    /\ Top.used = {} /\ Top.lent = {}
    /\ PopTo(Len(operationStack) - 1)
    /\ UNCHANGED failures

Fail ==
    /\ call = Idle
    /\ Len(operationStack) > 1
    /\ failures < MaxFailures
    /\ PopTo(1)
    /\ failures' = failures + 1

Next ==
    \/ \E n \in 1 .. MaxRequest : BeginAllocate(n) \/ BeginBorrow(n)
    \/ \E id \in 0 .. 2 * NumQubits : \/ AllocateNext(id) \/ Release(id) \/ Disable(id)
                                     \/ BorrowNext(id) \/ BorrowAllocates(id)
                                     \/ BorrowSingle(id) \/ Return(id)
    \/ AllocateFails \/ BorrowFails \/ RollbackNext
    \/ \E args \in SUBSET Ids : OnOperationStart(args)
    \/ OnOperationEnd \/ Fail

Spec == Init /\ [][Next]_vars

-----------------------------------------------------------------------------
(* Properties                                                               *)

Calls == [op : {"idle", "allocate", "borrow"}, undoing : BOOLEAN, want : Nat,
          got : Seq(Ids), borrowed : Seq(Ids), quota : Int, inUse : SUBSET Ids,
          before : SUBSET Ids]

\* Every variable has its type; an entry of qubits is a next-pointer, one of the
\* three markers or a reference count above them, and is never negative.
TypeOK ==
    /\ NumQubits \in Nat \ {0}
    /\ NumAllocatedQubits \in Int /\ NumDisabledQubits \in Int
    /\ qubits \in [Ids -> Nat]
    /\ free \in 0 .. NumQubits /\ freeTail \in Ids
    /\ \A i \in 1 .. Len(operationStack) :
        LET frame == operationStack[i]
        IN  /\ DOMAIN frame.locals \subseteq Ids
            /\ {frame.args, frame.used, frame.lent, frame.lost} \subseteq SUBSET Ids
    /\ call \in Calls
    /\ orphans.used \subseteq Ids /\ DOMAIN orphans.lent \subseteq Ids
    /\ strays \subseteq Ids
    /\ failures \in Nat

\* Qubits released to a manager that may grow and does not reuse are gone for good.
Discards == MayExtendCapacity /\ ~EncourageReuse

\* s is the list the code walks from free: each element once, each pointing to
\* the next, the last one to None.
Linked(s) ==
    /\ IsInjective(s)
    /\ free = IF s = <<>> THEN None ELSE s[1]
    /\ \A i \in 1 .. Len(s) : qubits[s[i]] = IF i = Len(s) THEN None ELSE s[i + 1]

\* The free list ends in None and holds exactly the free qubits, each once; its
\* tail pointer is right whenever Release relies on it (QubitManager.cs:464-487).
FreeListExact ==
    \E s \in UNION {[1 .. n -> FreeIds] : n \in 0 .. NumQubits} :
        /\ Linked(s)
        /\ ~Discards => FreeIds = Range(s)
        /\ ~EncourageReuse /\ ~MayExtendCapacity =>
            IF s = <<>> THEN qubits[freeTail] # None ELSE freeTail = s[Len(s)]

\* The counters behind FreeQubitsCount, AllocatedQubitsCount and Borrow's quota
\* agree with the markers.
CountersExact ==
    /\ NumAllocatedQubits = Cardinality(BusyIds)
    /\ NumDisabledQubits = Cardinality(DisabledIds)
    /\ FreeQubitsCount = Cardinality(FreeIds)

\* An owner is a frame, by its depth, or one of three that never release: frames
\* that failed, single borrows, and the call in progress.
Orphaned == 0
Strayed == -1
Calling == -2

Owners(id) ==
    {i \in 1 .. Len(operationStack) : id \in operationStack[i].used}
    \cup (IF id \in orphans.used THEN {Orphaned} ELSE {})
    \cup (IF id \in strays THEN {Strayed} ELSE {})
    \cup (IF call.op = "allocate" /\ id \in Range(call.got) THEN {Calling} ELSE {})

\* What the call in progress has obtained for a borrow request.
Pending == IF call.op = "borrow" THEN Range(call.borrowed) \cup Range(call.got) ELSE {}

\* The frames that have id on loan.
LoanFrames(id) ==
    {i \in 1 .. Len(operationStack) : id \in operationStack[i].lent \cup operationStack[i].lost}

\* How many times id is out on loan.
Loans(id) ==
    Cardinality(LoanFrames(id))
    + (IF id \in DOMAIN orphans.lent THEN orphans.lent[id] ELSE 0)
    + (IF id \in Pending THEN 1 ELSE 0)

\* A qubit never has two owners, an owned one is marked Allocated or Disabled,
\* and one marked Allocated is owned: no double allocation, and no release under
\* the owner, over any nesting of frames and any failure.
ExclusiveOwnership ==
    \A id \in Ids :
        /\ \A one, other \in Owners(id) : one = other
        /\ Owners(id) # {} => qubits[id] \in {Allocated, Disabled}
        /\ qubits[id] = Allocated => Owners(id) # {}

\* The reference count hidden in the marker of a qubit allocated only for
\* borrowing is the number of loans outstanding, so no Return before the last one
\* releases it; and nothing that is free is still on loan.  A loan of a Borrow(n) that
\* threw is outstanding for good, since nobody can return it: see LoansAreReturnable.
RefCountExact ==
    \A id \in Ids :
        /\ IsAllocatedForBorrowing(id) => qubits[id] - AllocatedForBorrowing + 1 = Loans(id)
        /\ IsFree(id) => Loans(id) = 0

\* A frame never borrows what it can already reach: its arguments, the qubits it
\* allocated, and what it borrowed before.
BorrowedAreIdle ==
    /\ \A i \in 1 .. Len(operationStack) :
        LET frame == operationStack[i]
        IN  frame.lent \cap (frame.args \cup frame.used) = {}
    /\ Pending \cap (Top.args \cup Top.used \cup Top.lent) = {}
    /\ IsInjective(call.borrowed \o call.got)

\* The locals of a frame are what it holds, once each, apart from disabled
\* qubits: the assertions of Release and Return (QubitManager.cs:495, 684).
LocalsExact ==
    ~DisableBorrowing =>
    \A i \in 1 .. Len(operationStack) :
        LET frame == operationStack[i]
            held == frame.used \cup frame.lent \cup frame.lost
                    \cup IF i = Len(operationStack) THEN Range(call.borrowed) \cup Range(call.got) ELSE {}
        IN  /\ held \subseteq DOMAIN frame.locals
            /\ DOMAIN frame.locals \subseteq held \cup DisabledIds
            /\ \A id \in DOMAIN frame.locals : frame.locals[id] = 1

\* Borrow's count of what can be borrowed is never more than its search finds,
\* the case the code comments "should not happen" (QubitManager.cs:585).
BorrowNeverRunsShort ==
    Taking("borrow") =>
        /\ call.quota >= 0
        /\ Len(call.borrowed) < call.quota => Borrowable(MinId) # {}

\* Allocate(n) and Borrow(n) either hand over n qubits or throw with the same
\* qubits free as before the call, wherever in the loop the pool ran out
\* (QubitManager.cs:411, 603).  It says nothing of counts: see LoansAreReturnable.
ThrowsAreClean ==
    [][ (call # Idle /\ call' = Idle /\ Top'.used = Top.used /\ Top'.lent = Top.lent)
            => FreeIds' = call.before ]_vars

\* "Once a qubit is disabled it can never be reallocated" (QubitManager.cs:288).
DisabledForever ==
    [][ DisabledIds \subseteq DisabledIds' ]_vars

\* The manager as its callers see it, an instance of the pool in QubitPool.
LargestCapacity == IF MayExtendCapacity /\ MaxCapacity > Capacity THEN MaxCapacity ELSE Capacity

OwnedIds == {id \in Ids : qubits[id] = Allocated}
LoanCounts == [id \in {x \in Ids : IsAllocatedForBorrowing(x)} |->
                qubits[id] - AllocatedForBorrowing + 1]

Pool == INSTANCE QubitPool WITH
            QubitIds <- 0 .. LargestCapacity - 1,
            owned <- OwnedIds, loans <- LoanCounts, disabled <- DisabledIds

\* Every operation of the manager is one step of the abstract pool or none, at any
\* capacity and across every doubling of it, in which all markers change
\* (QubitManager.cs:333-377).
ImplementsPool == Pool!Spec

\* "Releases it if it has been allocated just for borrowing" (QubitManager.cs:654), when the last
\* one returns it: the loans that are counted are of frames that will return them, or of the call in
\* progress.  Borrow(n) breaks this when it throws, as it does not lower the counts it has
\* raised (QubitManager.cs:601-606); nor do operations that fail.
LoansAreReturnable ==
    \A id \in Ids : IsAllocatedForBorrowing(id) =>
        qubits[id] - AllocatedForBorrowing + 1 <=
            Cardinality({i \in 1 .. Len(operationStack) : id \in operationStack[i].lent})
            + (IF id \in Pending THEN 1 ELSE 0)

\* "Releases it if it has been allocated just for borrowing"
\* (QubitManager.cs:654): a qubit a borrow request had to allocate is busy only
\* while somebody still has it on loan.
ReturnReleases ==
    \A id \in strays : id \in BusyIds => Loans(id) > 0
=============================================================================
