# The Q# runtime in TLA+

TLA+ models of the run-time system in this repository (simulators, qubit
managers, arrays, job client), TLC configurations that check them on small
instances, and proofs about the qubit managers, the registry, the arrays, the wave function, the tracer and
the job client that TLAPS checks for every value of their constants. Paths below are relative to `src/src/`; "QubitManager.cs" is
`Simulation/Common/QubitManager.cs` unless said otherwise.

Contents: [1 the system](#1-the-system), [2 what is modelled and how](#2-modules-and-the-code-they-model),
[3 what the runs check](#3-runs), [4 what is proved](#4-proofs), [5 where the code
falls short](#5-where-the-code-falls-short), [6 what is left out](#6-not-modelled),
[7 plan](#7-plan).

## 1. The system

A Q# program compiled to C# runs on a *simulator*, which gives it qubits
and carries out its operations. The parts that keep state of their own:

| Part | State | Operations | What makes it correct |
|---|---|---|---|
| Qubit manager (`Simulation/Common/QubitManager.cs`) | array of markers that is also a linked free list, counters, stack of operation frames with local qubits | `Allocate`, `Release`, `Disable`, `Borrow`, `Return`, `OnOperationStart/End`, growth | a qubit has one owner; the marker of a borrowed one counts its borrowers; what is borrowed is idle; a call that throws gives back what it allocated |
| Manager with restricted reuse (`QCTraceSimulator/QubitManagerRestrictedReuse.cs`) | one status array, two linked lists per area of a stack of areas | the same, and start/next/end of a reuse area | lists partition the free qubits; reuse never crosses segments; nothing is lost when areas end |
| Operation calls (`Core/Operations/Operation.cs`, `SimulatorBase.cs`) | stack of frames; the stack trace of the exception on its way up | `Apply`, start/end/fail events | frames nest, failing operations leave a stack that describes them |
| Q# arrays (`Core/QArray.cs`) | windows (start, step, length) on shared, reference-counted inner arrays | copy, slice, concatenate, modify | value semantics |
| Native registry (`Native/src/simulator/factory.cpp`, `NativeSparseSimulator/factory.cpp`) | vector of simulators, read-write lock | `create`, `destroy`, `get` by concurrent host threads | an id names one simulator |
| Wave function (`Native/src/simulator/wavefunction.hpp`, `external/fused.hpp`) | amplitudes, id-to-position map, queue of gates not applied yet | allocate, release, gates, measure, inject, flush | deferring and regrouping gates is invisible |
| Sparse simulator (`NativeSparseSimulator/SparseSimulator.h`) | hash table of amplitudes, list of waiting permutations and phases, waiting H, Rx, Ry per qubit, bitmap of qubits that may be nonzero | gates, measurement, assertions, allocation, release | deferring gates is invisible; a qubit taken for zero is zero |
| Common native simulator (`Simulation/Simulators/CommonNativeSimulator`) | the map from ids to native qubits, beside the qubit manager it inherits | a check and a native call per gate, allocation and release | the two allocations stay paired, whatever fails |
| Trace simulator (`Simulation/QCTraceSimulator/*.cs`) | stacks of call records, times per qubit, pools of qubits sorted by time, constraints on measurement outcomes | allocation, gate, call, assertion and measurement events | depth and width are those of a schedule that exists; a measurement is answered from one assertion, which nothing has taken from its qubits |
| Toffoli simulator, open systems simulator, quantum processor base | bits; a density matrix or tableau behind a lock; none | gates | their arithmetic |
| Azure client (`Azure/Azure.Quantum.Client`) | a copy of a job's details | submit, refresh, cancel, wait | a wait ends, and not before the job |
| Entry point driver, QIR runtime and tools, code generators, bindings | none at run time | | |

How they interact. Generated code calls `Operation.Apply`, which raises
`OnOperationStart` and, in a `finally`, `OnOperationEnd`; the qubit manager
pushes and pops a frame on these. `use` and `borrow` become calls of
`Allocate`/`Release` and `Borrow`/`Return` on the manager of the simulator, which in
a native simulator is a subclass that calls the native library for every qubit.
Gates go through the C API, which looks the simulator up in the registry, takes
that simulator's lock and queues the gate. Everything of one simulator runs on one
thread; several simulators share the registry, and several tasks may share a
`CloudJob`.

What is hard. Failures in the middle of loops over single qubits (`Allocate(n)`,
`Borrow(n)`, and the same in subclasses); operations that throw while they hold
qubits; markers that are renumbered when the capacity doubles; linked lists threaded
through an array that several lists share; windows on shared storage; gates that are
held back, reordered and rewritten, and marks that are trusted later; concurrent
creation and destruction of simulators; answers of the Azure service that are
stored in another order. `PROJECT.json` lists these hazards at their lines, with
the properties that watch them.

## 2. Modules and the code they model

An action is one handler, or one iteration of a handler's loop when
something may fail between two of them. Definitions named `X_Bug` are `X` with a
plausible mistake; no specification uses them, they are put in the place of `X` to
see that a property notices.

### QubitManager, QubitPool

`QubitManager` follows `QubitManager.cs` line by line: `qubits` is the array whose
entries are the next free id or one of the markers `None`, `Allocated`, `Disabled`,
`AllocatedForBorrowing + n`, all derived from the capacity, so that growth
(`GrownQubits`, `Moved`) renumbers them. `free`, `freeTail` and the two counters are
the fields of the same names. `AllocateOne` is `Allocate(bool)`, `ReleaseOne` the body
of `Release(qubit, bool)` with its three cases (`PushFree`, `AppendFree`, `DropFree`)
on `EncourageReuse` and `MayExtendCapacity`. `Allocate(n)` and `Borrow(n)` loop over virtual
methods that can throw: `call` holds the loop's locals, `BeginAllocate`, `AllocateNext`,
`AllocateFails`, `RollbackNext`, `BeginBorrow`, `BorrowNext`, `BorrowAllocates` and
`BorrowFails` are its steps. `BorrowSingle` is the single-qubit overload, which is other
code. The search of `Borrow` pops its stack of qubits in use only when the top is
reached; `Matched` keeps that.

The program is the environment. It does what generated code does: it releases and returns in the frame that took
the qubit, passes qubits it can reach as arguments, and may throw anywhere,
which ends every frame up to the host without releasing (`Fail`). After a failure
the host may use the manager again, `MaxFailures` times. `used`, `lent`, `lost`
(fields of frames), `orphans` and `strays` are history: who holds what. `lost` is what a `Borrow(n)` that threw
had borrowed: nobody can return it, and its count stays raised (section 5).

`QubitPool` is what any qubit manager promises: ids that are granted, lent, shared,
reclaimed or disabled, one at a time. `QubitManager` implements it (`ImplementsPool`,
with `owned`, `loans` and `disabled` read off the markers by `OwnedIds` and `LoanCounts`).

### CommonNativeSimulator, MCQubitManagerModes

`CommonNativeSimulator` composes `QubitManager` with the native library. Its subclass of the manager
overrides the single-qubit `Allocate` and `Release` and makes one native call in each, after
the manager's own code; which of the manager's steps reach these methods is what
`AllocateQubit`, `ReleaseQubit`, `ReturnQubit` and `RollbackQubit` say, and `BorrowQubit` and
`ManagerOnly` are the steps that do not. `qubitmap` and `num_qubits` are the fields of
`wavefunction.hpp`; positions are `Wavefunction`'s business. The library indexes its map by the ids it is
given and takes any other for the next one (wavefunction.hpp:520), so the pairing needs new ids to come
in their order. A release that finds a qubit in another state than |0> throws after the native
release: that is a release followed by `Fail`.

`MCQubitManagerModes` chooses one of three managers at the start: `append` and `discard` discourage
reuse, with a fixed and with a growing capacity; `grow` is that of a native simulator, growing.

### QubitManagerRestrictedReuse

`status` is the shared array, `areas` the stack of areas with their two lists (`first`,
`last`), the list operations are operators of the same names as the methods. `segment`
of an area and `releasedIn` of a qubit are history, for stating what "reused in another
segment" means when areas nest and end. `configuration` is chosen at the start, so one
run covers several ways to construct the manager.

### SimulatorRegistry

One thread per host thread; `create` is two steps, since constructing the simulator
happens under the lock and takes long; `get` computes a reference under a shared lock
and the caller follows it later, by when the vector may have moved (`buffer`).

### QArray

`arrays` are the windows, `inners` the inner arrays with `refCount` and `storage`, `value`
what each array would be if it were a plain sequence. Every method that writes follows
the code's order of taking a reference off, copying and writing (`Detach`, `SetElement`,
`CopyAndCompress`, `Written`), so that it shows what is left when it throws: an `Add` without room for the
result has copied its left argument's window before, if it had to (`AddThrows`). A range update
writes element by element and reads its values as it goes. Inner arrays nobody points to
are garbage and are given new names freely.

### Wavefunction

`qubitmap`, `wfn`, `pending_gates` and `usage_` are the fields; an entry of `wfn` is a
position of the state vector, reduced to the qubit it belongs to and the gates it went
through. `MakeClusters` is `make_clusters` with its passes of growing width, `Flushed` is
`flush` with the fusing of each cluster. The fuse span changes with the size of the vector
and the machine, so it is chosen anew at every step. Two orders of the same gates are the
same when every qubit sees its gates in the same order.

### SparseSimulator, StabilizerState

`sim` is the object: `state`, the waiting `operations`, `H`, `Rx`, `Ry` with their angles, and
`occupied`. Every method is an operator from the object to the object, with the names of the
code, and a call of the C API is an action that applies it and, beside it, applies the same
gate to `ideal`, the state the program asked for. Amplitudes are replaced by the group of
signed Pauli operators that fix the state, which is exact for the states that Clifford gates
and measurements reach from |0...0> (`StabilizerState`); a gate is a sequence of quarter turns
about Pauli operators. So the angles of rotations are multiples of a quarter turn, and T,
`MCH`, `CSWAP` and gates with more than one control are left out. Measurement outcomes are
nondeterministic where the state allows both.

`Patterns` names three patterns of calls on which the code is wrong (section 5). With
`Patterns = {}` the program avoids them, and everything else is checked.

### QCTraceSimulator, DepthCounter, SortedQubitPool, WidthCounter, QubitConstraint

`QCTraceSimulator` is the core that drives everything: every action of it is one call of
`QCTraceSimulatorCore` with what that call makes its listeners and the constraints do. `DepthCounter` and
`WidthCounter` are the two listeners with state worth checking, one operator per event;
`SortedQubitPool` is the arithmetic of `ComplexTime` and the pools; `QubitConstraint` is what is known about
measurement outcomes. Of the qubit manager the module has only the contract that both managers of
`TraceableQubitManager.cs` meet: ids not in use, or new ones, and borrowed ids that are no argument or local of the
operation. `QubitManager` lends as many of these as it can, `QubitManagerRestrictedReuse` none, and `MayLend` allows both.

A qubit *object* is an id and a number. The code keeps metrics and constraints per object, a lent
qubit is a new object of the same id, and availability times (`available`) are kept per id. `Wire` says which of the
two a schedule is about: ids when they are reused, objects when depth is optimized, as then ids do not come
back. The call stacks of the listeners stop growing at `CallStackDepthLimit` while the
program's (`frames`) go on: gates, releases and borrows of unrecorded calls go to the last recorded one. An
exception (`OnFail`) ends every call up to the host (`Unwind`) and leaves what they hold allocated.

History: `wires` lists the gates of every wire, `lanes` the qubits that were given the
same place in the circuit, `facts` the assertions: each with the qubits it still says something of, which no gate, newer assertion
or release has taken from it (`on`), and those of them that were not measured since (`unmeasured`). From `wires` and `lanes` the
properties compute what the counters should have said: the longest chain of gates
(`EarliestEnd`), and whether all chains together are an order at all (`IsAcyclic`).

A gate is one step here. In the program it is an operation that calls the core: it starts
and ends a call of its own, which reads times and adds a sample to a table.

### CloudJob

Tasks that share one job. A request, its answer at the service and the continuation that
stores it are separate steps. The service is outside of the repository: of it the model has only the
statuses and that a final one stays.

## 3. Runs

| Run | Instance | Checks |
|---|---|---|
| `QM_reuse` | capacity 3 fixed, reuse; requests up to 3, two frames, one disabled qubit, one failure; in a native simulator | `FreeListExact`, `TypeOK`, `CountersExact`, `RefCountExact`, `BorrowNeverRunsShort`, `ExclusiveOwnership`, `BorrowedAreIdle`, `LocalsExact`, `NativePaired`, `ThrowsAreClean`, `DisabledForever`, `ImplementsPool` |
| `QM_modes` | no reuse: capacity 3 fixed, and 1 growing to 4; native: 1 growing to 4 | `ManagerExact` (of `append` and `grow`: the free list, ownership, the reference counts, and of `grow` the pairing), `NeverReused` |
| `RR_areas` | three configurations, three nested areas of two segments | `TypeOK`, `ListsPartitionFree`, `HeldIsCounted`, `ReuseIsRestricted`, `NoFalseShortage`, `NeverReused` |
| `TS_trace` | six configurations of the tracer (below) | `TypeOK`, `ReuseIsSchedulable`, `PoolsMatchLanes`, `DepthIsCriticalPath`, `WidthCoversNesting`, `AnswersAreAsserted` |
| `SR_slots` | three threads, two simulators each, one slot emptied before | `IdsAreExclusive`, `SlotsAreRecycled` |
| `QA_share` | three arrays of up to two elements, ranges of step -1 | `TypeOK`, `ValueSemantics`, `ReferencesCounted` |
| `WF_order` | three qubits, four gates between observations, three may wait, fuse spans 2 and 4 | `TypeOK`, `PositionsFollowQubits`, `ProgramOrder` |
| `CJ_shared` | a wait, a refresh, two cancellations, one failed request | `WaitOutlastsJob`, `WaitTerminates` |
| `SS_defer` | two qubits, rotations waiting on one of them at a time | `TypeOK`, `DeferredEqualsImmediate`, `UnoccupiedIsZero`, `FreshQubits` |
| `QM_leak`, `SS_cnot`, `SS_measure` | | violated: section 5 |

**What they show.** The `QM_*` runs cover every interleaving of a host operation and an
operation it calls, with the pool large enough for both to hold, lend and share qubits and
small enough to run out in the first, second and third iteration of every loop. Three qubits
are what the search of `Borrow` needs to skip one that is in use, find one that is not, and
still allocate. In `QM_modes`, growth from 1 to 4 doubles twice, the second time with owned, lent, shared and
disabled entries in the array. A call's `Fits` guard keeps growth below `MaxCapacity`: it cuts off calls
that would need more. The native manager of `QM_reuse` also disables a qubit (`MaxDisabled` 1), fails once, and goes on
with what is left.

`RR_areas`: three areas are the fewest in which an area ends into one that has itself a
container to end into; two segments are enough to release before and after a boundary.
Capacity 3 (or 1 growing to 4) gives lists of more than one element, which splicing can break.
`NoFalseShortage` is the converse of `ReuseIsRestricted`, so the
search neither reuses too early nor too late.

`TS_trace`: one configuration per question, so that no run multiplies all of them. `Scheduling` and
`ZeroDepth` optimize depth: with four qubits and four gates a released qubit goes after a lane or
before one, and several lanes have the same time. Where a qubit fits after one lane and before another the code
compares the gaps (DepthCounter.cs:276); no circuit gets there, since one lane would have to end before another
begins, and whichever of these two came later would have been put on the lane of the other. Three gates suffice for gates
without depth to be confused with none. `Tracking` is the same with ids that come back. `Calling`
and `Nesting` have three calls under the host with one and two of them recorded, failures, and a
qubit to lend. `Asserting` has two qubits, two Paulis and two gates or measurements, so that constraints on one and on both
replace each other, lose one of their qubits, and are measured in part, as a whole and again.

`AnswersAreAsserted` says which answers are right where the code's comments and the code agree. The measurement of all that
an assertion is about is answered from it until one of its qubits is touched, measured, released or asserted
about again. After a measurement it may answer or not: the comment at QubitConstraint.cs:35 says that the constraint is gone, the
code keeps it. An answer to any measurement, of some qubits or all, comes from one assertion of every measured qubit with
the Pauli that is measured. It says nothing of whether that assertion is about other qubits too, where the comment at
QCTraceSimulatorCore.cs:287 claims more than the code does. Section 5 has the runs that show both differences.
 `MaxQubits` bounds wires, not qubits at a time. Times are small integers; in
the code they are doubles that gate times add up to, and `Subtract` throws when they are not exact.

`SR_slots`: two creations per thread make slots empty between occupied ones; with three threads
the vector grows from one slot to three.

`QA_share`: ranges have the step -1 only, so a slice is a reversed window, a slice of a slice a forward one, and
one of a single element is a copy; other steps are left to the proof. Two elements give windows that end before
their inner array does and in-place extension; a third array watches the other two. `Capacity`
stands for the range of an Int32: `Add` throws beyond it. `Capacity` and `MaxLength` are equal, which makes it do so for every
two arrays that are too long together. `MaxReferences` bounds how far counts are followed:
beyond three references the code does not tell counts apart. `View` forgets the names of inner
arrays and cells no array sees; arrays and nonzero elements are symmetric.

`WF_order`: `MAX_PENDING_GATES` is scaled from 999 to 3 and `MaxFusedDepth` from 999 to 2, so that
both limits are reached; four gates on three qubits contain every shape the clustering tells
apart (a cluster that joins, one that is blocked on either side, one skipped over).
`KernelsSuffice` assumes that no cluster is wider than the widest kernel (section 5 is about the
others), and then controls and targets behave alike, which `View` uses. `Forget` drops histories when
everything has been applied; `ProgramOrder` compares them in the state before.

`CJ_shared`: two cancellations and a refresh give the stale answers that overwrite a final status.

`SS_defer`: two qubits are what a gate with one control needs, and every two-qubit gate is tried on
every combination of what waits on both in which at most one of them has a rotation waiting (`MaxRotating`); rotations
that wait on both are not reached. Assertions and Pauli measurements also list qubits with PauliI. `View` identifies lists of operations with the same effect on the stored state, qubits are
symmetric. `GatesAreTheGates` compares the gates with their textbook conjugation rules.

**Deadlock** is checked except where everything may stop: `QM_modes`, `SR_slots` and `TS_trace` when the bounds
are used up, `CJ_shared` when all tasks have ended, `SS_cnot` and `SS_measure` like `SS_defer` after a failed assertion
with nothing left to do.

**Fairness** is assumed in `CloudJob` only, where it is what the scheduler and the service give:
continuations and timers run, a request is answered unless it fails, and the service finishes a
job that it executes. Nothing forces a failure, a cancellation or the token. The other models
are of code that runs when called, and their properties are safety properties.

## 4. Proofs

Each theorem is about the specification that the runs check, for every value of the constants that
the module's `ConstantsAssumption` admits: any capacity, any number of threads or tasks, and any value of the
bounds that keep the runs finite. What a theorem assumes beyond that is in its statement.

| Module | Theorem | States | Assuming |
|---|---|---|---|
| `QubitManagerProofs` | `Invariance` | the inductive invariant `IInv` | |
| | `OwnershipIsExclusive` | `ExclusiveOwnership` | |
| | `ReferenceCountsAreExact` | `RefCountExact` | |
| | `LocalsAreExact` | `LocalsExact` | |
| | `FreeListIsExact` | `FreeListExact` | |
| | `DisabledStaysDisabled` | `DisabledForever` | |
| | `TypeCorrect` | `TypeOK` | |
| | `CountersAreExact` | `CountersExact` | |
| | `LoansAreOfIdleQubits` | `BorrowedAreIdle` | |
| | `BorrowFindsItsQuota` | `BorrowNeverRunsShort` | |
| | `ThrowsTakeNothing` | `ThrowsAreClean` | |
| | `ManagerIsPool` | `ImplementsPool`: the refinement of `QubitPool` | |
| | `NativeManagerIsManager` | `NativeSpec => Spec` | |
| | `IdsNameNativeQubits` | `NativePaired` | `EncourageReuse` |
| `QubitManagerRestrictedReuseProofs` | `PlacesAreKept` | the inductive invariant `RInv` | `NoneToTheBack` |
| | `FreeQubitsAreOnOneList` | `ListsPartitionFree` | `NoneToTheBack` |
| | `TypesAreKept` | `TypeOK` | `NoneToTheBack` |
| | `TakenQubitsAreCounted` | `HeldIsCounted` | `NoneToTheBack` |
| | `ReuseFollowsTheAreas` | `ReuseIsRestricted` | `NoneToTheBack` |
| | `ShortagesAreReal` | `NoFalseShortage` | `NoneToTheBack` |
| | `DiscardedIdsAreNotReused` | `NeverReused` | `NoneToTheBack` |
| `SimulatorRegistryProofs` | `SimulatorIdsAreExclusive` | `IdsAreExclusive` | |
| | `DestroyedSlotsAreRecycled` | `SlotsAreRecycled` | |
| | `CallsArriveUnlessVectorGrows` | `CallsReachTheirSimulator` | no more threads than the vector has capacity for |
| `WavefunctionProofs` | `ClustersKeepOrder` | what `MakeClusters` returns keeps every qubit's gates in order | |
| | `TypesAreRight` | `TypeOK` | |
| | `PositionsAreRight` | `PositionsFollowQubits` | |
| | `ProgramOrderIsKept` | `ProgramOrder` | `FuseSpans \subseteq 1 .. MaxKernelSpan` |
| `QArrayProofs` | `HeapIsSound` | the inductive invariant `Inv` | `MinIndex \in Nat`, `~SelfUpdates` |
| | `WindowsFit` | `TypeOK` | the same |
| | `ArraysAreValues` | `ValueSemantics` | the same |
| | `ReferencesAreCounted` | `ReferencesCounted` | the same |
| `QCTraceSimulatorProofs` | `TracerInvariance` | the inductive invariant `Inv` | |
| | `TypesAreRight` | `TypeOK` | |
| | `WidthsCoverCalls` | `WidthCoversNesting` | |
| | `OutcomesFollow` | `AnswersAreAsserted` | |
| | `LanesAreKept` | the inductive invariant `LaneInv` | |
| | `PoolsDescribeLanes` | `PoolsMatchLanes` | |
| | `PathsAreKept` | the inductive invariant `PathInv` | |
| | `DepthsAreCriticalPaths` | `DepthIsCriticalPath` | |
| `QCTraceScheduleProofs` | `SchedulesAreKept` | the inductive invariant `ScheduleInv` | |
| | `ReuseCanBeScheduled` | `ReuseIsSchedulable` | |
| `CloudJobProofs` | `WaitOutlastsTheJob` | `WaitOutlastsJob` | |

The assumptions are about how the code is used, and none can be dropped. `EncourageReuse`: the managers of the native
simulators are constructed with it, and without it ids do not come in the order in which the
native library numbers its qubits. `NoneToTheBack`: no configuration has both a fixed capacity and
reuse discouraged; with both, the code's last pointer goes stale (`RR_fifo`, section 5) and lists lose
qubits. The third is what `SR_race` violates. The last: the wave function sets spans of 2 and 4 itself, and the widest kernel takes
7 qubits; the environment may ask for more, and then clusters are dropped (section 5). The two about arrays leave out
the calls that the code gets wrong (section 5): a negative index loses a reference or is taken for
another element, and a range update of an array from itself reads what it has just written. `QA_share` runs
under both.

**Qubit manager.** None of the properties is inductive alone. That ownership is exclusive
needs the head of the free list to be free, so it needs the list; that a release hits
no borrower needs the counts; that the counts are exact needs that a borrower did not hold the
qubit yet, and that needs the loop's stack of qubits in use. `IInv` is the conjunction of

- `PoolInv`: some sequence of free ids is linked from `free` to `None`, with the tail where
  `Release` relies on it, and every marker is a marker;
- `Typing`: frames and the call in progress have their types;
- `OwnInv`: at most one owner, and the marker `Allocated` exactly where there is one that has not disabled;
- `LoanInv`: a marker counts frames, abandoned frames and the call in progress that have the qubit on loan;
- `FrameInv`: arguments come from callers; what is lent to a frame is owned, if at all, by a
  caller;
- `LocalsExact`: a frame's locals are what it holds (`QubitsInUse` is computed from the locals, so
  "not in use" means "not held" only by this);
- `CallInv`: what a loop has taken is new to its frame, and the ids it must skip are still ahead of it.

The argument uses `Mark(id)`, the marker minus the capacity: growth leaves it alone, and each
action has a lemma (`...Effect`) that says what it does to one id's `Mark` and to the fields of
the top frame. After these lemmas no proof opens the linked list or the array again. Each
conjunct then has one lemma per group of actions. The second part of `QubitManagerProofs` adds to `IInv`, each for one theorem
so that the other proofs do not carry it: `TypeInv` (the history variables' types), the cardinalities that the counters
stand for (an action that changes one `Mark` changes one cardinality by one), what the search of `Borrow` has still ahead of it when the
quota is not met, and what a loop in progress has changed since it began. For the refinement, every `...Effect` lemma
is a step of the pool under the mapping, or a stutter: growth, frames and loop bookkeeping are invisible
in the pool since `Mark` is.

**Native simulator.** Every step is a step of the manager, so all of the above holds of it. The pairing of ids
and native qubits needs in addition that ids without a native qubit are exactly the free ones and that
the ids that were never used are the highest, at the end of the free list: this is what makes the library's next id the manager's.

**Restricted reuse.** `RInv` says that there is a `place` for every id: `i` on the list of what area `i` allows, `-i` on the
list of what it prohibits, 0 on none. The lists it describes are sequences of distinct ids (`ListAs`), so every list operation has a
lemma about the set on the list and what it leaves alone (`MoveMeaning`, `TakeMeaning`, `AddMeaning`, `NewMeaning`), and every
action a lemma that says how `place` changes (`Prohibited`, `Returned`, `Released`, `Larger`). `HistoryOf` ties the place to
the history: what area `i` allows was released in the segments that run, what it prohibits was
released in an earlier segment of it. From this `Permitted` is "the place is positive", in both directions, and reuse
and shortage follow. `WalkMeaning` shows that following the array from the first element meets just the set on the list, so
that the theorem is about `Elements` and `Walk`, which TLC evaluates.

**Registry.** `RInv` adds to the property who holds the lock, that the slot chosen under it is empty, and that
every simulator sits in one slot. For the calls, `CallInv` adds that the buffer never moves while there is capacity.

**Wave function.** `Inv` says that `qubitmap` and the owners of the positions are inverse to each other
(`Consistent`) and that what waits acts on allocated qubits; `Ordered` that for every qubit the gates in its
history and those that wait for it make up, in order, what the program called on it. Releasing, allocating and
injecting are lemmas about `Consistent` alone. Of the clustering everything rests on one lemma about one step
of a pass (`MergeKeepsOrder`): a cluster that moves to the front has no qubit in common with the ones it
overtakes, since what they may share with the current cluster is excluded by `Reachable` and the rest by the
last conjunct of `Compatible`; so the gates `On` each qubit are, over the whole list, the same sequence as
before. `PassKeepsOrder`, `ClustersKeepOrder` and `AppliedKeepsOrder` carry this to a pass, to all passes and
to what a flush applies, for queues of any length. With it goes that a cluster fits its pass's width, so that
a kernel exists. `Ordered` then survives a flush in every action, whatever span it takes.

The lists, passes and widths are unbounded, so this needs induction. The library's induction theorems take an
operator as a parameter, which the installed provers cannot instantiate; that the naturals are well-founded
(`NatLessThanWellFounded`, `WFMin`) is about sets only, and `NaturalInduction` and `SequenceInduction` follow
from it: a set with the empty sequence and every `Append` to one of its members has all sequences. `Pass` and
`MakeClusters` are written as recursive functions, which the provers can open, and `FlattenSeq` of the
community modules is characterised by its own recursive function.

**Arrays.** `ValueSemantics` is not inductive alone: that a write in place is seen by one array only needs the
reference counts, that an extension in place is seen by none needs that windows end within their storage, and that the
counts never lag behind needs the order in which every operation takes and gives references. `Inv` is the sound heap
(windows fit, no inner array has more pointers than it counts) and that what the arrays read is the history `value`.
What an array reads depends only on its window and the storage under it, so the proof has one lemma for every kind of heap
change: a new inner array, one more pointer, other contents under all windows. `PointerCounts` and its relatives say what each does
to the cardinality of the pointers. An array that writes is the only one with its inner array, because
either it counts one reference and somebody points there already, or it has just made the copy. `Add` in
place needs that no window of the same inner array reaches the cells that are new (`ExtendedStorage`), which `Fits` gives for steps of either sign and
any stride. `RangeIsWritten` is by induction over the number of elements written (sets again, see below); each element is the single
write, with the index of the range's progression, and no index occurs twice.

**Tracer.** The listeners are right only as long as the program's stack is: an id may be in the blocks of several
open operations, allocated in the first and borrowed in the others, and every one of them has its own object for it. The code
tells objects apart; the model numbers them by counting those of the id that are live, so that a new object is new only
if the numbers have no gaps (`NoGaps`). They have none since the live objects above one are in blocks further up the
stack (`AboveIsOpen`), which end first; a failure breaks this, and then no block is opened until everything has
ended. `StackInv` has this, that blocks share ids only as borrowing allows, and that arguments come from
callers' blocks. Opening a block and ending one are two relations between stacks (`Grows` and `Shrinks`); every conjunct has one lemma for each,
and the five actions on blocks and calls are instances of them.

- Widths: every recorded call's peak is the maximum of some record from its own upwards, and no record from there on has
  more (`WidthInv`): a record that ends hands its maximum to its caller's.
- Outcomes: a qubit has a constraint just when the fact of it still says something of that qubit, so the facts can be
  read off the constraints and back (`FactInv`), and its position in it is its own (`ConstraintInv`). An answer thus has its fact
  (`AnswersHaveFacts`), and a fact that concerns a measurement gives the answer to it (`FactsAnswer`), since its qubits have no other constraint.
- Lanes: `LaneInv` says that the pools are the two functions from lanes to the start of the first and
  the end of the last qubit, turned around (`PoolOf`): every lane once in the list of its time. Of a pool there are three lemmas (`PoolAdd`, `PoolTake`,
  `PoolMove`), of a lane three (new, extended at its end, at its beginning), and a release is an induction over
  the qubits that it places, whatever their order (`PlacedKeepsLayout`).
- Depths: `PathInv` says that there is a time `E` for every gate which is its own time after the latest of the gates right
  before it (`IsEnd`), that the last gate of a wire ends when its qubits are available (`TimesAreEnds`), and that there is a
  rank `r` below the number of gates which grows along every wire (`IsRank`). A new gate is the last on all its
  wires, so nothing about the others changes (`EndOfNewGate`, `RankOfNewGate`). With such a rank, as many
  rounds of `EarliestEnd` as there are gates reach `E` (`EarliestIsEnd`). For calls, every gate since a call began is kept
  either by a record from that call's upwards or by the time of a qubit that is in the scope of the call:
  its arguments, what it allocated or borrowed, and what its calls did (`CallsCover`). Closing a block moves a gate from the
  second to the first, and a call that ends hands its record to its caller's. The hard steps are those where a scope
  loses qubits; an exception loses them without a record, so that nothing is said of calls while it is on its way.
- Reuse: lanes of released qubits and wires together must be an order, and no longer than the reported depth. A longest path through
  both is no induction, since a lane may get a qubit in front of others. `ScheduleInv` says instead that there is a schedule `P`
  with a position for every gate: a time as the code has it (depth and zero-time gates), a place among gates of
  that time, and the depth when it ends. Along a wire positions rise (`Rises`), the gates of a qubit lie within its
  busy time (`FillsTime`), and so do those of every qubit on a lane (`SlotFits`), so that the code's comparison of busy times is all
  that a release needs (`FollowsAcross`, `PutsOn`). A qubit whose gates all had no partner may still move: its gates have the
  time zero and increasing places (`Waits`). Its first gate with a partner moves them together to the start
  that the code computes with `Subtract` (`MovedFits`). What is on lanes has had its time fixed and does not move again. A
  schedule gives the order a rank (`ScheduleRanks`) and bounds its longest path (`EarliestIsBounded`), and each of its ends is kept by a qubit,
  a lane or the record of a call (`Kept`, `DepthMeaning`).

**Job client.** The invariant adds `NoneAhead`: no answer under way and no stored copy says that the job is
final unless it is final at the service, whatever order the answers are stored in.

Only model-checked: everything of `SparseSimulator`, and `ManagerExact` and `NeverReused` of
`MCQubitManagerModes`, where the mode is chosen at the start: what
`ManagerExact` says of each mode is an instance of `FreeListIsExact`, `OwnershipIsExclusive`,
`ReferenceCountsAreExact` and `IdsNameNativeQubits`. The sparse simulator's properties compare stabilizer
groups, of which only the instance's two qubits are in reach: for any number the proof would first need the
algebra of signed Pauli operators. Out of the prover's reach altogether: liveness under fairness and `ENABLED` (`WaitTerminates`).

## 5. Where the code falls short

Runs that end in a counterexample:

- **`QM_leak`**. The single-qubit `Borrow()` falls back on `Allocate()`, which marks the
  qubit as an ordinary allocation; `Return` therefore never releases it
  (QubitManager.cs:645 against the comment at :654).
- **`SS_cnot`**. `MCX` sees an H waiting on control and target and executes neither; an Ry
  waiting on the target then executes the target's H alone, and the CNOT is queued under the H of the control
  (SparseSimulator.h:208 against the comment at :203). H(c), H(t), Ry(t), CNOT(c, t) end in a wrong state.
- **`SS_measure`**. `Measure` along Y of a qubit that nothing has touched leaves it in an eigenstate of Y
  and marked unoccupied, so `M` answers Zero without looking (SparseSimulator.h:650 against :736).

Other observations, each with how to see it:

- `Borrow(n)` that throws gives back the qubits that it allocated, and does not lower the reference counts that it
  raised (QubitManager.cs:601): such a qubit is not released when its last borrower returns it. `QM_throw.cfg` on
  `QubitManager` violates `LoansAreReturnable`. `ThrowsAreClean` is about ids and `RefCountExact` counts these
  loans as outstanding (`lost`), so both hold.
- Restricted reuse, adding at the tail (fixed capacity, reuse discouraged): `AddQubit`
  leaves `LastElement` where it was, so the second addition overwrites the first
  (QubitManagerRestrictedReuse.cs:89). `RR_fifo.cfg` on `MCQubitManagerRestrictedReuse`
  violates `LastElementIsLast`, a conjunct of `ListsPartitionFree`. The tracer lets the manager grow, so it never appends.
- Registry: a thread that follows its reference after another's `create` moved the vector
  reads freed memory (factory.cpp:100). `SR_race.cfg` on `MCSimulatorRegistry` violates
  `CallsReachTheirSimulator`.
- Arrays: `Modify` with a negative index on a window that starts after cell 0 writes a cell before
  the window, instead of throwing (QArray.cs:325). `QA_negative.cfg` on `MCQArray` violates `OutOfBoundsThrows`.
- Arrays: a range update that takes its values from the array it updates reads what it has
  already written (QArray.cs:357). `SelfUpdates = TRUE` in `QA_share.cfg` violates `ValueSemantics`.
- Arrays: the step of a slice of a slice is a 64-bit product, an inner array has 32-bit indices
  (QArray.cs:440): adding to a window with a step near 2^31 asks for an inner array that cannot be,
  for an array of a few elements. Not run; `AddFits` makes such an `Add` throw.
- Arrays: `SetElement` takes a reference off before the write that may throw, and then the copy is
  lost and the count is one too low (QArray.cs:118). Only an index below zero gets that far: `QA_lost.cfg` on `MCQArray`
  allows it and violates `ReferencesCounted`, which holds in `QA_share` and in the theorems without such indices.
- Wave function: the environment may set a fuse span wider than the widest kernel (7); a cluster
  of that width is dropped (fused.hpp:187). `Wavefunction` with `WF_order.cfg`, without its `VIEW`
  and with `MaxKernelSpan = 2`, violates `ProgramOrder`.
- Wave function: `reset()` leaves pending gates behind (wavefunction.hpp:398). Nothing calls it.
- Sparse simulator: the adjoint AND marks its target unoccupied with an H still waiting on it; a
  later X is queued as a Z, which marks nothing, and `M` answers Zero (SparseSimulator.h:239).
  `Patterns = {"UncomputeUnderH"}` in `SS_defer.cfg` violates `UnoccupiedIsZero`.
- Tracer: `Measure` compares the constraint of the qubits that are measured with what is measured, and
  not the other way round: with Z Z = 0 asserted of two qubits, a measurement of Z on the first alone answers 0.
  The comment at QCTraceSimulatorCore.cs:287 says that it "makes sure that constrain's observable matches
  observable being measured". `TS_partial.cfg` on `MCQCTraceSimulator` violates `MeasuresWhatWasAsserted`.
- Tracer: a measurement leaves the constraints of its qubits (QCTraceSimulatorImpl.cs:274), where
  QubitConstraint.cs:35 says that "some unitary or measurement" invalidates them. It is what lets an asserted
  outcome be measured twice, but measuring X after asserting Z keeps the assertion about Z. `TS_remeasure.cfg` on
  `MCQCTraceSimulator` violates `MeasurementsInvalidate`.
- Tracer: `ForceMeasure` drops PauliI from the observable and not its qubits from the list
  (QCTraceSimulatorCore.cs:352), so positions are shifted, or lie outside of the observable.
- Tracer: a borrowed qubit is a new object, so its constraint says that it is in |0>, whatever its owner did.
- Depth: for the same reason, with `OptimizeDepth` the gates on a lent qubit are not ordered after those
  of its owner. Qubits that `Borrow` had to allocate are given no lane and, without `OptimizeDepth`, are not
  counted: `OnBorrow` is empty and `OnReturn` places nothing (DepthCounter.cs:111, :318).
- Listeners: `DistinctInputsChecker` and `InvalidatedQubitsUseChecker` throw from within an event. Listeners
  after them in the list miss a start or an end, and their stacks no longer match the program's: the next end
  pops another call's record, the last one the root (the assertion at DepthCounter.cs:123).
- Common native simulator: a qubit that was allocated for borrowing and disabled keeps its native
  qubit for good, since `Return` releases only what is still marked as allocated for borrowing
  (QubitManager.cs:667); `NativePaired` allows it.
- Cloud job: only the first request of `WaitForCompletion` takes the cancellation token
  (`TokenStops`), and a stale answer can put a finished job's copy back in progress until the next poll.

## 6. Not modelled

- Amplitudes, kernels, random numbers and probabilities of the native simulators, and all of the open
  systems simulator: numerical. Non-Clifford gates and more than one control in the sparse simulator, the
  growth of its label type.
- `Wavefunction::reset`, `ModifyRange` with negative indices, enumeration and conversion of arrays.
- The array overloads of `Release`, `Disable` and `Return`: repetitions of the single-qubit methods.
- Functors, partial application, generics, and the stack trace of exceptions; submission of jobs, storage and
  authentication; option parsing of the entry point driver; QIR tools. They keep no state that
  several steps share, or only pass calls on.
- Gates and measurements of the common native simulator (a check and one call each), its dumps. Of the tracer: the
  decomposition of gates into primitive operations, `GateCounter`, the checkers that throw, the
  statistics over samples, and floating-point times.
- Most of the C++ in the repository: two copies each of a test framework (`catch.hpp`) and an option parser
  (`CLI11.hpp`), `SafeInt.hpp`, headers of an OpenMP library, tests, and generated kernels. They are most of the lines
  that the map leaves out; of the native code that keeps state, `wavefunction.hpp`, `SparseSimulator.h`,
  `quantum_state.hpp`, the two `capi.cpp` and the registries are mapped. `simulator.hpp` is a lock around a call of `Wavefunction`
  for every gate. Its `release` is modelled; its joint measurements queue basis-changing gates before a flush and
  undo them after it, a sequence of gates and measurements that `Wavefunction` already allows one by one; `qir.cpp` converts arguments and calls the C API.

## 7. Plan

1. *Done*: qubit manager with proofs, restricted reuse, registry, arrays, wave function, jobs, sparse simulator.
2. *Done*: the native simulators' qubit manager over `QubitManager` (`CommonNativeSimulator`).
3. *Done*: trace simulator, depth, width, and measurement constraints (`QCTraceSimulator`).
4. Operation calls: `Apply`, the fail event and the stack trace that is built while the exception
   passes frames; submission of a job in `Workspace`.
5. *Done*: proofs about the qubit manager and the pool it implements, the native manager, restricted reuse,
   the registry, the arrays, the wave function, the tracer and the job client.
6. Proofs still to do: the sparse simulator, which first needs the algebra of signed Pauli
   operators.
