----------------------- MODULE CommonNativeSimulator -----------------------
(***************************************************************************)
(* The qubit manager of the simulators that keep their qubits in a native  *)
(* library: QSimQubitManager of src/Simulation/Simulators/                 *)
(* CommonNativeSimulator/QubitManager.cs over QubitManager, with what      *)
(* allocate_qubit and release of Native/src/simulator/wavefunction.hpp do  *)
(* to the map from ids to positions.  Where a position is does not matter  *)
(* here (see Wavefunction), only whether an id has one.                    *)
(*                                                                         *)
(* The overridden methods call the manager first and the library second.   *)
(* A release that finds its qubit in another state than |0> throws after   *)
(* both: it is a Release or a Return followed by Fail.                     *)
(*                                                                         *)
(* Definitions named X_Bug are X with a mistake, for the mutation runs.    *)
(***************************************************************************)
EXTENDS QubitManager

VARIABLES
    qubitmap,       \* of the native simulator: whether the id has a position
    num_qubits      \* positions in the state vector

nativeVars == <<qubitmap, num_qubits>>

NativeInit == Init /\ qubitmap = <<>> /\ num_qubits = 0

\* Ids of the native simulator start at 0.
Live == {i - 1 : i \in {j \in 1 .. Len(qubitmap) : qubitmap[j]}}

\* An id beyond the map is taken for the next one.
AllocateOneNative(id) ==
    /\ qubitmap' = IF id < Len(qubitmap) THEN [qubitmap EXCEPT ![id + 1] = TRUE]
                   ELSE Append(qubitmap, TRUE)
    /\ num_qubits' = num_qubits + 1

ReleaseOneNative(id) ==
    /\ qubitmap' = [qubitmap EXCEPT ![id + 1] = FALSE]
    /\ num_qubits' = num_qubits - 1

-----------------------------------------------------------------------------
AllocateQubit(id) ==
    \/ (AllocateNext(id) \/ BorrowAllocates(id)) /\ AllocateOneNative(id)
    \/ BorrowSingle(id) /\ id \notin BusyIds /\ AllocateOneNative(id)

BorrowQubit(id) ==
    /\ BorrowNext(id) \/ (BorrowSingle(id) /\ id \in BusyIds)
    /\ UNCHANGED nativeVars

\* The native qubit of a disabled one is released all the same.
ReleaseQubit(id) == Release(id) /\ ReleaseOneNative(id)

ReturnQubit(id) ==
    /\ Return(id)
    /\ IF qubits[id] = AllocatedForBorrowing THEN ReleaseOneNative(id) ELSE UNCHANGED nativeVars

RollbackQubit_Bug == RollbackNext /\ UNCHANGED nativeVars

RollbackQubit == RollbackNext /\ ReleaseOneNative(Head(call.got))

\* What the subclass does not override.
ManagerOnly ==
    /\ \/ \E n \in 1 .. MaxRequest : BeginAllocate(n) \/ BeginBorrow(n)
       \/ \E id \in Ids : Disable(id)
       \/ AllocateFails \/ BorrowFails
       \/ \E args \in SUBSET Ids : OnOperationStart(args)
       \/ OnOperationEnd \/ Fail
    /\ UNCHANGED nativeVars

NativeNext ==
    \/ \E id \in 0 .. 2 * NumQubits :
        AllocateQubit(id) \/ BorrowQubit(id) \/ ReleaseQubit(id) \/ ReturnQubit(id)
    \/ RollbackQubit
    \/ ManagerOnly

NativeSpec == NativeInit /\ [][NativeNext]_<<vars, nativeVars>>

\* A busy id always names a native qubit of its own and a free one names none, whatever
\* failed in between: what the native simulator asserts of the ids it is given
\* (wavefunction.hpp:515, 520).  Only a disabled qubit may keep its native one.
NativePaired ==
    /\ BusyIds \subseteq Live
    /\ Live \subseteq BusyIds \cup DisabledIds
    /\ num_qubits = Cardinality(Live)
=============================================================================
