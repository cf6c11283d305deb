------------------------ MODULE MCQubitManagerModes ------------------------
(***************************************************************************)
(* The other ways to construct a qubit manager, for TLC; "policy" says     *)
(* which of them a behavior is about:                                      *)
(*   append    reuse discouraged, fixed capacity: what is released goes to *)
(*             the tail of the free list                                   *)
(*   discard   reuse discouraged, growing: what is released is gone        *)
(*   grow      of a native simulator, growing                              *)
(***************************************************************************)
EXTENDS Integers

CONSTANTS
    FixedCapacity,      \* capacity of "append"
    GrownCapacity,      \* bound: what the others grow to, from 1
    MaxRequest, MaxDepth, MaxDisabled   \* bounds: see QubitManager

VARIABLES
    policy,
    NumQubits, NumAllocatedQubits, NumDisabledQubits, qubits, free, freeTail,
    operationStack, call, orphans, strays, failures,
    qubitmap, num_qubits

Append == INSTANCE QubitManager WITH
            Capacity <- FixedCapacity, MaxCapacity <- FixedCapacity,
            MayExtendCapacity <- FALSE, EncourageReuse <- FALSE,
            DisableBorrowing <- FALSE, MaxFailures <- 0, MaxDisabled <- 0

Discard == INSTANCE QubitManager WITH
            Capacity <- 1, MaxCapacity <- GrownCapacity,
            MayExtendCapacity <- TRUE, EncourageReuse <- FALSE,
            DisableBorrowing <- FALSE, MaxFailures <- 0, MaxDisabled <- 0

Grow == INSTANCE CommonNativeSimulator WITH
            Capacity <- 1, MaxCapacity <- GrownCapacity,
            MayExtendCapacity <- TRUE, EncourageReuse <- TRUE,
            DisableBorrowing <- FALSE, MaxFailures <- 0

nativeVars == <<qubitmap, num_qubits>>
vars == <<policy, Append!vars, nativeVars>>

Init ==
    \/ policy = "append" /\ Append!Init /\ qubitmap = <<>> /\ num_qubits = 0
    \/ policy = "discard" /\ Discard!Init /\ qubitmap = <<>> /\ num_qubits = 0
    \/ policy = "grow" /\ Grow!NativeInit

Next ==
    /\ UNCHANGED policy
    /\ \/ policy = "append" /\ Append!Next /\ UNCHANGED nativeVars
       \/ policy = "discard" /\ Discard!Next /\ UNCHANGED nativeVars
       \/ policy = "grow" /\ Grow!NativeNext

Spec == Init /\ [][Next]_vars

\* What a manager of fixed capacity that reuses its qubits keeps, the others keep too: the
\* free list when qubits come back to its tail, and owners, loans and native qubits when all
\* markers change because the capacity doubles in the middle of a call
\* (QubitManager.cs:333-377, 469-487).
ManagerExact ==
    /\ policy = "append" => /\ Append!FreeListExact
                            /\ Append!ExclusiveOwnership /\ Append!RefCountExact
    /\ policy = "grow" => /\ Grow!FreeListExact
                          /\ Grow!ExclusiveOwnership /\ Grow!RefCountExact
                          /\ Grow!NativePaired

\* A manager that may grow and does not reuse never hands out an id twice: each new id
\* lies between the old and the new head of the list (QubitManager.cs:471).
NeverReused ==
    [][ policy = "discard" =>
        /\ free <= free'
        /\ Discard!BusyIds' \ Discard!BusyIds \subseteq free .. free' - 1 ]_vars
=============================================================================
