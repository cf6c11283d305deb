------------------------- MODULE SimulatorRegistry -------------------------
(***************************************************************************)
(* The vector of native simulators that the C API looks ids up in:         *)
(* src/Simulation/Native/src/simulator/factory.cpp, and the same code in   *)
(* src/Simulation/NativeSparseSimulator/factory.cpp.                       *)
(*                                                                         *)
(* Host threads create simulators, call them and destroy them, each its    *)
(* own (QuantumSimulator's constructor, NativeWrappers and Dispose).       *)
(* create and destroy hold the mutex exclusively.  get holds it shared,    *)
(* but only while it computes a reference to a slot of the vector; the     *)
(* caller reads the slot afterwards.                                       *)
(*                                                                         *)
(* Definitions named X_Bug are X with a mistake, for the mutation runs.    *)
(***************************************************************************)
EXTENDS Integers, Sequences, FiniteSets

CONSTANTS
    Threads,
    Warm,       \* empty slots left by simulators destroyed before the threads start
    MaxCreated, \* bound: simulators a thread creates
    Nobody,     \* no simulator, no owner of the mutex
    Garbage     \* what a read of freed memory may return

ASSUME ConstantsAssumption ==
    /\ IsFiniteSet(Threads)
    /\ Warm \in Nat /\ MaxCreated \in Nat
    /\ Nobody \notin Threads /\ Nobody # Garbage
    /\ \A t \in Threads, n \in 1 .. MaxCreated : <<t, n>> # Nobody   \* see SimulatorOf

VARIABLES
    psis,       \* the vector: a simulator or Nobody per slot
    capacity,   \* slots its buffer has room for
    buffer,     \* which buffer it is: a push_back beyond the capacity moves it
    mutex,      \* the thread that holds it exclusively
    pc,         \* what each thread is doing
    slot,       \* the slot a thread chose, or the id of its simulator
    created,    \* simulators a thread has created so far
    ref,        \* the reference get returned
    reached     \* the simulator the thread's call runs on

vars == <<psis, capacity, buffer, mutex, pc, slot, created, ref, reached>>

\* Simulators are named by their creator and a number.
SimulatorOf(t) == <<t, created[t]>>

Init ==
    /\ psis = [i \in 1 .. Warm |-> Nobody]
    /\ capacity = Warm /\ buffer = 0
    /\ mutex = Nobody
    /\ pc = [t \in Threads |-> "none"]
    /\ slot = [t \in Threads |-> 0] /\ created = [t \in Threads |-> 0]
    /\ ref = [t \in Threads |-> [buffer |-> 0, slot |-> 0]]
    /\ reached = [t \in Threads |-> Nobody]

EmptySlots == {i \in 1 .. Len(psis) : psis[i] = Nobody}

EmptySlot_Appends == Len(psis) + 1

\* The first empty slot, or one more than there are.
EmptySlot == CHOOSE i \in EmptySlots \cup {Len(psis) + 1} :
                \A j \in EmptySlots \cup {Len(psis) + 1} : i <= j

CreateBegins_Unlocked(t) ==
    /\ pc[t] = "none" /\ created[t] < MaxCreated
    /\ mutex = Nobody
    /\ slot' = [slot EXCEPT ![t] = EmptySlot]
    /\ created' = [created EXCEPT ![t] = @ + 1]
    /\ pc' = [pc EXCEPT ![t] = "creating"]
    /\ UNCHANGED <<psis, capacity, buffer, mutex, ref, reached>>

\* create(): lock, look for a slot, and construct the simulator, which takes a while.
CreateBegins(t) ==
    /\ pc[t] = "none" /\ created[t] < MaxCreated
    /\ mutex = Nobody
    /\ mutex' = t
    /\ slot' = [slot EXCEPT ![t] = EmptySlot]
    /\ created' = [created EXCEPT ![t] = @ + 1]
    /\ pc' = [pc EXCEPT ![t] = "creating"]
    /\ UNCHANGED <<psis, capacity, buffer, ref, reached>>

\* Put it in its slot, moving the vector if there is no room, and unlock.
CreateEnds(t) ==
    /\ pc[t] = "creating"
    /\ IF slot[t] <= Len(psis)
       THEN /\ psis' = [psis EXCEPT ![slot[t]] = SimulatorOf(t)]
            /\ UNCHANGED <<capacity, buffer>>
       ELSE /\ psis' = Append(psis, SimulatorOf(t))
            /\ IF Len(psis) < capacity THEN UNCHANGED <<capacity, buffer>>
               ELSE /\ capacity' = IF capacity = 0 THEN 1 ELSE 2 * capacity
                    /\ buffer' = buffer + 1
    /\ mutex' = Nobody
    /\ pc' = [pc EXCEPT ![t] = "ready"]
    /\ UNCHANGED <<slot, created, ref, reached>>

\* destroy(id): the slot stays, empty.
Destroy(t) ==
    /\ pc[t] = "ready"
    /\ mutex = Nobody
    /\ psis' = [psis EXCEPT ![slot[t]] = Nobody]
    /\ pc' = [pc EXCEPT ![t] = "none"]
    /\ UNCHANGED <<capacity, buffer, mutex, slot, created, ref, reached>>

\* get(id): a reference to the slot, by address.
Get(t) ==
    /\ pc[t] = "ready"
    /\ mutex = Nobody
    /\ ref' = [ref EXCEPT ![t] = [buffer |-> buffer, slot |-> slot[t]]]
    /\ pc' = [pc EXCEPT ![t] = "got"]
    /\ UNCHANGED <<psis, capacity, buffer, mutex, slot, created, reached>>

\* The caller follows the reference without the mutex.  If the vector has moved it
\* reads a moved-from pointer or freed memory: any outcome.
CallBegins(t) ==
    /\ pc[t] = "got"
    /\ \E simulator \in IF ref[t].buffer = buffer THEN {psis[ref[t].slot]}
                        ELSE {Nobody, Garbage, SimulatorOf(t)} :
            reached' = [reached EXCEPT ![t] = simulator]
    /\ pc' = [pc EXCEPT ![t] = "calling"]
    /\ UNCHANGED <<psis, capacity, buffer, mutex, slot, created, ref>>

CallEnds(t) ==
    /\ pc[t] = "calling"
    /\ reached' = [reached EXCEPT ![t] = Nobody]
    /\ pc' = [pc EXCEPT ![t] = "ready"]
    /\ UNCHANGED <<psis, capacity, buffer, mutex, slot, created, ref>>

Next == \E t \in Threads : \/ CreateBegins(t) \/ CreateEnds(t) \/ Destroy(t)
                           \/ Get(t) \/ CallBegins(t) \/ CallEnds(t)

Spec == Init /\ [][Next]_vars

-----------------------------------------------------------------------------
(* Properties                                                               *)

Holding(t) == pc[t] \in {"ready", "got", "calling"}

\* An id names one simulator from create to destroy, whatever other threads create
\* and destroy meanwhile: no two threads hold the same slot, and none loses its own
\* (factory.cpp:62-94).
IdsAreExclusive ==
    /\ \A t \in Threads : Holding(t) => psis[slot[t]] = SimulatorOf(t)
    /\ \A t, u \in Threads : Holding(t) /\ Holding(u) /\ slot[t] = slot[u] => t = u

\* "Ensures exclusive access to _simulators, the vector of simulators"
\* (NativeSparseSimulator/factory.cpp:16): a call runs on the simulator whose id it
\* was given.
CallsReachTheirSimulator ==
    \A t \in Threads : pc[t] = "calling" => reached[t] = SimulatorOf(t)

\* A destroyed simulator's slot is used again before the vector grows: the vector
\* never has more slots than there were simulators at one time.
SlotsAreRecycled ==
    Len(psis) <= IF Warm > Cardinality(Threads) THEN Warm ELSE Cardinality(Threads)
=============================================================================
