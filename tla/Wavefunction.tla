---------------------------- MODULE Wavefunction ----------------------------
(***************************************************************************)
(* The state vector of the native full-state simulator:                    *)
(* src/Simulation/Native/src/simulator/wavefunction.hpp.                   *)
(*                                                                         *)
(* Gates are not applied when they are called.  They wait in               *)
(* pending_gates_, and a flush groups them into clusters, in an order of   *)
(* its own, fuses each cluster into one matrix and applies that.  A qubit  *)
(* is a position in the vector; releasing a qubit shifts the positions     *)
(* behind it, and injecting a state permutes them.                         *)
(*                                                                         *)
(* Amplitudes are left out.  A position carries the qubit it really        *)
(* belongs to and the numbers of the gates it has gone through.  Two       *)
(* orders of the same gates are equivalent when every qubit goes through   *)
(* its gates in the same order: gates that share no qubit commute.         *)
(*                                                                         *)
(* Definitions named X_Bug are X with a mistake, for the mutation runs.    *)
(***************************************************************************)
EXTENDS Integers, Sequences, FiniteSets, SequencesExt

CONSTANTS
    Invalid,            \* invalid_qubit_position()
    MAX_PENDING_GATES,
    FuseSpans,          \* values of Fused::maxSpan(): it changes with the vector's size
    MaxFusedDepth,      \* Fused::maxDepth()
    MaxKernelSpan,      \* qubits of the widest kernel: 7
    MaxQubits,          \* bound: qubits allocated
    MaxGates            \* bound: gates since the state was last observed

ASSUME ConstantsAssumption ==
    /\ Invalid \notin Nat
    /\ MAX_PENDING_GATES \in Nat /\ FuseSpans \subseteq Nat \ {0} /\ FuseSpans # {}
    /\ MaxFusedDepth \in Nat /\ MaxKernelSpan \in Nat
    /\ MaxQubits \in Nat /\ MaxGates \in Nat

VARIABLES
    usage_,         \* who chooses the logical ids: the caller, the wave function, or neither yet
    qubitmap,       \* positional id of each logical id, or Invalid
    wfn,            \* per position: its qubit and the gates it went through
    pending_gates,  \* gates not yet applied
    issued          \* per logical id: the gates the program called on it

vars == <<usage_, qubitmap, wfn, pending_gates, issued>>

LogicalIds == 0 .. Len(qubitmap) - 1
Position(q) == qubitmap[q + 1]
Allocated == {q \in LogicalIds : Position(q) # Invalid}

Qids(gate) == gate.controls \cup {gate.target}
ClusterQids(cluster) == UNION {Qids(cluster[i]) : i \in DOMAIN cluster}

-----------------------------------------------------------------------------
(* Clusters: sequences of gates.                                            *)

\* Clusters before the i-th of the list do not share a qubit with this one.
Reachable(cluster, next, i) ==
    \A j \in 1 .. i - 1 : ClusterQids(next[j]) \cap ClusterQids(cluster) = {}

Fits(cluster, next, i, width) ==
    Cardinality(ClusterQids(cluster) \cup ClusterQids(next[i])) <= width

Compatible_IgnoresSkipped(cluster, next, width) ==
    {i \in DOMAIN next : Reachable(cluster, next, i) /\ Fits(cluster, next, i, width)}

\* Clusters that can move in front of those before them and join this one.
Compatible(cluster, next, width) ==
    {i \in DOMAIN next :
        /\ Reachable(cluster, next, i) /\ Fits(cluster, next, i, width)
        /\ \A j \in 1 .. i - 1 :
            (ClusterQids(next[i]) \ ClusterQids(cluster)) \cap ClusterQids(next[j]) = {}}

\* One step of a pass: the current cluster takes in the first compatible one, or is
\* put away and the next one becomes current.
Merge(pass, width) ==
    LET found == Compatible(pass.current, pass.next, width)
        first == CHOOSE i \in found : \A j \in found : i <= j
    IN  IF found = {} \/ Len(pass.current) >= MaxFusedDepth
        THEN [current |-> Head(pass.next), next |-> Tail(pass.next),
              done |-> Append(pass.done, pass.current)]
        ELSE [pass EXCEPT !.current = @ \o pass.next[first],
                          !.next = RemoveAt(pass.next, first)]

\* A pass over the clusters; each step takes one of them off the list.
Pass(clusters, width) ==
    LET after[n \in 0 .. Len(clusters) - 1] ==
            IF n = 0 THEN [current |-> Head(clusters), next |-> Tail(clusters), done |-> <<>>]
            ELSE Merge(after[n - 1], width)
        end == after[Len(clusters) - 1]
    IN  Append(end.done, end.current)

\* make_clusters: passes of growing width over clusters of one gate each.
MakeClusters(gates, span) ==
    LET after[width \in 0 .. span] ==
            IF width = 0 THEN [i \in DOMAIN gates |-> <<gates[i]>>]
            ELSE Pass(after[width - 1], width)
    IN  IF gates = <<>> THEN <<>> ELSE after[span]

-----------------------------------------------------------------------------
(* Applying gates.                                                          *)

\* Qubits of the fused matrix: controls common to all gates stay outside it.
FusedQids(cluster) ==
    ClusterQids(cluster) \ {q \in ClusterQids(cluster) :
                                \A i \in DOMAIN cluster : q \in cluster[i].controls}

\* A fused matrix for which there is no kernel is dropped.
Fused(cluster) == IF Cardinality(FusedQids(cluster)) <= MaxKernelSpan THEN cluster ELSE <<>>

\* The numbers of those gates that act on the qubit at position p - 1.
NumbersAt(gates, p) ==
    FlattenSeq([i \in DOMAIN gates |-> IF \E q \in Qids(gates[i]) : Position(q) = p - 1
                                       THEN <<gates[i].number>> ELSE <<>>])

\* flush(): the gates of the clusters, in the clusters' order.
Flushed(w, pending, span) ==
    LET clusters == MakeClusters(pending, span)
        applied == FlattenSeq([i \in DOMAIN clusters |-> Fused(clusters[i])])
    IN  [p \in DOMAIN w |-> [w[p] EXCEPT !.gates = @ \o NumbersAt(applied, p)]]

-----------------------------------------------------------------------------
(* Operations.                                                              *)

Init ==
    /\ usage_ = "any"
    /\ qubitmap = <<>> /\ wfn = <<>>
    /\ pending_gates = <<>> /\ issued = <<>>

\* Gates the program called since it last observed the state.
NumberOfGates == Cardinality((UNION {Range(issued[i]) : i \in DOMAIN issued})
                              \cup UNION {Range(wfn[p].gates) : p \in DOMAIN wfn})

UnusedIds == LogicalIds \ Allocated

Forgotten(w) == [p \in DOMAIN w |-> [w[p] EXCEPT !.gates = <<>>]]

\* What the qubits went through is forgotten whenever all of it has been applied, to
\* bound the histories: ProgramOrder has compared them in the state before.
Forget(w) == wfn' = Forgotten(w) /\ issued' = [i \in DOMAIN qubitmap' |-> <<>>]

AllocateAs(q, span) ==
    /\ Cardinality(Allocated) < MaxQubits /\ q < MaxQubits
    /\ qubitmap' = IF q < Len(qubitmap) THEN [qubitmap EXCEPT ![q + 1] = Len(wfn)]
                   ELSE Append(qubitmap, Len(wfn))
    /\ pending_gates' = <<>>
    /\ Forget(Append(Flushed(wfn, pending_gates, span), [owner |-> q, gates |-> <<>>]))

\* allocate_qubit(): the first unused id.
AllocateImplicit(q, span) ==
    /\ usage_ # "explicitLogicalId" /\ usage_' = "implicitLogicalId"
    /\ IF UnusedIds = {} THEN q = Len(qubitmap)
       ELSE q \in UnusedIds /\ \A other \in UnusedIds : q <= other
    /\ AllocateAs(q, span)

\* allocate_qubit(id): an id the caller knows is unused, the next new one at most.
AllocateExplicit(q, span) ==
    /\ usage_ # "implicitLogicalId" /\ usage_' = "explicitLogicalId"
    /\ q \in UnusedIds \cup {Len(qubitmap)}
    /\ AllocateAs(q, span)

ShiftDown_Never(i, p) == qubitmap[i]

\* Where the qubit with logical id i - 1 is once position p is gone.
ShiftDown(i, p) == IF qubitmap[i] # Invalid /\ qubitmap[i] > p THEN qubitmap[i] - 1 ELSE qubitmap[i]

Release_KeepsPending(q, span) ==
    /\ q \in Allocated
    /\ qubitmap' = [i \in DOMAIN qubitmap |-> IF i = q + 1 THEN Invalid
                                              ELSE ShiftDown(i, Position(q))]
    /\ Forget(RemoveAt(wfn, Position(q) + 1))
    /\ UNCHANGED <<usage_, pending_gates>>

\* release(q), and the simulator's release(q) around it, which measures q.
Release(q, span) ==
    /\ q \in Allocated
    /\ qubitmap' = [i \in DOMAIN qubitmap |-> IF i = q + 1 THEN Invalid
                                              ELSE ShiftDown(i, Position(q))]
    /\ pending_gates' = <<>>
    /\ Forget(RemoveAt(Flushed(wfn, pending_gates, span), Position(q) + 1))
    /\ UNCHANGED usage_

\* The program calls a gate on the qubits qids.
Issue(qids) ==
    issued' = [i \in DOMAIN issued |-> IF i - 1 \in qids THEN Append(issued[i], NumberOfGates + 1)
                                       ELSE issued[i]]

\* apply, apply_controlled: the gate waits, unless too many do.
Apply(controls, target, span) ==
    /\ NumberOfGates < MaxGates
    /\ controls \cup {target} \subseteq Allocated /\ target \notin controls
    /\ LET pending == Append(pending_gates, [controls |-> controls, target |-> target,
                                             number |-> NumberOfGates + 1])
       IN  IF Len(pending) > MAX_PENDING_GATES
           THEN wfn' = Flushed(wfn, pending, span) /\ pending_gates' = <<>>
           ELSE pending_gates' = pending /\ UNCHANGED wfn
    /\ Issue(controls \cup {target})
    /\ UNCHANGED <<usage_, qubitmap>>

\* apply_controlled_exp, permute_basis: flush, and apply to the vector at once.
ApplyNow(qids, span) ==
    /\ NumberOfGates < MaxGates
    /\ qids \subseteq Allocated
    /\ LET w == Flushed(wfn, pending_gates, span)
       IN  wfn' = [p \in DOMAIN w |-> IF \E q \in qids : Position(q) = p - 1
                    THEN [w[p] EXCEPT !.gates = Append(@, NumberOfGates + 1)] ELSE w[p]]
    /\ pending_gates' = <<>>
    /\ Issue(qids)
    /\ UNCHANGED <<usage_, qubitmap>>

\* measure, probability, isclassical, getvalue, data, ...: flush, and look.
Observe(span) ==
    /\ Allocated # {}
    /\ UNCHANGED <<usage_, qubitmap>>
    /\ pending_gates' = <<>>
    /\ Forget(Flushed(wfn, pending_gates, span))

Injected(qubits) == [p \in DOMAIN wfn |-> [owner |-> qubits[p], gates |-> <<>>]]

\* inject_state of all qubits, in |0...0>: the amplitudes come in the order of the
\* list, and so do the positions from then on.  Injecting into some of the qubits, or
\* into qubits that are not in |0>, only flushes.
InjectState(qubits) ==
    /\ qubitmap' = [i \in DOMAIN qubitmap |->
                        IF i - 1 \in Allocated THEN (CHOOSE p \in DOMAIN qubits : qubits[p] = i - 1) - 1
                        ELSE Invalid]
    /\ pending_gates' = <<>>
    /\ Forget(Injected(qubits))
    /\ UNCHANGED usage_

Next ==
    \E span \in FuseSpans :
        \/ \E q \in 0 .. MaxQubits - 1 : AllocateImplicit(q, span) \/ AllocateExplicit(q, span)
        \/ \E q \in Allocated : Release(q, span)
        \/ \E controls \in SUBSET Allocated, target \in Allocated : Apply(controls, target, span)
        \/ \E qids \in SUBSET Allocated \ {{}} : ApplyNow(qids, span)
        \/ Observe(span)
        \/ \E qubits \in SetToSeqs(Allocated) : InjectState(qubits)

Spec == Init /\ [][Next]_vars

-----------------------------------------------------------------------------
(* Properties                                                               *)

\* The positions of the allocated qubits are those of the vector, each once, and no
\* gate waits for a qubit that is gone ("assert(qubitmap_[q] != invalid_qubit_position())",
\* wavefunction.hpp:409), nor do more wait than may.
TypeOK ==
    /\ {Position(q) : q \in Allocated} = 0 .. Len(wfn) - 1
    /\ Cardinality(Allocated) = Len(wfn)
    /\ \A i \in DOMAIN pending_gates : Qids(pending_gates[i]) \subseteq Allocated
    /\ Len(pending_gates) <= MAX_PENDING_GATES

\* Whatever was released, allocated again or injected, the position a logical id maps
\* to is the one that carries that qubit's state (wavefunction.hpp:531-540, 593-603).
PositionsFollowQubits == \A p \in DOMAIN wfn : Position(wfn[p].owner) = p - 1

\* "applying these clusters in order would be equivalent to applying the original gates
\* sequence" (wavefunction.hpp:244): whenever the state is looked at, every qubit has
\* gone through the gates the program called on it, all of them and in that order.
ProgramOrder ==
    \A span \in FuseSpans :
        LET w == Flushed(wfn, pending_gates, span)
        IN  \A q \in Allocated : w[Position(q) + 1].gates = issued[q + 1]
=============================================================================
