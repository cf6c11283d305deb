------------------------- MODULE MCSparseSimulator -------------------------
(***************************************************************************)
(* SparseSimulator for TLC.  The list of waiting operations is only ever   *)
(* executed as a whole and in its order, so two simulators that differ in  *)
(* how it is written, and not in what it makes of the stored state, behave *)
(* alike from then on.                                                     *)
(***************************************************************************)
EXTENDS SparseSimulator, TLC

\* The algebra, against what the gates are known to do to the Pauli operators.
Conjugates(gate, from, to) == Applied({Signed(0, from)}, gate) = {to}

ASSUME GatesAreTheGates == \A q, p \in Qubits : q # p =>
    /\ Conjugates(HGate(q), On(q, "X"), Signed(0, On(q, "Z")))
    /\ Conjugates(HGate(q), On(q, "Y"), Signed(1, On(q, "Y")))
    /\ Conjugates(Rotation(q, "Z", 1), On(q, "X"), Signed(0, On(q, "Y")))
    /\ Conjugates(Rotation(q, "X", 1), On(q, "Y"), Signed(0, On(q, "Z")))
    /\ Conjugates(Rotation(q, "Y", 1), On(q, "Z"), Signed(0, On(q, "X")))
    /\ Conjugates(ControlledPauli(q, p, "X"), On(q, "X"), Signed(0, Pair(q, "X", p, "X")))
    /\ Conjugates(ControlledPauli(q, p, "X"), On(p, "Z"), Signed(0, Pair(q, "Z", p, "Z")))
    /\ Conjugates(ControlledPauli(q, p, "Z"), Pair(q, "X", p, "Y"), Signed(1, Pair(q, "Y", p, "X")))
    /\ Conjugates(SwapGate(q, p), Pair(q, "X", p, "Z"), Signed(0, Pair(q, "Z", p, "X")))

View == <<ExecutePhaseAndPermute(sim), allocated, ideal>>

Symmetry == Permutations(Qubits)
=============================================================================
