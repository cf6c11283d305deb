------------------------- MODULE StabilizerState -------------------------
(***************************************************************************)
(* The state of the sparse simulator,                                      *)
(* src/Simulation/NativeSparseSimulator/quantum_state.hpp, on the part of  *)
(* it that can be computed exactly: the states that the Clifford gates     *)
(* make out of |0...0>.                                                    *)
(*                                                                         *)
(* Such a state is given by the signed Pauli operators that leave it as it *)
(* is, so two states are equal up to the global phase when these sets are  *)
(* equal.  The amplitudes the code keeps in its hash table are abstracted  *)
(* to that set.  A Clifford gate is a sequence of quarter turns            *)
(*     exp(-i (pi/4) by about),    about a Pauli operator,                 *)
(* which is how every gate below is written.                               *)
(*                                                                         *)
(* Nothing in this module changes: it is an algebra.                       *)
(***************************************************************************)
EXTENDS Integers, Sequences, FiniteSets
LOCAL INSTANCE SequencesExt
LOCAL INSTANCE FiniteSetsExt
LOCAL INSTANCE TLC

CONSTANT Qubits

ASSUME QubitsAreFinite == IsFiniteSet(Qubits) /\ Qubits # {}

-----------------------------------------------------------------------------
(* Pauli operators: a letter per qubit.                                     *)

Axes == {"X", "Y", "Z"}
Paulis == [Qubits -> Axes \cup {"I"}]
Identity == [q \in Qubits |-> "I"]
On(q, axis) == [Identity EXCEPT ![q] = axis]
Pair(p, a, q, b) == [Identity EXCEPT ![p] = a, ![q] = b]
Support(pauli) == {q \in Qubits : pauli[q] # "I"}

Cycle == {<<"X", "Y">>, <<"Y", "Z">>, <<"Z", "X">>}

\* The power of i in the product of two letters: XY = iZ, YX = -iZ, XX = 1.
LetterPhase(a, b) == IF <<a, b>> \in Cycle THEN 1 ELSE IF <<b, a>> \in Cycle THEN 3 ELSE 0

Letter(a, b) ==
    IF a = "I" THEN b ELSE IF b = "I" THEN a ELSE IF a = b THEN "I"
    ELSE CHOOSE c \in Axes : c \notin {a, b}

\* A function, as a table that TLC computes once.
Tabulated(f) == f @@ <<>>

\* The product of two Pauli operators, with its power of i.
Product == Tabulated([g \in Paulis |-> Tabulated([h \in Paulis |->
    [phase |-> MapThenSumSet(LAMBDA q : LetterPhase(g[q], h[q]), Qubits) % 4,
     pauli |-> [q \in Qubits |-> Letter(g[q], h[q])]]])])

Commute(g, h) == Product[g][h].phase % 2 = 0

-----------------------------------------------------------------------------
(* States and gates.                                                        *)

Signed(sign, pauli) == [sign |-> sign, pauli |-> pauli]

\* No state at all: what is left of one that an impossible answer was given about.
Impossible == {}

ZeroState == {Signed(0, pauli) : pauli \in [Qubits -> {"I", "Z"}]}

\* What a turn makes of a signed Pauli operator, given the product with what it is about.
TurnedBy(g, by, product) ==
    IF by = 0 \/ product.phase % 2 = 0 THEN g
    ELSE IF by = 2 THEN [g EXCEPT !.sign = 1 - @]
    ELSE Signed(((4 - by + product.phase + 2 * g.sign) % 4) \div 2, product.pauli)

Turned(g, turn) == TurnedBy(g, turn.by, Product[turn.about][g.pauli])

Applied(state, turns) ==
    FoldLeft(LAMBDA s, turn : {Turned(g, turn) : g \in s}, state, turns)

Turn(by, about) == <<[by |-> by, about |-> about]>>

PauliGate(q, axis) == Turn(2, On(q, axis))
Rotation(q, axis, by) == Turn(by, On(q, axis))              \* R by quarter turns
HGate(q) == Rotation(q, "Z", 1) \o Rotation(q, "X", 1) \o Rotation(q, "Z", 1)
ControlledPauli(c, t, axis) ==
    Rotation(c, "Z", 1) \o Rotation(t, axis, 1) \o Turn(3, Pair(c, "Z", t, axis))
ControlledRotation(c, t, axis) == ControlledPauli(c, t, axis) \o Rotation(c, "Z", 3)   \* by pi
SwapGate(p, q) == Turn(3, Pair(p, "X", q, "X")) \o Turn(3, Pair(p, "Y", q, "Y"))
                  \o Turn(3, Pair(p, "Z", q, "Z"))
ExpGate(pauli) == Turn(3, pauli)                            \* exp(i (pi/4) pauli)
ControlledExp(c, t, axis) == ControlledPauli(c, t, axis) \o Rotation(c, "Z", 1)  \* of i (pi/2)

-----------------------------------------------------------------------------
(* Measurement.                                                             *)

\* The results that measuring a Pauli operator can have: both, unless the state fixes it.
Outcomes(state, pauli) == {r \in {0, 1} : Signed(1 - r, pauli) \notin state}

Times(g, h) ==
    LET product == Product[g.pauli][h.pauli]
    IN  Signed(((product.phase + 2 * (g.sign + h.sign)) % 4) \div 2, product.pauli)

\* The state after measuring a Pauli operator with this result.
Measured(state, pauli, result) ==
    LET kept == {g \in state : Commute(g.pauli, pauli)}
    IN  IF state = Impossible \/ result \notin Outcomes(state, pauli) THEN Impossible
        ELSE kept \cup {Times(Signed(result, pauli), g) : g \in kept}

\* Measure the qubit and put it into |0>.
Cleared(state, q, result) ==
    LET measured == Measured(state, On(q, "Z"), result)
    IN  IF result = 1 THEN Applied(measured, PauliGate(q, "X")) ELSE measured
=============================================================================
