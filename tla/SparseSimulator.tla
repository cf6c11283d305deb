-------------------------- MODULE SparseSimulator --------------------------
(***************************************************************************)
(* The sparse simulator, src/Simulation/NativeSparseSimulator/             *)
(* SparseSimulator.h, behind the calls of capi.cpp.                        *)
(*                                                                         *)
(* A gate costs a rebuild of the hash table of amplitudes, so gates wait.  *)
(* Phases and permutations wait in one list; on top of it every qubit may  *)
(* hold one H, then one rotation about X, then one about Y:                *)
(*     state of the program = Ry . Rx . H . operations . stored state      *)
(* A new gate is rewritten so that it can be appended to the list, or to a *)
(* qubit's rotations, and what it does not commute with is executed first. *)
(* A qubit known to be in |0> is not occupied, and some calls return at    *)
(* once on it.                                                             *)
(*                                                                         *)
(* A handler is an operator from the simulator to the simulator, as in the *)
(* code one calls another.  "ideal" is the state the program has asked     *)
(* for. Angles are quarter turns.  Definitions named X_Bug are X with a    *)
(* mistake, for the mutation runs.                                         *)
(***************************************************************************)
EXTENDS StabilizerState
LOCAL INSTANCE FiniteSetsExt
LOCAL INSTANCE SequencesExt

CONSTANTS
    Patterns,       \* call patterns, of those below, that the program may use
    MaxRotating     \* bound: qubits with a waiting rotation at the same time

AllPatterns == {"CnotAcrossRy", "MeasureUnoccupied", "UncomputeUnderH"}

ASSUME ConstantsAssumption == Patterns \subseteq AllPatterns /\ MaxRotating \in Nat

VARIABLES
    sim,        \* the SparseSimulator object
    allocated,  \* the qubits the program holds
    ideal       \* the state the program has asked for

vars == <<sim, allocated, ideal>>

Empty == [q \in Qubits |-> FALSE]
Still == [q \in Qubits |-> 0]

Init ==
    /\ sim = [state |-> ZeroState, operations |-> <<>>, H |-> Empty, Rx |-> Empty, Ry |-> Empty,
              anglesRx |-> Still, anglesRy |-> Still, occupied |-> {}]
    /\ allocated = {}
    /\ ideal = ZeroState

-----------------------------------------------------------------------------
(* Executing what waits.                                                    *)

ExecutePhaseAndPermute(s) ==
    [s EXCEPT !.state = Applied(@, s.operations), !.operations = <<>>]

ExecuteH(s, q) ==
    IF s.H[q] THEN [s EXCEPT !.state = Applied(@, HGate(q)), !.H[q] = FALSE] ELSE s

ExecuteRx_KeepsAngle(s, q) ==
    IF s.Rx[q] THEN [s EXCEPT !.state = Applied(@, Rotation(q, "X", s.anglesRx[q])), !.Rx[q] = FALSE]
    ELSE s

ExecuteRx(s, q) ==
    IF s.Rx[q] THEN [s EXCEPT !.state = Applied(@, Rotation(q, "X", s.anglesRx[q])),
                              !.Rx[q] = FALSE, !.anglesRx[q] = 0]
    ELSE s

ExecuteRy(s, q) ==
    IF s.Ry[q] THEN [s EXCEPT !.state = Applied(@, Rotation(q, "Y", s.anglesRy[q])),
                              !.Ry[q] = FALSE, !.anglesRy[q] = 0]
    ELSE s

ExecuteGate(s, q, gate) ==
    CASE gate = "H" -> ExecuteH(s, q) [] gate = "Rx" -> ExecuteRx(s, q) [] gate = "Ry" -> ExecuteRy(s, q)

GatesUpTo(level) ==
    CASE level = "Ry" -> <<"H", "Rx", "Ry">> [] level = "Rx" -> <<"H", "Rx">>
      [] level = "H" -> <<"H">> [] OTHER -> <<>>

ExecuteQubit(s, q, level) ==
    FoldLeft(LAMBDA t, gate : ExecuteGate(t, q, gate), s, GatesUpTo(level))

\* The list, then the qubits' own gates up to the level.
Execute(s, qubits, level) ==
    FoldSet(LAMBDA q, t : ExecuteQubit(t, q, level), ExecutePhaseAndPermute(s), qubits)

Waiting(s, q) == s.Ry[q] \/ s.Rx[q] \/ s.H[q]

ExecuteIf(s, qubits) ==
    IF \E q \in qubits : Waiting(s, q) THEN Execute(s, qubits, "Ry") ELSE s

\* If this gate of the qubit waits, everything up to the level.
ExecuteFor(s, q, gate, level) == IF s[gate][q] THEN Execute(s, {q}, level) ELSE s

Queue(s, gate) == [s EXCEPT !.operations = @ \o gate]
SetNonzero(s, qubits) == [s EXCEPT !.occupied = @ \cup qubits]
SetZero(s, q) == [s EXCEPT !.occupied = @ \ {q}]

NegateRx(s, q) == IF s.Rx[q] THEN [s EXCEPT !.anglesRx[q] = (-@) % 4] ELSE s
NegateRy(s, q) == IF s.Ry[q] THEN [s EXCEPT !.anglesRy[q] = (-@) % 4] ELSE s

-----------------------------------------------------------------------------
(* Gates on one qubit.                                                      *)

X(s, q) ==
    LET t == NegateRy(s, q)
    IN  IF s.H[q] THEN Queue(t, PauliGate(q, "Z"))
        ELSE SetNonzero(Queue(t, PauliGate(q, "X")), {q})

Y(s, q) == SetNonzero(Queue(NegateRx(s, q), PauliGate(q, "Y")), {q})

Z(s, q) ==
    LET t == NegateRx(NegateRy(s, q), q)
    IN  IF s.H[q] THEN SetNonzero(Queue(t, PauliGate(q, "X")), {q})
        ELSE Queue(t, PauliGate(q, "Z"))

Pauli(s, axis, q) == CASE axis = "X" -> X(s, q) [] axis = "Y" -> Y(s, q) [] axis = "Z" -> Z(s, q)

H(s, q) == SetNonzero([ExecuteFor(NegateRy(s, q), q, "Rx", "Rx") EXCEPT !.H[q] = ~@], {q})

Phase(s, q, by) == Queue(ExecuteIf(s, {q}), Rotation(q, "Z", by))

RotateY(s, q, by) ==
    SetNonzero([s EXCEPT !.Ry[q] = TRUE, !.anglesRy[q] = (@ + by) % 4], {q})

RotateX(s, q, by) ==
    SetNonzero([ExecuteFor(s, q, "Ry", "Ry") EXCEPT !.Rx[q] = TRUE, !.anglesRx[q] = (@ + by) % 4],
               {q})

\* On a waiting Rx the code executes "up to Rz", which is the list alone; Phase does the rest.
RotateZ(s, q, by) ==
    LET t == ExecuteFor(ExecuteFor(s, q, "Ry", "Ry"), q, "Rx", "Rz")
    IN  Phase(ExecuteFor(t, q, "H", "H"), q, by)

R(s, axis, q, by) ==
    CASE axis = "X" -> RotateX(s, q, by)
      [] axis = "Y" -> RotateY(s, q, by)
      [] axis = "Z" -> RotateZ(s, q, by)

-----------------------------------------------------------------------------
(* Gates on two qubits.                                                     *)

QueueMCX(s, c, t) ==
    IF s.H[t] /\ s.H[c] THEN SetNonzero(Queue(s, ControlledPauli(t, c, "X")), {c})
    ELSE IF s.H[t] THEN Queue(s, ControlledPauli(c, t, "Z"))
    ELSE SetNonzero(Queue(s, ControlledPauli(c, t, "X")), {t})

MCX(s, c, t) ==
    LET u == IF s.Ry[c] \/ s.Rx[c] \/ (s.H[c] /\ ~s.H[t]) THEN Execute(s, {c}, "Ry") ELSE s
    IN  QueueMCX(ExecuteFor(u, t, "Ry", "Ry"), c, t)

MCY_NoPhase(s, c, t) ==
    SetNonzero(Queue(ExecuteFor(ExecuteIf(s, {c}), t, "Rx", "Rx"), ControlledPauli(c, t, "Y")), {t})

\* A waiting H of the target turns Y into -Y: a Z on the control makes up for it.
MCY(s, c, t) ==
    LET u == ExecuteFor(ExecuteIf(s, {c}), t, "Rx", "Rx")
        v == IF u.H[t] THEN Queue(u, PauliGate(c, "Z")) ELSE u
    IN  SetNonzero(Queue(v, ControlledPauli(c, t, "Y")), {t})

\* A rotation counts for two, an H for one.
Obstacles(s, q) == (IF s.Ry[q] \/ s.Rx[q] THEN 2 ELSE 0) + (IF s.H[q] THEN 1 ELSE 0)

MCZ(s, c, t) ==
    LET count == Obstacles(s, c) + Obstacles(s, t)
        control == IF s.H[c] THEN t ELSE c
        target  == IF s.H[c] THEN c ELSE t
    IN  IF count = 1
        THEN SetNonzero(Queue(s, ControlledPauli(control, target, "X")), {target})
        ELSE Queue(IF count > 1 THEN Execute(Execute(s, {c}, "Ry"), {t}, "Ry") ELSE s,
                   ControlledPauli(c, t, "Z"))

MCPauli(s, axis, c, t) ==
    CASE axis = "X" -> MCX(s, c, t) [] axis = "Y" -> MCY(s, c, t) [] axis = "Z" -> MCZ(s, c, t)

\* MCPhase by -1.
MCPhase(s, c, t) == Queue(ExecuteIf(ExecuteIf(s, {c}), {t}), ControlledPauli(c, t, "Z"))

\* A rotation by pi, about an axis of the target or about no axis.
MCR(s, axis, c, t) ==
    LET u == ExecuteIf(s, {c})
        v == IF axis = "Y" THEN u ELSE ExecuteFor(u, t, "Ry", "Ry")
        w == IF axis = "X" THEN v ELSE ExecuteFor(v, t, "Rx", "Rx")
        x == ExecutePhaseAndPermute(ExecuteFor(w, t, "H", "H"))
    IN  IF axis = "I" THEN Phase(s, c, 3)
        ELSE SetNonzero([x EXCEPT !.state = Applied(@, ControlledRotation(c, t, axis))], {t})

Exp(s, pauli) ==
    SetNonzero([Execute(s, Support(pauli), "Ry") EXCEPT !.state = Applied(@, ExpGate(pauli))],
               Support(pauli))

MCExp(s, axis, c, t) ==
    SetNonzero([Execute(Execute(s, {t}, "Ry"), {c}, "Ry") EXCEPT
                    !.state = Applied(@, ControlledExp(c, t, axis))], {t})

Swapped(f, p, q) == [f EXCEPT ![p] = f[q], ![q] = f[p]]

SWAP_KeepsOccupied(s, p, q) ==
    Queue([s EXCEPT !.Ry = Swapped(@, p, q), !.anglesRy = Swapped(@, p, q),
                    !.Rx = Swapped(@, p, q), !.anglesRx = Swapped(@, p, q),
                    !.H = Swapped(@, p, q)],
          SwapGate(p, q))

SWAP(s, p, q) ==
    Queue([s EXCEPT !.Ry = Swapped(@, p, q), !.anglesRy = Swapped(@, p, q),
                    !.Rx = Swapped(@, p, q), !.anglesRx = Swapped(@, p, q),
                    !.H = Swapped(@, p, q),
                    !.occupied = {IF r = p THEN q ELSE IF r = q THEN p ELSE r : r \in @}],
          SwapGate(p, q))

-----------------------------------------------------------------------------
(* Assertions and measurements.                                             *)

\* A waiting H turns X into Z, Z into X and the sign of Y.
Conjugated(s, pauli) ==
    [q \in Qubits |-> IF s.H[q] /\ pauli[q] = "X" THEN "Z"
                      ELSE IF s.H[q] /\ pauli[q] = "Z" THEN "X" ELSE pauli[q]]

ConjugatedResult(s, pauli, result) ==
    (result + Cardinality({q \in Qubits : s.H[q] /\ pauli[q] = "Y"})) % 2

\* Without a state when it throws.
AssertedUnder(s, pauli, result) ==
    LET t == ExecutePhaseAndPermute(s)
    IN  IF Signed(ConjugatedResult(s, pauli, result), Conjugated(s, pauli)) \in t.state
        THEN t ELSE [t EXCEPT !.state = Impossible]

\* The simulator as the assertion about the qubits leaves it.
Asserted(s, qubits, pauli, result) ==
    AssertedUnder(IF \E q \in qubits : s.Rx[q] \/ s.Ry[q] THEN Execute(s, qubits, "Ry") ELSE s,
                  pauli, result)

MCApplyAnd(s, c, t) ==
    LET u == Asserted(s, {t}, On(t, "Z"), 0) IN IF u.state = Impossible THEN u ELSE MCX(u, c, t)

MCApplyAndAdj(s, c, t) == SetZero(Asserted(MCX(s, c, t), {t}, On(t, "Z"), 0), t)

\* The qubits measured along X are brought to the computational basis, and a second H of
\* each is left waiting.
SwitchBasis(s, along) ==
    LET each(t) == FoldSet(LAMBDA q, u : H(u, q), t, along)
    IN  each(Execute(each(s), along, "H"))

-----------------------------------------------------------------------------
(* The calls.  None is made on a simulator without a state: Assert_cpp      *)
(* destroys it, and the exception of MCApplyAnd ends the program.           *)

Rotating(s) == {q \in Qubits : s.Rx[q] \/ s.Ry[q]}

Gate(s, turns) ==
    /\ sim.state # Impossible
    /\ Cardinality(Rotating(s)) <= MaxRotating
    /\ sim' = s
    /\ ideal' = Applied(ideal, turns)
    /\ UNCHANGED allocated

OneQubitGate(q) ==
    \/ Gate(H(sim, q), HGate(q))
    \/ \E axis \in Axes : Gate(Pauli(sim, axis, q), PauliGate(q, axis))
    \/ \E by \in {1, 3} : Gate(Phase(sim, q, by), Rotation(q, "Z", by))        \* S, AdjS
    \/ \E axis \in Axes, by \in {1, 3} : Gate(R(sim, axis, q, by), Rotation(q, axis, by))
    \/ \E axis \in Axes : Gate(Exp(sim, On(q, axis)), ExpGate(On(q, axis)))

\* The control and the target both wait for an H, and the target for an Ry on top of it.
CnotAcrossRy(c, t) == sim.H[c] /\ ~sim.Rx[c] /\ ~sim.Ry[c] /\ sim.H[t] /\ sim.Ry[t]

ControlledGate(c, t) ==
    \/ \E axis \in Axes :
        /\ axis = "X" /\ CnotAcrossRy(c, t) => "CnotAcrossRy" \in Patterns
        /\ Gate(MCPauli(sim, axis, c, t), ControlledPauli(c, t, axis))
    \/ Gate(MCPhase(sim, c, t), ControlledPauli(c, t, "Z"))
    \/ \E axis \in Axes : Gate(MCR(sim, axis, c, t), ControlledRotation(c, t, axis))
    \/ Gate(MCR(sim, "I", c, t), Rotation(c, "Z", 3))
    \/ \E axis \in Axes : Gate(MCExp(sim, axis, c, t), ControlledExp(c, t, axis))
    \/ Gate(SWAP(sim, c, t), SwapGate(c, t))
    \/ \E axis, other \in Axes :
        Gate(Exp(sim, Pair(c, axis, t, other)), ExpGate(Pair(c, axis, t, other)))

\* What an assertion leaves of the program's state: all of it, or nothing.
Asserting(state, pauli, result) ==
    IF Signed(result, pauli) \in state THEN state ELSE Impossible

ApplyAnd(c, t) ==
    LET s == MCApplyAnd(sim, c, t)
    IN  /\ sim.state # Impossible
        /\ sim' = s
        /\ ideal' = Applied(Asserting(ideal, On(t, "Z"), 0), ControlledPauli(c, t, "X"))
        /\ UNCHANGED allocated

AdjointApplyAnd(c, t) ==
    LET s == MCApplyAndAdj(sim, c, t)
    IN  /\ sim.state # Impossible
        /\ ~CnotAcrossRy(c, t)
        /\ s.H[t] => "UncomputeUnderH" \in Patterns
        /\ sim' = s
        /\ ideal' = Asserting(Applied(ideal, ControlledPauli(c, t, "X")), On(t, "Z"), 0)
        /\ UNCHANGED allocated

\* Assert_cpp.  A simulator whose assertion failed is destroyed.
AssertResult(qubits, pauli, result) ==
    /\ sim.state # Impossible
    /\ sim' = Asserted(sim, qubits, pauli, result)
    /\ ideal' = Asserting(ideal, pauli, result)
    /\ UNCHANGED allocated

M(q, result) ==
    LET s == Execute(sim, {q}, "Ry")
        t == [s EXCEPT !.state = Measured(@, On(q, "Z"), result)]
    IN  /\ sim.state # Impossible
        /\ IF q \notin sim.occupied
           THEN result = 0 /\ sim' = sim
           ELSE /\ result \in Outcomes(s.state, On(q, "Z"))
                /\ sim' = IF result = 0 THEN SetZero(t, q) ELSE t
        /\ ideal' = Measured(ideal, On(q, "Z"), result)
        /\ UNCHANGED allocated

\* "result" is what the reset finds.
Reset(q, result) ==
    LET s == Execute(sim, {q}, "Ry")
    IN  /\ sim.state # Impossible
        /\ IF q \notin sim.occupied
           THEN result = 0 /\ sim' = sim
           ELSE /\ result \in Outcomes(s.state, On(q, "Z"))
                /\ sim' = SetZero([s EXCEPT !.state = Cleared(@, q, result)], q)
        /\ ideal' = Cleared(ideal, q, result)
        /\ UNCHANGED allocated

\* Executes what waits on every qubit of the call, those with "I" included.
Measure(qubits, pauli, result) ==
    LET s == Execute(sim, qubits, "Ry")
        t == [s EXCEPT !.state = Measured(@, pauli, result)]
    IN  /\ sim.state # Impossible
        /\ (\E q \in Qubits \ sim.occupied : pauli[q] = "Y") => "MeasureUnoccupied" \in Patterns
        /\ result \in Outcomes(s.state, pauli)
        /\ sim' = SwitchBasis(t, {q \in Qubits : pauli[q] = "X"})
        /\ ideal' = Measured(ideal, pauli, result)
        /\ UNCHANGED allocated

\* JointEnsembleProbability and the dumps: they execute what waits and read.
Inspect(qubits) ==
    /\ sim.state # Impossible
    /\ sim' = Execute(sim, qubits, "Ry")
    /\ UNCHANGED <<allocated, ideal>>

-----------------------------------------------------------------------------
(* Allocation and release.                                                  *)

\* The code throws on an occupied qubit; otherwise there is nothing to do.
AllocateSpecificQubit(q) ==
    /\ sim.state # Impossible
    /\ q \notin allocated
    /\ q \notin sim.occupied
    /\ allocated' = allocated \cup {q}
    /\ UNCHANGED <<sim, ideal>>

\* A qubit in |1> is flipped, one in a superposition is reset.
Released(s, q, result) ==
    IF Outcomes(s.state, On(q, "Z")) = {0, 1} THEN [s EXCEPT !.state = Cleared(@, q, result)]
    ELSE IF result = 1 THEN Execute(X(s, q), {q}, "Ry")
    ELSE s

Release_KeepsOccupied(q, result) ==
    LET s == Execute(sim, {q}, "Ry")
    IN  /\ sim.state # Impossible
        /\ q \in allocated
        /\ IF q \notin sim.occupied
           THEN result = 0 /\ sim' = sim
           ELSE /\ result \in Outcomes(s.state, On(q, "Z"))
                /\ sim' = IF Outcomes(s.state, On(q, "Z")) = {0, 1} THEN Released(s, q, result)
                          ELSE SetZero(Released(s, q, result), q)
        /\ ideal' = Cleared(ideal, q, result)
        /\ allocated' = allocated \ {q}

Release(q, result) ==
    LET s == Execute(sim, {q}, "Ry")
    IN  /\ sim.state # Impossible
        /\ q \in allocated
        /\ IF q \notin sim.occupied
           THEN result = 0 /\ sim' = sim
           ELSE /\ result \in Outcomes(s.state, On(q, "Z"))
                /\ sim' = SetZero(Released(s, q, result), q)
        /\ ideal' = Cleared(ideal, q, result)
        /\ allocated' = allocated \ {q}

Next ==
    \/ \E q \in Qubits : AllocateSpecificQubit(q)
    \/ \E q \in allocated :
        \/ OneQubitGate(q)
        \/ \E result \in {0, 1} : M(q, result) \/ Reset(q, result) \/ Release(q, result)
    \/ \E c \in allocated, t \in allocated :
        c # t /\ (ControlledGate(c, t) \/ ApplyAnd(c, t) \/ AdjointApplyAnd(c, t))
    \* "I" on every qubit is left out: nothing is asserted, or read.
    \/ \E qubits \in SUBSET allocated, pauli \in Paulis \ {Identity}, result \in {0, 1} :
        /\ Support(pauli) \subseteq qubits
        /\ AssertResult(qubits, pauli, result) \/ Measure(qubits, pauli, result)
    \/ \E qubits \in SUBSET allocated : Inspect(qubits)

Spec == Init /\ [][Next]_vars

-----------------------------------------------------------------------------
(* Properties.                                                              *)

States == SUBSET [sign : {0, 1}, pauli : Paulis]

\* The simulator keeps a rotation's angle at zero while none waits.
TypeOK ==
    /\ sim.state \in States /\ ideal \in States
    /\ \A i \in DOMAIN sim.operations : sim.operations[i] \in [by : 1 .. 3, about : Paulis]
    /\ {sim.H, sim.Rx, sim.Ry} \subseteq [Qubits -> BOOLEAN]
    /\ {sim.anglesRx, sim.anglesRy} \subseteq [Qubits -> 0 .. 3]
    /\ \A q \in Qubits : (~sim.Rx[q] => sim.anglesRx[q] = 0) /\ (~sim.Ry[q] => sim.anglesRy[q] = 0)
    /\ allocated \subseteq Qubits /\ sim.occupied \subseteq Qubits

\* Executing everything that waits gives the state the program asked for: no gate is lost,
\* doubled, moved past one it does not commute with, or rewritten wrongly ("An H on the
\* control but not the target forces execution", SparseSimulator.h:203), and no answer was
\* given, or assertion decided, that this state does not allow.
DeferredEqualsImmediate ==
    Execute(sim, Qubits, "Ry").state = ideal

\* "Store which qubits are non-zero" (SparseSimulator.h:736): one that is not stored as such
\* is in |0>, whatever waits.  M, Reset and release return at once because of it (:581).
UnoccupiedIsZero ==
    ideal # Impossible => \A q \in Qubits \ sim.occupied : Signed(0, On(q, "Z")) \in ideal

\* A qubit nobody holds is in |0> with nothing waiting on it, for the next one to hold it.
FreshQubits ==
    ideal # Impossible => \A q \in Qubits \ allocated :
        /\ q \notin sim.occupied /\ ~Waiting(sim, q)
        /\ Signed(0, On(q, "Z")) \in ideal
=============================================================================
