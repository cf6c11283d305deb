-------------------------- MODULE QubitConstraint --------------------------
(***************************************************************************)
(* What the tracer knows about measurement outcomes: QubitConstraint.cs,   *)
(* MeasurementConstraint.cs and Core.Measure, AssertProb and ForceMeasure  *)
(* of src/Simulation/QCTraceSimulator/QCTraceSimulatorCore.cs.             *)
(*                                                                         *)
(* The code compares constraint objects by reference.  Setting one         *)
(* replaces the constraints of all its qubits, so two objects that are set *)
(* at the same time and have the same qubits are one object, and a         *)
(* constraint may be told by its contents.                                 *)
(*                                                                         *)
(* facts is history: what was asserted, each with the qubits it still says *)
(* something of (on: those no gate, no newer assertion and no release took *)
(* from it) and with those of them that were not measured since.           *)
(*                                                                         *)
(* Definitions named X_Bug are X with a mistake, for the mutation runs.    *)
(***************************************************************************)
EXTENDS Integers, Sequences, Functions

CONSTANT
    None            \* no constraint; no answer

VARIABLES
    constraint,     \* per qubit object: its constraint and its position in it
    facts

constraintVars == <<constraint, facts>>

\* outcomes: what a measurement that meets the constraint may answer.
MeasurementConstraint(qubits, observable, outcomes) ==
    [qubits |-> qubits, observable |-> observable, outcomes |-> outcomes]

ZeroStateAssert(object) == MeasurementConstraint(<<object>>, <<"Z">>, {0})

\* certain: the probability of the result is 1.
AssertMeasurement(qubits, observable, result, certain) ==
    MeasurementConstraint(qubits, observable, IF certain THEN {result} ELSE {0, 1})

ForceMeasurement(qubits, observable, result) ==
    MeasurementConstraint(qubits, observable, {result})

ConstraintInit == constraint = << >> /\ facts = {}

Fact(c) == [of |-> c, on |-> Range(c.qubits), unmeasured |-> Range(c.qubits)]

\* The facts when they say nothing of the objects any more.
Without(objects) ==
    {[of |-> f.of, on |-> f.on \ objects, unmeasured |-> f.unmeasured \ objects] :
        f \in {g \in facts : ~ (g.on \subseteq objects)}}

-----------------------------------------------------------------------------
ConstraintAllocate(objects) ==
    /\ constraint' = [o \in DOMAIN constraint \cup objects |->
                        IF o \in objects THEN [of |-> ZeroStateAssert(o), position |-> 1]
                        ELSE constraint[o]]
    /\ facts' = facts \cup {Fact(ZeroStateAssert(o)) : o \in objects}

ConstraintDiscard(objects) ==
    /\ constraint' = [o \in DOMAIN constraint \ objects |-> constraint[o]]
    /\ facts' = Without(objects)

OnUseQubit(objects) ==
    /\ constraint' = [o \in DOMAIN constraint |->
                        IF o \in objects THEN [of |-> None, position |-> 1] ELSE constraint[o]]
    /\ facts' = Without(objects)

\* A measurement leaves the constraints: the same measurement answers the same again.
OnMeasure(objects) ==
    /\ UNCHANGED constraint
    /\ facts' = {[f EXCEPT !.unmeasured = @ \ objects] : f \in facts}

Positioned(c, object) ==
    [of |-> c, position |-> CHOOSE i \in DOMAIN c.qubits : c.qubits[i] = object]

SetConstraint(c) ==
    /\ constraint' = [o \in DOMAIN constraint |->
                        IF o \in Range(c.qubits) THEN Positioned(c, o) ELSE constraint[o]]
    /\ facts' = Without(Range(c.qubits)) \cup {Fact(c)}

-----------------------------------------------------------------------------
QubitPauli(object) == constraint[object].of.observable[constraint[object].position]

Agree_Bug(observable, qubits) ==
    \A i \in DOMAIN qubits : constraint[qubits[i]].of # None /\ QubitPauli(qubits[i]) = observable[i]

\* All the qubits have the constraint of the first one, each with the Pauli measured.
Agree(observable, qubits) ==
    \A i \in DOMAIN qubits :
        /\ constraint[qubits[i]].of # None
        /\ constraint[qubits[i]].of = constraint[qubits[1]].of
        /\ QubitPauli(qubits[i]) = observable[i]

\* What Measure may answer; None when the outcome is unconstrained.
Answers(observable, qubits) ==
    IF Agree(observable, qubits) THEN constraint[qubits[1]].of.outcomes ELSE None

\* The fact says something of every qubit that is measured, with the Pauli that is measured.
Concerns(fact, observable, qubits) ==
    \A i \in DOMAIN qubits :
        /\ qubits[i] \in fact.on
        /\ \E j \in DOMAIN fact.of.qubits :
                fact.of.qubits[j] = qubits[i] /\ fact.of.observable[j] = observable[i]
=============================================================================
