-------------------------- MODULE QCTraceSimulator --------------------------
(***************************************************************************)
(* The trace simulator: src/Simulation/QCTraceSimulator/                   *)
(* QCTraceSimulatorCore.cs calls its listeners, here DepthCounter and      *)
(* WidthCounter, on what the program does, and keeps what is known of      *)
(* measurement outcomes (QubitConstraint).                                 *)
(*                                                                         *)
(* Of the qubit manager this module has the contract, which both managers  *)
(* of TraceableQubitManager.cs meet: a new id is idle, what is lent is no  *)
(* qubit of the operation that borrows, and new ids are made when there    *)
(* are too few.  With OptimizeDepth no id comes back.                      *)
(*                                                                         *)
(* The program is compiled Q#: what an operation uses or borrows it gives  *)
(* up in the same operation, the last first, unless it fails; then every   *)
(* operation up to the host ends at once.  frames is the program's stack,  *)
(* frames[1] the host.  A gate runs in operations of its own, which change *)
(* nothing in their caller's records and are not modelled.                 *)
(*                                                                         *)
(* Definitions named X_Bug are X with a mistake, for the mutation runs.    *)
(***************************************************************************)
EXTENDS DepthCounter, WidthCounter, QubitConstraint

CONSTANTS
    Configurations, \* OptimizeDepth, CallStackDepthLimit, and as gate times a set of pairs of
                    \* a number of qubits and a time; and the bounds of the program: Paulis it
                    \* asserts about and measures, MaxQubits, MaxRequest, MaxBorrow, MaxCalls,
                    \* MaxGates, and whether its operations MayFail
    MeasureTime

QubitObjects == Nat \X Nat

Constraints == [qubits : Seq(QubitObjects), outcomes : SUBSET {0, 1},
                observable : Seq({"Z"} \cup UNION {c.Paulis : c \in Configurations})]

ASSUME ConstantsAssumption ==
    /\ \A c \in Configurations :
        /\ c.OptimizeDepth \in BOOLEAN /\ c.CallStackDepthLimit \in Nat
        /\ c.GateTimes \subseteq Nat \X Nat
    /\ MeasureTime \in Nat
    /\ None \notin Constraints

VARIABLES
    frames,     \* the program's stack: inputs, blocks and history of a call
    held,       \* ids in use: the number of borrowers, or 0 for one that is allocated
    fresh,      \* the next id that was never used
    failing,    \* an exception is on its way to the host
    calls,      \* operations the program has called, for the bound
    wires       \* history: the gates on every qubit, in their order; a gate is the wires
                \* it is on, its time, and its number among the gates on these wires

vars == <<configuration, depthVars, widthVars, constraintVars, frames, held, fresh, failing,
          calls, wires>>

\* Every gate so far, as an entry of the wires it is on.
Gates == UNION {Range(wires[w]) : w \in DOMAIN wires}

Frame(inputs) ==
    [inputs |-> inputs, blocks |-> << >>, peak |-> Cardinality(DOMAIN held), before |-> Gates]

Init ==
    /\ configuration \in Configurations
    /\ DepthInit /\ WidthInit /\ ConstraintInit
    /\ held = << >> /\ fresh = 0 /\ wires = << >>
    /\ frames = <<[inputs |-> {}, blocks |-> << >>, peak |-> 0, before |-> {}]>>
    /\ failing = FALSE /\ calls = 0

-----------------------------------------------------------------------------
Top == Len(frames)

InOperation == ~ failing /\ Top > 1

\* Listeners see the calls down to the limit, and everything else.
Recorded(depth) == depth <= configuration.CallStackDepthLimit

Reach == frames[Top].inputs \cup UNION {b.objects : b \in Range(frames[Top].blocks)}

\* Busy times belong to the object when depth is optimized, to the id otherwise.
Wire(object) == IF OptimizeDepth THEN object ELSE QubitId(object)

Idle == IF OptimizeDepth THEN {} ELSE 0 .. fresh - 1 \ DOMAIN held

\* n ids nobody has, never used ones in their order.
NewIds(n) == {old \cup (fresh .. fresh + n - Cardinality(old) - 1) :
                    old \in UNION {kSubset(k, Idle) : k \in 0 .. n}}

Objects(id) == {o \in IF OptimizeDepth THEN DOMAIN wires ELSE DOMAIN metrics : QubitId(o) = id}

CreateQubitObject(id) == <<id, Cardinality(Objects(id))>>

Created(ids) == {CreateQubitObject(id) : id \in ids}

Wired(objects) ==
    [w \in DOMAIN wires \cup {Wire(o) : o \in objects} |->
        IF w \in DOMAIN wires THEN wires[w] ELSE << >>]

Fits(objects) == Cardinality(DOMAIN Wired(objects)) <= configuration.MaxQubits

\* The top frame has a block more; every open call may have a new peak.
Opened(kind, objects, lent, inUse) ==
    [k \in 1 .. Top |->
        [frames[k] EXCEPT
            !.peak = Max({@, Cardinality(inUse)}),
            !.blocks = IF k < Top THEN @
                       ELSE Append(@, [kind |-> kind, objects |-> objects, lent |-> lent])]]

-----------------------------------------------------------------------------
Allocate(n) == \E ids \in NewIds(n) :
    /\ InOperation /\ Fits(Created(ids))
    /\ held' = [id \in DOMAIN held \cup ids |-> IF id \in ids THEN 0 ELSE held[id]]
    /\ fresh' = Max({fresh} \cup {id + 1 : id \in ids})
    /\ frames' = Opened("use", Created(ids), 0, DOMAIN held')
    /\ wires' = Wired(Created(ids))
    /\ DepthAllocate(Created(ids))
    /\ WidthAllocate(n)
    /\ ConstraintAllocate(Created(ids))
    /\ UNCHANGED <<failing, calls>>

\* In use, and no argument or local of the operation.
Lendable == DOMAIN held \ {QubitId(o) : o \in Reach}

\* QubitManager borrows as many of these as it can, QubitManagerRestrictedReuse none.
MayLend(n) == {0, Min({n, Cardinality(Lendable)})}

Borrow(n) ==
    \E lent \in UNION {kSubset(k, Lendable) : k \in MayLend(n)} :
    \E new \in NewIds(n - Cardinality(lent)) :
        /\ InOperation /\ Fits(Created(lent \cup new))
        /\ held' = [id \in DOMAIN held \cup new |->
                        CASE id \in new -> 1
                          [] id \in lent /\ held[id] > 0 -> held[id] + 1
                          [] OTHER -> held[id]]
        /\ fresh' = Max({fresh} \cup {id + 1 : id \in new})
        /\ frames' = Opened("borrow", Created(lent \cup new), Cardinality(lent), DOMAIN held')
        /\ wires' = Wired(Created(lent \cup new))
        /\ DepthBorrow(Created(lent \cup new))
        /\ WidthBorrow(n, Cardinality(new))
        /\ ConstraintAllocate(Created(lent \cup new))
        /\ UNCHANGED <<failing, calls>>

HasBlock(kind) ==
    /\ InOperation /\ frames[Top].blocks # << >>
    /\ Last(frames[Top].blocks).kind = kind

Closed == [frames EXCEPT ![Top].blocks = Front(@)]

Release ==
    /\ HasBlock("use")
    /\ LET objects == Last(frames[Top].blocks).objects IN
        /\ held' = [id \in DOMAIN held \ {QubitId(o) : o \in objects} |-> held[id]]
        /\ DepthRelease(objects)
        /\ WidthRelease(Cardinality(objects))
        /\ ConstraintDiscard(objects)
    /\ frames' = Closed
    /\ UNCHANGED <<fresh, failing, calls, wires>>

Return ==
    /\ HasBlock("borrow")
    /\ LET objects == Last(frames[Top].blocks).objects
           ids == {QubitId(o) : o \in objects}
           released == {id \in ids : held[id] = 1} IN
        /\ held' = [id \in DOMAIN held \ released |->
                        IF id \in ids /\ held[id] > 0 THEN held[id] - 1 ELSE held[id]]
        /\ DepthReturn(objects)
        /\ WidthReturn(Cardinality(objects), Cardinality(released))
        /\ ConstraintDiscard(objects)
    /\ frames' = Closed
    /\ UNCHANGED <<fresh, failing, calls, wires>>

-----------------------------------------------------------------------------
NewGate(on, time) ==
    [on |-> on, time |-> time, number |-> Cardinality({g \in Gates : g.on = on}) + 1]

WithGate(on, time) ==
    [w \in DOMAIN wires |-> IF w \in on THEN Append(wires[w], NewGate(on, time)) ELSE wires[w]]

DoPrimitiveOperation(objects, time) ==
    /\ InOperation /\ Cardinality(Gates) < configuration.MaxGates
    /\ wires' = WithGate({Wire(o) : o \in objects}, time)
    /\ DepthGate(objects, time)
    /\ UNCHANGED <<widthVars, frames, held, fresh, failing, calls>>

Gate == \E kind \in configuration.GateTimes : \E objects \in kSubset(kind[1], Reach) :
    /\ DoPrimitiveOperation(objects, kind[2])
    /\ OnUseQubit(objects)

Measure == \E n \in {1, 2} : \E objects \in kSubset(n, Reach) :
    /\ configuration.Paulis # {}
    /\ DoPrimitiveOperation(objects, MeasureTime)
    /\ OnMeasure(objects)

\* Sequences of one or two qubits in reach, each with a Pauli.
Observables == {o \in
    UNION {[1 .. n -> Reach] \X [1 .. n -> configuration.Paulis] : n \in {1, 2}} : IsInjective(o[1])}

AssertProb == \E o \in Observables, result \in {0, 1}, certain \in BOOLEAN :
    /\ InOperation
    /\ SetConstraint(AssertMeasurement(o[1], o[2], result, certain))
    /\ UNCHANGED <<depthVars, widthVars, frames, held, fresh, failing, calls, wires>>

ForceMeasure == \E o \in Observables, result \in {0, 1} :
    /\ InOperation
    /\ SetConstraint(ForceMeasurement(o[1], o[2], result))
    /\ UNCHANGED <<depthVars, widthVars, frames, held, fresh, failing, calls, wires>>

-----------------------------------------------------------------------------
OnOperationStart == \E inputs \in SUBSET Reach :
    /\ ~ failing /\ calls < configuration.MaxCalls
    /\ calls' = calls + 1
    /\ frames' = Append(frames, Frame(inputs))
    /\ IF Recorded(Top)
       THEN DepthStart(inputs) /\ WidthStart(Cardinality(inputs))
       ELSE UNCHANGED <<depthVars, widthVars>>
    /\ UNCHANGED <<constraintVars, held, fresh, failing, wires>>

EndOfCall ==
    /\ frames' = Front(frames)
    /\ IF Recorded(Top - 1)
       THEN DepthEnd /\ WidthEnd
       ELSE UNCHANGED <<depthVars, widthVars>>
    /\ UNCHANGED <<constraintVars, held, fresh, calls, wires>>

OnOperationEnd ==
    /\ InOperation /\ frames[Top].blocks = << >>
    /\ EndOfCall
    /\ UNCHANGED failing

OnFail ==
    /\ InOperation /\ configuration.MayFail
    /\ failing' = TRUE
    /\ UNCHANGED <<depthVars, widthVars, constraintVars, frames, held, fresh, calls, wires>>

\* An operation that fails ends in its finally clause, with what it holds.
Unwind ==
    /\ failing
    /\ EndOfCall
    /\ failing' = (Top > 2)

Next ==
    /\ UNCHANGED configuration
    /\ \/ \E n \in 1 .. configuration.MaxRequest : Allocate(n)
       \/ \E n \in 1 .. configuration.MaxBorrow : Borrow(n)
       \/ Release \/ Return
       \/ Gate \/ Measure \/ AssertProb \/ ForceMeasure
       \/ OnOperationStart \/ OnOperationEnd \/ OnFail \/ Unwind

Spec == Init /\ [][Next]_vars

-----------------------------------------------------------------------------
TypeOK ==
    /\ DOMAIN metrics = DOMAIN constraint
    /\ \A o \in DOMAIN metrics : /\ QubitId(o) < fresh /\ Wire(o) \in DOMAIN wires
                               /\ AtMost(Zero, metrics[o].end)
                               /\ Before(metrics[o].start, metrics[o].end)
    /\ DOMAIN held \subseteq 0 .. fresh - 1
    /\ Len(depthCalls) = Len(widthCalls) /\ Len(depthCalls) = Min({Top, configuration.CallStackDepthLimit + 1})
    /\ \A k \in 2 .. Len(depthCalls) : depthCalls[k].inputs = frames[k].inputs
    /\ \A o, p \in Reach : QubitId(o) = QubitId(p) => o = p

\* The order a schedule has to keep, on every wire and on every lane of reused qubits.
WireOrder == UNION {{<<wires[w][i], wires[w][i + 1]>> : i \in 1 .. Len(wires[w]) - 1} :
                        w \in DOMAIN wires}

LaneOrder == UNION {{<<Last(wires[lanes[l][i].object]), wires[lanes[l][i + 1].object][1]>> :
                        i \in 1 .. Len(lanes[l]) - 1} : l \in DOMAIN lanes}

\* When every gate ends at the earliest, taking n steps back along the order.
EarliestEnd(order) ==
    LET end[n \in 0 .. Cardinality(Gates)] ==
            IF n = 0 THEN [g \in Gates |-> g.time]
            ELSE LET before == end[n - 1] IN
                 [g \in Gates |->
                    g.time + Max({0} \cup {before[f] : f \in {f \in Gates : <<f, g>> \in order}})]
    IN end[Cardinality(Gates)]

\* Gates that end a path of n steps.
EndsOfPaths(order) ==
    LET ends[n \in 0 .. Cardinality(Gates)] ==
            IF n = 0 THEN Gates
            ELSE LET before == ends[n - 1] IN {g \in Gates : \E f \in before : <<f, g>> \in order}
    IN ends

IsAcyclic(order) == EndsOfPaths(order)[Cardinality(Gates)] = {}

Latest(end) == Max({0} \cup {end[g] : g \in Gates})

\* The depth of the circuit: the latest of the lanes, of the qubits and of what calls will report.
CircuitDepth == Max({t.depth : t \in DOMAIN endTimes}
                        \cup {metrics[o].end.depth : o \in DOMAIN metrics}
                        \cup {call.returned : call \in Range(depthCalls)} \cup {0})

\* Depth-optimal reuse gives released qubits lanes that a schedule of the reported depth
\* can keep: no gate waits for itself through gates and lanes, and none ends later.
ReuseIsSchedulable == OptimizeDepth =>
    LET order == WireOrder \cup LaneOrder IN
    /\ IsAcyclic(order)
    /\ Latest(EarliestEnd(order)) <= CircuitDepth

\* The two pools describe the same lanes: each lane once in each, at the start of its first
\* and the end of its last qubit, the qubits in between one after the other.
PoolsMatchLanes ==
    /\ Cardinality(DOMAIN lanes) = IF OptimizeDepth THEN maxQubitId + 1 ELSE 0
    /\ \A l \in DOMAIN lanes :
        /\ {t \in DOMAIN startTimes : l \in Range(startTimes[t])} = {lanes[l][1].start}
        /\ {t \in DOMAIN endTimes : l \in Range(endTimes[t])} = {Last(lanes[l]).end}
        /\ \A i \in 1 .. Len(lanes[l]) - 1 : AtMost(lanes[l][i].end, lanes[l][i + 1].start)

\* Qubits are available when the longest chain of gates before them has ended, and a call that is
\* done with its qubits ends after every gate it made, and not after the whole circuit.
DepthIsCriticalPath ==
    LET end == EarliestEnd(WireOrder)
        endOf(w) == IF wires[w] = << >> THEN 0 ELSE end[Last(wires[w])] IN
    /\ \A o \in DOMAIN metrics : AvailableAt(o) = endOf(Wire(o))
    /\ (InOperation /\ frames[Top].blocks = << >> /\ Recorded(Top - 1)) =>
        LET call == Last(depthCalls)
            finish == call.max + Sample(call, {}).depth IN
        /\ \A g \in Gates \ frames[Top].before : end[g] <= finish
        /\ finish <= Latest(end)

\* What the width counter says of an open call and its callees is the largest number of qubits
\* in use since the call began, whatever they allocate, borrow, return or leak.
WidthCoversNesting ==
    /\ allocatedQubits = Cardinality(DOMAIN held)
    /\ \A k \in DOMAIN widthCalls :
        frames[k].peak = Max({widthCalls[j].maxAllocated : j \in k .. Len(widthCalls)})

\* The measurement of all that an assertion is about, its qubits in any order, is answered from it
\* until one of them is touched, measured, released or asserted about again.  And whatever is
\* measured, some of the qubits or all, for the first time or again: an answer comes from one
\* assertion, made of every measured qubit with the Pauli that is measured, which no gate, newer
\* assertion or release has taken from any of them.
AnswersAreAsserted == InOperation => \A o \in Observables :
    LET about == {f \in facts : Concerns(f, o[2], o[1])} IN
    /\ \A f \in about :
        f.unmeasured = Range(f.of.qubits) /\ f.unmeasured = Range(o[1])
            => Answers(o[2], o[1]) = f.of.outcomes
    /\ Answers(o[2], o[1]) # None => \E f \in about : Answers(o[2], o[1]) = f.of.outcomes

\* What Core.Measure says of itself: the observable of the constraint is the one being measured.
\* It is not when only some of the constraint's qubits are.
MeasuresWhatWasAsserted == InOperation => \A o \in Observables :
    Answers(o[2], o[1]) # None => Range(constraint[o[1][1]].of.qubits) = Range(o[1])

\* What QubitConstraint says of measurements: they invalidate the constraints of their qubits, so
\* that no answer is about a qubit that was measured since.  They leave them.
MeasurementsInvalidate == InOperation => \A o \in Observables :
    Answers(o[2], o[1]) # None =>
        \E f \in facts : Concerns(f, o[2], o[1]) /\ Range(o[1]) \subseteq f.unmeasured
=============================================================================
