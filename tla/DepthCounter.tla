---------------------------- MODULE DepthCounter ----------------------------
(***************************************************************************)
(* Depth and width of the circuit that a program traces:                   *)
(* src/Simulation/QCTraceSimulator/DepthCounter.cs, with the metrics of    *)
(* QubitMetrics.cs and the list of QubitAvailabilityTimeTracker.cs.        *)
(*                                                                         *)
(* A qubit object is a pair of an id and a number; metrics belong to the   *)
(* object, availability times to the id.  With OptimizeDepth a qubit is    *)
(* given a lane of the circuit only when it is released, next to the       *)
(* qubits that were given that lane before; lanes is history and says      *)
(* which.                                                                  *)
(*                                                                         *)
(* Definitions named X_Bug are X with a mistake, for the mutation runs.    *)
(***************************************************************************)
EXTENDS SortedQubitPool, FiniteSets, FiniteSetsExt, SequencesExt

VARIABLES
    configuration,  \* of the simulator: chosen when it is constructed
    metrics,        \* per qubit object: start and end of its busy time
    available,      \* per id, from 0: when its last gate ended
    startTimes,     \* pool of lanes by the start of their busy time
    endTimes,       \* pool of lanes by the end of their busy time
    maxQubitId,
    depthCalls,     \* stack of call records, the innermost last
    lanes           \* history: the released qubits of a lane, in the order of time

depthVars == <<metrics, available, startTimes, endTimes, maxQubitId, depthCalls, lanes>>

OptimizeDepth == configuration.OptimizeDepth

QubitId(object) == object[1]

NewTracingData == [start |-> MinValue, end |-> Zero]

CallRecord(inputs, min, max) ==
    [inputs |-> inputs, min |-> min, max |-> max, released |-> 0, returned |-> 0,
     maxQubitId |-> maxQubitId]

DepthInit ==
    /\ metrics = << >> /\ available = << >>
    /\ startTimes = EmptyPool /\ endTimes = EmptyPool
    /\ maxQubitId = -1 /\ lanes = << >>
    /\ depthCalls = <<[inputs |-> {}, min |-> 0, max |-> 0, released |-> 0, returned |-> 0,
                       maxQubitId |-> -1]>>

-----------------------------------------------------------------------------
\* The list of times, indexed by id, is as long as the largest id used so far.
TimeOf(list, id) == IF id < Len(list) THEN list[id + 1] ELSE 0

\* Setting the time of each of the ids: the list grows to the largest.
SetTimes(list, ids, time) ==
    [i \in 1 .. Max({Len(list)} \cup {id + 1 : id \in ids}) |->
        IF i - 1 \in ids THEN time ELSE TimeOf(list, i - 1)]

AvailableAt(object) ==
    IF OptimizeDepth THEN metrics[object].end.depth ELSE TimeOf(available, QubitId(object))

MaxAvailableTime(objects) == Max({0} \cup {AvailableAt(o) : o \in objects})
MinAvailableTime(objects) == IF objects = {} THEN 0 ELSE Min({AvailableAt(o) : o \in objects})

Discarded(objects) == [o \in DOMAIN metrics \ objects |-> metrics[o]]

-----------------------------------------------------------------------------
WithNew(objects) ==
    [o \in DOMAIN metrics \cup objects |-> IF o \in objects THEN NewTracingData ELSE metrics[o]]

DepthAllocate(objects) ==
    /\ metrics' = WithNew(objects)
    /\ maxQubitId' = IF OptimizeDepth THEN maxQubitId
                     ELSE Max({maxQubitId} \cup {QubitId(o) : o \in objects})
    /\ UNCHANGED <<available, startTimes, endTimes, depthCalls, lanes>>

DepthBorrow(objects) ==
    /\ metrics' = WithNew(objects)
    /\ UNCHANGED <<available, startTimes, endTimes, maxQubitId, depthCalls, lanes>>

LatestEnd(objects) ==
    CHOOSE t \in {Zero} \cup {metrics[o].end : o \in objects} :
        AtMost(Zero, t) /\ \A o \in objects : AtMost(metrics[o].end, t)

\* The first gate with a partner fixes a qubit in time.
FixedStart(m, end) == IF m.start = MinValue THEN Subtract(end, m.end) ELSE m.start

Advanced(m, end, gateTime) ==
    [start |-> FixedStart(m, end), end |-> AdvanceBy(end, gateTime)]

SingleGate(object, gateTime) == [metrics EXCEPT ![object].end = AdvanceBy(@, gateTime)]

MultiGate(objects, gateTime) ==
    LET end == LatestEnd(objects) IN
    [o \in DOMAIN metrics |->
        IF o \in objects THEN Advanced(metrics[o], end, gateTime) ELSE metrics[o]]

DepthGate(objects, gateTime) ==
    /\ IF OptimizeDepth
       THEN /\ metrics' = IF Cardinality(objects) = 1
                          THEN SingleGate(CHOOSE o \in objects : TRUE, gateTime)
                          ELSE MultiGate(objects, gateTime)
            /\ UNCHANGED available
       ELSE LET time == MaxAvailableTime(objects) + gateTime IN
            /\ available' = SetTimes(available, {QubitId(o) : o \in objects}, time)
            /\ UNCHANGED metrics
    /\ UNCHANGED <<startTimes, endTimes, maxQubitId, depthCalls, lanes>>

-----------------------------------------------------------------------------
\* Where to put a qubit that was busy from q.start to q.end: after what a lane has done,
\* before it, or on a lane of its own.  Of two gaps the shorter one is taken.
Shorter(q, before, after) == AtMost(Subtract(q.start, before), Subtract(after, q.end))

Layout == [starts |-> startTimes, ends |-> endTimes, maxQubitId |-> maxQubitId, lanes |-> lanes]

OnNewLane(lay, q) ==
    [starts |-> Add(lay.starts, lay.maxQubitId, q.start),
     ends |-> Add(lay.ends, lay.maxQubitId, q.end),
     maxQubitId |-> lay.maxQubitId + 1,
     lanes |-> [l \in DOMAIN lay.lanes \cup {lay.maxQubitId} |->
                    IF l = lay.maxQubitId THEN <<q>> ELSE lay.lanes[l]]]

AfterExisting(lay, q, end) ==
    [lay EXCEPT !.ends = Moved(@, end, q.end),
                !.lanes[Removed(lay.ends, end)] = Append(@, q)]

BeforeExisting(lay, q, start) ==
    [lay EXCEPT !.starts = Moved(@, start, q.start),
                !.lanes[Removed(lay.starts, start)] = <<q>> \o @]

PlaceBetween(lay, q, ends, starts) ==
    IF /\ ends # {}
       /\ starts = {} \/ \E e \in ends, s \in starts : Shorter(q, e, s)
    THEN AfterExisting(lay, q, CHOOSE e \in ends : TRUE)
    ELSE IF starts # {}
         THEN BeforeExisting(lay, q, CHOOSE s \in starts : TRUE)
         ELSE OnNewLane(lay, q)

Place_Bug(lay, q) ==
    IF q.end = Zero THEN lay
    ELSE PlaceBetween(lay, q, FindLower(lay.ends, q.end), FindUpper(lay.starts, q.end))

\* A qubit without a gate needs no lane.
Place(lay, q) ==
    IF q.end = Zero THEN lay
    ELSE PlaceBetween(lay, q, FindLower(lay.ends, q.start), FindUpper(lay.starts, q.end))

Busy(object) ==
    [object |-> object, end |-> metrics[object].end,
     start |-> IF metrics[object].start = MinValue THEN Zero ELSE metrics[object].start]

\* The qubits of one release by the start of their busy time, those with the same start
\* in any order (Array.Sort is not stable).
Sorted(objects) ==
    {s \in SetToSeqs({Busy(o) : o \in objects}) :
        \A i \in 1 .. Len(s) - 1 : AtMost(s[i].start, s[i + 1].start)}

\* The lanes when the first n of the qubits have theirs.
PlacedFirst(qubits, n) ==
    LET placed[m \in 0 .. n] == IF m = 0 THEN Layout ELSE Place(placed[m - 1], qubits[m])
    IN  placed[n]

DepthRelease(objects) ==
    LET top == Len(depthCalls) IN
    /\ depthCalls' = [depthCalls EXCEPT ![top].released = Max({@, MaxAvailableTime(objects)})]
    /\ metrics' = Discarded(objects)
    /\ IF OptimizeDepth
       THEN \E qubits \in Sorted(objects) : \E lay \in {PlacedFirst(qubits, Len(qubits))} :
                /\ startTimes' = lay.starts /\ endTimes' = lay.ends
                /\ maxQubitId' = lay.maxQubitId /\ lanes' = lay.lanes
       ELSE UNCHANGED <<startTimes, endTimes, maxQubitId, lanes>>
    /\ UNCHANGED available

DepthReturn(objects) ==
    LET top == Len(depthCalls) IN
    /\ depthCalls' = [depthCalls EXCEPT ![top].returned = Max({@, MaxAvailableTime(objects)})]
    /\ metrics' = Discarded(objects)
    /\ UNCHANGED <<available, startTimes, endTimes, maxQubitId, lanes>>

-----------------------------------------------------------------------------
DepthStart(inputs) ==
    /\ depthCalls' = Append(depthCalls,
            CallRecord(inputs, MinAvailableTime(inputs), MaxAvailableTime(inputs)))
    /\ UNCHANGED <<metrics, available, startTimes, endTimes, maxQubitId, lanes>>

OperationEndTime(call, result) ==
    Max({MaxAvailableTime(result), call.returned, call.released, MaxAvailableTime(call.inputs)})

\* What a call is reported with when it ends.
Sample(call, result) ==
    [depth |-> OperationEndTime(call, result) - call.max,
     difference |-> call.max - call.min,
     width |-> maxQubitId - call.maxQubitId]

ToCaller_Bug(caller, call) == [caller EXCEPT !.returned = Max({@, call.returned})]

ToCaller(caller, call) ==
    [caller EXCEPT !.released = Max({@, call.released}), !.returned = Max({@, call.returned})]

DepthEnd ==
    LET top == Len(depthCalls) IN
    /\ depthCalls' = [Front(depthCalls) EXCEPT ![top - 1] = ToCaller(@, depthCalls[top])]
    /\ UNCHANGED <<metrics, available, startTimes, endTimes, maxQubitId, lanes>>
=============================================================================
