------------------------- MODULE MCQCTraceSimulator -------------------------
(***************************************************************************)
(* QCTraceSimulator for TLC: one configuration per question, each with the *)
(* program bounded to what the question needs.                             *)
(***************************************************************************)
EXTENDS QCTraceSimulator

Single(time) == <<1, time>>
Pair(time) == <<2, time>>

\* A program that traces gates in one operation.
Scheduling == [
    OptimizeDepth |-> TRUE, CallStackDepthLimit |-> 1,
    GateTimes |-> {Single(1), Pair(1)}, Paulis |-> {},
    MaxQubits |-> 4, MaxRequest |-> 2, MaxBorrow |-> 0, MaxCalls |-> 1, MaxGates |-> 4,
    MayFail |-> FALSE]

\* The same with gates of no depth on two qubits.
ZeroDepth == [Scheduling EXCEPT
    !.GateTimes = {Single(0), Single(1), Pair(0), Pair(1)}, !.MaxGates = 3]

\* The same when ids come back.
Tracking == [ZeroDepth EXCEPT !.OptimizeDepth = FALSE, !.GateTimes = {Single(1), Pair(1)},
    !.MaxQubits = 3]

\* Operations that call operations, one level of them recorded, and fail.
Calling == [
    OptimizeDepth |-> FALSE, CallStackDepthLimit |-> 1, GateTimes |-> {Single(1)}, Paulis |-> {},
    MaxQubits |-> 2, MaxRequest |-> 1, MaxBorrow |-> 1, MaxCalls |-> 3, MaxGates |-> 1,
    MayFail |-> TRUE]

\* Two levels recorded, and ids that do not come back.
Nesting == [Calling EXCEPT
    !.OptimizeDepth = TRUE, !.CallStackDepthLimit = 2, !.GateTimes = {Single(1), Pair(1)},
    !.MaxQubits = 3, !.MaxGates = 2]

\* Assertions and measurements.
Asserting == [Scheduling EXCEPT
    !.GateTimes = {Single(1)}, !.Paulis = {"X", "Z"}, !.MaxQubits = 2, !.MaxGates = 2]

Everything == {Scheduling, ZeroDepth, Tracking, Calling, Nesting, Asserting}
=============================================================================
