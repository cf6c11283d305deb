---------------------------- MODULE WidthCounter ----------------------------
(***************************************************************************)
(* How many qubits each call needs:                                        *)
(* src/Simulation/QCTraceSimulator/WidthCounter.cs.                        *)
(*                                                                         *)
(* Definitions named X_Bug are X with a mistake, for the mutation runs.    *)
(***************************************************************************)
EXTENDS Integers, Sequences, FiniteSetsExt, SequencesExt

VARIABLES
    allocatedQubits,
    widthCalls      \* stack of call records, the innermost last

widthVars == <<allocatedQubits, widthCalls>>

WidthRecord(width, atStart) ==
    [inputWidth |-> width, atStart |-> atStart, maxAllocated |-> atStart,
     currentBorrow |-> 0, maxBorrowed |-> 0]

WidthInit == allocatedQubits = 0 /\ widthCalls = <<WidthRecord(0, 0)>>

WidthAllocate(count) ==
    /\ allocatedQubits' = allocatedQubits + count
    /\ widthCalls' = [widthCalls EXCEPT
            ![Len(widthCalls)].maxAllocated = Max({@, allocatedQubits + count})]

Borrowed(call, count) ==
    [call EXCEPT !.currentBorrow = @ + count,
                 !.maxBorrowed = Max({@, call.currentBorrow + count})]

WidthBorrow(count, newQubits) ==
    LET top == Len(widthCalls)
        most == Max({widthCalls[top].maxAllocated, allocatedQubits + newQubits}) IN
    /\ allocatedQubits' = allocatedQubits + newQubits
    /\ widthCalls' = [widthCalls EXCEPT
            ![top] = Borrowed([@ EXCEPT !.maxAllocated = most], count - newQubits)]

WidthRelease(count) ==
    /\ allocatedQubits' = allocatedQubits - count
    /\ UNCHANGED widthCalls

WidthReturn(count, qubitsReleased) ==
    /\ allocatedQubits' = allocatedQubits - qubitsReleased
    /\ widthCalls' = [widthCalls EXCEPT
            ![Len(widthCalls)].currentBorrow = @ - (count - qubitsReleased)]

WidthStart(count) ==
    /\ widthCalls' = Append(widthCalls, WidthRecord(count, allocatedQubits))
    /\ UNCHANGED allocatedQubits

WidthEnd_Bug ==
    /\ widthCalls' = Front(widthCalls)
    /\ UNCHANGED allocatedQubits

\* The caller needs at least what the callee needed.
WidthEnd ==
    LET top == Len(widthCalls) IN
    /\ widthCalls' = [Front(widthCalls) EXCEPT
            ![top - 1].maxAllocated = Max({@, widthCalls[top].maxAllocated})]
    /\ UNCHANGED allocatedQubits
=============================================================================
