-------------------------- MODULE SortedQubitPool --------------------------
(***************************************************************************)
(* Points in time and the pools of qubits sorted by them:                  *)
(* src/Simulation/QCTraceSimulator/SortedQubitPool.cs.  A time is a depth  *)
(* and the number of gates of depth zero that follow it.  A pool is a      *)
(* function from times to the ids that have that time, in the order of the *)
(* linked list of their node.                                              *)
(*                                                                         *)
(* Definitions named X_Bug are X with a mistake, for the mutation runs.    *)
(***************************************************************************)
EXTENDS Integers, Sequences

Time(depth, zeros) == [depth |-> depth, zeros |-> zeros]

Zero == Time(0, 0)

\* Before every time a program has.
MinValue == Time(-1, 0)

Before(s, t) ==
    \/ s.depth < t.depth
    \/ s.depth = t.depth /\ s.zeros < t.zeros

AtMost(s, t) == ~ Before(t, s)

AdvanceBy_Bug(t, gateTime) == Time(t.depth + gateTime, 0)

\* A gate without depth comes after the gates before it all the same.
AdvanceBy(t, gateTime) ==
    IF gateTime = 0 THEN Time(t.depth, t.zeros + 1) ELSE Time(t.depth + gateTime, 0)

Subtract(s, t) ==
    IF s.depth = t.depth THEN Time(0, s.zeros - t.zeros) ELSE Time(s.depth - t.depth, 0)

-----------------------------------------------------------------------------
EmptyPool == << >>

Add_Bug(pool, id, t) ==
    [s \in DOMAIN pool \cup {t} |-> IF s = t THEN <<id>> ELSE pool[s]]

\* An id whose time is already there becomes the second of its list.
Add(pool, id, t) ==
    IF t \in DOMAIN pool
    THEN [pool EXCEPT ![t] = <<Head(@), id>> \o Tail(@)]
    ELSE [s \in DOMAIN pool \cup {t} |-> IF s = t THEN <<id>> ELSE pool[s]]

LowerBounds(pool, t) == {s \in DOMAIN pool : AtMost(s, t)}
UpperBounds(pool, t) == {s \in DOMAIN pool : AtMost(t, s)}

\* FindBound, as the set of what it finds: the largest time at most t, or the
\* smallest time at least t.
FindLower(pool, t) == {s \in LowerBounds(pool, t) : \A r \in LowerBounds(pool, t) : AtMost(r, s)}
FindUpper(pool, t) == {s \in UpperBounds(pool, t) : \A r \in UpperBounds(pool, t) : AtMost(s, r)}

\* Remove takes the second id of the list, or the only one.
Removed(pool, t) == IF Len(pool[t]) = 1 THEN pool[t][1] ELSE pool[t][2]

Remaining(pool, t) ==
    IF Len(pool[t]) = 1
    THEN [s \in DOMAIN pool \ {t} |-> pool[s]]
    ELSE [pool EXCEPT ![t] = <<Head(@)>> \o SubSeq(@, 3, Len(@))]

\* Remove the id found at one time and add it at another.
Moved(pool, from, to) == Add(Remaining(pool, from), Removed(pool, from), to)
=============================================================================
