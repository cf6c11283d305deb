----------------------- MODULE QCTraceSimulatorProofs -----------------------
(***************************************************************************)
(* Theorems about QCTraceSimulator, for any configurations, any times of   *)
(* the gates and any bounds of the program: what its listeners keep fits   *)
(* the program's stack, the widths that they report cover all callees,     *)
(* assertions answer the measurements they are of, the pools describe the  *)
(* lanes of the circuit, and the depths that are reported are those of the *)
(* longest chains of gates. That the gates can be scheduled on the lanes   *)
(* is in QCTraceScheduleProofs.                                            *)
(*                                                                         *)
(* The argument.  An id may be in the blocks of several open operations,   *)
(* allocated in the first and borrowed in the others, and each has its own *)
(* object for it.  Objects of an id are numbered by counting those that    *)
(* are live, so that a new object is new only as long as the numbers have  *)
(* no gaps; they have none, since the objects above one belong to blocks   *)
(* further up the stack (AboveIsOpen), which end first.  With this every   *)
(* action opens a block, ends one, opens a call or ends one, and there is  *)
(* one lemma for each about the stack, and one about every listener.  The  *)
(* lanes change in a release only, and there one qubit at a time: after    *)
(* what a lane has, before it, or on a lane of its own.  For the depths    *)
(* the invariants have an end of every gate.                               *)
(***************************************************************************)
EXTENDS QCTraceSimulator, FiniteSetTheorems, SequenceTheorems,
        NaturalsInduction, WellFoundedInduction, TLAPS

-----------------------------------------------------------------------------
(* What is invariant.                                                       *)

Times == [depth : Nat, zeros : Nat]

\* A qubit may be fixed in time at a start below zero, before it is known when it ends.
Starts == [depth : Int, zeros : Int]

Kinds == {"use", "borrow"}

BlockRecords == [kind : Kinds, objects : SUBSET QubitObjects, lent : Nat]

Wires == QubitObjects \cup Nat

GateRecords == [on : SUBSET Wires, time : Nat, number : Nat]

FrameRecords ==
    [inputs : SUBSET QubitObjects, blocks : Seq(BlockRecords), peak : Nat,
     before : SUBSET GateRecords]

\* The places of the blocks on the stack s: a frame and a number in it.
Places(s) == UNION {{k} \X DOMAIN s[k].blocks : k \in DOMAIN s}

BlockAt(s, p) == s[p[1]].blocks[p[2]]

ObjectsAt(s, p) == BlockAt(s, p).objects

\* The qubits that frame k of s may act on.
Reached(s, k) == s[k].inputs \cup UNION {ObjectsAt(s, p) : p \in {q \in Places(s) : q[1] = k}}

\* The blocks that have id on loan.
Loans(s, id) ==
    {p \in Places(s) : BlockAt(s, p).kind = "borrow" /\ \E o \in ObjectsAt(s, p) : QubitId(o) = id}

\* What the numbers of qubit objects are counted from.
Numbered == IF OptimizeDepth THEN DOMAIN wires ELSE DOMAIN metrics

-----------------------------------------------------------------------------
(* The program's stack s, with the ids in use, h, and the live objects, l.  *)

\* Only the host has no caller; it is given no qubits and holds none.
WellFounded(s) == s \in Seq(FrameRecords) /\ Len(s) > 0 /\ s[1].inputs = {} /\ s[1].blocks = << >>

\* Blocks hold live objects, of ids in use, and ids that are allocated are not counted.
BlocksHold(s, h, l) == \A p \in Places(s) : \A o \in ObjectsAt(s, p) :
    /\ o \in l /\ QubitId(o) \in DOMAIN h
    /\ BlockAt(s, p).kind = "use" => h[QubitId(o)] = 0

\* An id is in several blocks only of different operations: the first may have allocated it,
\* the others borrow it, and their objects have larger numbers.
BlocksDiffer(s) == \A p \in Places(s), q \in Places(s) :
    \A o \in ObjectsAt(s, p), r \in ObjectsAt(s, q) : QubitId(o) = QubitId(r) =>
        /\ p[1] = q[1] => p = q /\ o = r
        /\ p[1] < q[1] => o[2] < r[2]
        /\ p # q /\ BlockAt(s, p).kind = "use" => p[1] < q[1]

\* Inputs are from a caller's blocks, and with it a frame's own have an object for an id.
InputsAreLent(s) ==
    /\ \A k \in DOMAIN s : \A o \in s[k].inputs :
        \E p \in Places(s) : p[1] < k /\ o \in ObjectsAt(s, p)
    /\ \A k \in DOMAIN s : \A o \in Reached(s, k), r \in Reached(s, k) :
        QubitId(o) = QubitId(r) => o = r

\* Borrowed ids are counted for every block that has them, and for those that failed.
LoansCounted(s, h) ==
    \A id \in DOMAIN h : h[id] > 0 => Cardinality(Loans(s, id)) <= h[id]

\* The live objects of an id that are above one in a block are in blocks further up.
AboveIsOpen(s, l) == \A p \in Places(s) : \A o \in ObjectsAt(s, p), r \in l :
    QubitId(o) = QubitId(r) /\ o[2] < r[2] =>
        \E q \in Places(s) : p[1] < q[1] /\ r \in ObjectsAt(s, q)

\* The numbers of an id's objects have no gaps.
NoGaps(l) == \A o \in l : \A n \in 0 .. o[2] - 1 : <<o[1], n>> \in l

StackInv ==
    /\ WellFounded(frames)
    /\ BlocksHold(frames, held, DOMAIN metrics)
    /\ BlocksDiffer(frames) /\ InputsAreLent(frames)
    /\ LoansCounted(frames, held)
    /\ failing \/ AboveIsOpen(frames, DOMAIN metrics)

ObjectInv ==
    /\ IsFiniteSet(DOMAIN metrics) /\ DOMAIN metrics \subseteq QubitObjects
    /\ IsFiniteSet(DOMAIN wires) /\ DOMAIN wires \subseteq Wires
    /\ wires \in [DOMAIN wires -> Seq(GateRecords)]
    /\ NoGaps(Numbered)
    /\ OptimizeDepth => DOMAIN wires \subseteq QubitObjects
    /\ \A o \in DOMAIN metrics : QubitId(o) < fresh /\ Wire(o) \in DOMAIN wires

TypeInv ==
    /\ configuration \in Configurations
    /\ fresh \in Nat /\ failing \in BOOLEAN
    /\ failing => Top > 1
    /\ held \in [DOMAIN held -> Nat] /\ DOMAIN held \subseteq 0 .. fresh - 1

-----------------------------------------------------------------------------
(* What the listeners know.                                                 *)

TimeInv ==
    /\ metrics \in [DOMAIN metrics -> [start : Starts, end : Times]]
    /\ \A o \in DOMAIN metrics : Before(metrics[o].start, metrics[o].end)

\* Calls are recorded down to the limit.
CallInv ==
    /\ Len(widthCalls) = IF Top <= configuration.CallStackDepthLimit THEN Top
                         ELSE configuration.CallStackDepthLimit + 1
    /\ Len(depthCalls) = Len(widthCalls)
    /\ depthCalls \in Seq(Range(depthCalls))
    /\ \A k \in 1 .. Len(depthCalls) : "inputs" \in DOMAIN depthCalls[k]
    /\ \A k \in 2 .. Len(depthCalls) : depthCalls[k].inputs = frames[k].inputs

WidthRecords ==
    [inputWidth : Nat, atStart : Nat, maxAllocated : Nat, currentBorrow : Int, maxBorrowed : Nat]

WidthInv ==
    /\ widthCalls \in Seq(WidthRecords)
    /\ allocatedQubits = Cardinality(DOMAIN held)
    /\ \A k \in DOMAIN frames : allocatedQubits <= frames[k].peak
    /\ \A k \in DOMAIN widthCalls :
        /\ \A j \in k .. Len(widthCalls) : widthCalls[j].maxAllocated <= frames[k].peak
        /\ \E j \in k .. Len(widthCalls) : widthCalls[j].maxAllocated = frames[k].peak

KnownOf(o) == constraint[o].of

ConstraintInv ==
    /\ DOMAIN constraint = DOMAIN metrics
    /\ constraint \in [DOMAIN constraint -> [of : Constraints \cup {None}, position : Nat]]
    /\ \A o \in DOMAIN constraint : KnownOf(o) # None =>
        /\ constraint[o].position \in DOMAIN KnownOf(o).qubits
        /\ KnownOf(o).qubits[constraint[o].position] = o

FactRecords == [of : Constraints, on : SUBSET QubitObjects, unmeasured : SUBSET QubitObjects]

\* A fact is about qubits that differ, and still says something of some of them.
IsFact(f) ==
    /\ f \in FactRecords /\ f.on # {} /\ f.on \subseteq Range(f.of.qubits)
    /\ \A i \in DOMAIN f.of.qubits, j \in DOMAIN f.of.qubits : f.of.qubits[i] = f.of.qubits[j] => i = j

\* Every constraint is from one fact, which says something of just the qubits that have it.
FactInv ==
    /\ \A f \in facts : IsFact(f) /\ \A o \in f.on : o \in DOMAIN constraint /\ KnownOf(o) = f.of
    /\ \A f \in facts, g \in facts : f.of = g.of => f = g
    /\ \A o \in DOMAIN constraint : KnownOf(o) # None => \E f \in facts : o \in f.on

StateInv == TypeInv /\ ObjectInv /\ StackInv

KnownInv == ConstraintInv /\ FactInv

Inv == StateInv /\ TimeInv /\ CallInv /\ WidthInv /\ KnownInv

-----------------------------------------------------------------------------
(* The stack.                                                               *)

\* s2 is s with the block b more, at p0 in the last frame.
Grows(s, s2, p0, b) ==
    /\ DOMAIN s2 = DOMAIN s /\ p0[1] = Len(s)
    /\ Places(s2) = Places(s) \cup {p0} /\ p0 \notin Places(s)
    /\ \A p \in Places(s) : BlockAt(s2, p) = BlockAt(s, p)
    /\ BlockAt(s2, p0) = b
    /\ \A k \in DOMAIN s : s2[k].inputs = s[k].inputs

\* s2 is s without the blocks at the places in gone, which are in the last frame.
Shrinks(s, s2, gone) ==
    /\ DOMAIN s2 \subseteq DOMAIN s
    /\ Places(s2) = Places(s) \ gone
    /\ \A p \in gone : p \in Places(s) /\ p[1] = Len(s)
    /\ \A p \in Places(s2) : BlockAt(s2, p) = BlockAt(s, p)
    /\ \A k \in DOMAIN s2 : s2[k].inputs = s[k].inputs

\* s2 is s with a frame more, which has no blocks yet.
Calls(s, s2, inputs) ==
    /\ DOMAIN s2 = 1 .. Len(s) + 1
    /\ Places(s2) = Places(s)
    /\ \A p \in Places(s) : BlockAt(s2, p) = BlockAt(s, p)
    /\ \A k \in DOMAIN s : s2[k].inputs = s[k].inputs
    /\ s2[Len(s) + 1].inputs = inputs

\* A frame's components.
LEMMA FrameParts ==
    ASSUME NEW s \in Seq(FrameRecords), NEW k \in 1 .. Len(s)
    PROVE  /\ s[k] \in FrameRecords
           /\ s[k].inputs \in SUBSET QubitObjects /\ s[k].blocks \in Seq(BlockRecords)
           /\ Len(s[k].blocks) \in Nat /\ DOMAIN s[k].blocks = 1 .. Len(s[k].blocks)
           /\ s[k].peak \in Nat
<1>1. s[k] \in FrameRecords
  BY ElementOfSeq
<1>2. /\ s[k].inputs \in SUBSET QubitObjects /\ s[k].blocks \in Seq(BlockRecords)
      /\ s[k].peak \in Nat
  BY <1>1 DEF FrameRecords
<1> QED
  BY <1>1, <1>2, LenProperties

\* What a place is.
LEMMA PlaceMeaning ==
    ASSUME NEW s, WellFounded(s), NEW p
    PROVE  /\ DOMAIN s = 1 .. Len(s) /\ Len(s) \in Nat
           /\ p \in Places(s) <=> \E k \in 1 .. Len(s) : \E i \in 1 .. Len(s[k].blocks) : p = <<k, i>>
           /\ p \in Places(s) => /\ p = <<p[1], p[2]>>
                                 /\ p[1] \in 1 .. Len(s) /\ p[2] \in 1 .. Len(s[p[1]].blocks)
                                 /\ s[p[1]].blocks \in Seq(BlockRecords)
                                 /\ BlockAt(s, p) \in BlockRecords
<1>1. s \in Seq(FrameRecords) /\ DOMAIN s = 1 .. Len(s) /\ Len(s) \in Nat
  BY DEF WellFounded
<1>2. ASSUME NEW k \in 1 .. Len(s)
      PROVE  s[k].blocks \in Seq(BlockRecords) /\ DOMAIN s[k].blocks = 1 .. Len(s[k].blocks)
  BY <1>1, FrameParts
<1>3. p \in Places(s) <=> \E k \in 1 .. Len(s) : \E i \in 1 .. Len(s[k].blocks) : p = <<k, i>>
  BY <1>1, <1>2 DEF Places
<1>4. ASSUME p \in Places(s)
      PROVE  /\ p = <<p[1], p[2]>>
             /\ p[1] \in 1 .. Len(s) /\ p[2] \in 1 .. Len(s[p[1]].blocks)
             /\ s[p[1]].blocks \in Seq(BlockRecords) /\ BlockAt(s, p) \in BlockRecords
  <2>1. PICK k \in 1 .. Len(s) : \E i \in 1 .. Len(s[k].blocks) : p = <<k, i>>
    BY <1>3, <1>4
  <2>2. PICK i \in 1 .. Len(s[k].blocks) : p = <<k, i>>
    BY <2>1
  <2>3. p[1] = k /\ p[2] = i /\ s[k].blocks[i] \in BlockRecords
    BY <2>2, <1>2
  <2> QED
    BY <2>2, <2>3, <1>2 DEF BlockAt
<1> QED
  BY <1>1, <1>3, <1>4

LEMMA PlaceExists ==
    ASSUME NEW s, WellFounded(s), NEW p
    PROVE  p \in Places(s) <=> \E k \in 1 .. Len(s) : \E i \in 1 .. Len(s[k].blocks) : p = <<k, i>>
BY PlaceMeaning

\* What a frame has in reach: its inputs and what its blocks hold.
LEMMA ReachedMeaning ==
    ASSUME NEW s, NEW k, NEW o
    PROVE  o \in Reached(s, k) <=>
             o \in s[k].inputs \/ \E p \in Places(s) : p[1] = k /\ o \in ObjectsAt(s, p)
BY DEF Reached

\* Reach is what the last frame has in reach.
LEMMA ReachIsReached ==
    ASSUME WellFounded(frames)
    PROVE  Reach = Reached(frames, Top)
<1>1. Top \in 1 .. Top /\ frames \in Seq(FrameRecords) /\ Top = Len(frames)
  BY LenProperties DEF WellFounded, Top
<1>2. frames[Top].blocks \in Seq(BlockRecords) /\ DOMAIN frames[Top].blocks = 1 .. Len(frames[Top].blocks)
  BY <1>1, FrameParts
<1>3. ASSUME NEW o
      PROVE  o \in Reach <=> o \in Reached(frames, Top)
  <2>1. o \in Reach <=> \/ o \in frames[Top].inputs
                        \/ \E i \in 1 .. Len(frames[Top].blocks) : o \in frames[Top].blocks[i].objects
    BY <1>2 DEF Reach, Range
  <2>2. ASSUME NEW i \in 1 .. Len(frames[Top].blocks)
        PROVE  <<Top, i>> \in Places(frames) /\ <<Top, i>>[1] = Top
               /\ ObjectsAt(frames, <<Top, i>>) = frames[Top].blocks[i].objects
    BY <1>1, PlaceMeaning DEF ObjectsAt, BlockAt
  <2>3. ASSUME NEW p \in Places(frames), p[1] = Top
        PROVE  p[2] \in 1 .. Len(frames[Top].blocks)
               /\ ObjectsAt(frames, p) = frames[Top].blocks[p[2]].objects
    BY <2>3, PlaceMeaning DEF ObjectsAt, BlockAt
  <2>4. (\E i \in 1 .. Len(frames[Top].blocks) : o \in frames[Top].blocks[i].objects)
            <=> \E p \in Places(frames) : p[1] = Top /\ o \in ObjectsAt(frames, p)
    BY <2>2, <2>3
  <2> QED
    BY <2>1, <2>4, ReachedMeaning
<1> QED
  BY <1>3

\* There are finitely many places.
LEMMA PlacesAreFinite ==
    ASSUME NEW s, WellFounded(s)
    PROVE  IsFiniteSet(Places(s))
<1>1. DOMAIN s = 1 .. Len(s) /\ Len(s) \in Nat /\ s \in Seq(FrameRecords)
  BY DEF WellFounded
<1> DEFINE Parts == {{k} \X DOMAIN s[k].blocks : k \in DOMAIN s}
<1>2. IsFiniteSet(DOMAIN s)
  BY <1>1, FS_Interval
<1>3. IsFiniteSet(Parts)
  <2> DEFINE part == [k \in DOMAIN s |-> {k} \X DOMAIN s[k].blocks]
  <2>1. part \in Surjection(DOMAIN s, Parts)
    BY DEF Surjection
  <2> QED
    BY <2>1, <1>2, FS_Surjection
<1>4. ASSUME NEW P \in Parts
      PROVE  IsFiniteSet(P)
  <2>1. PICK k \in DOMAIN s : P = {k} \X DOMAIN s[k].blocks
    OBVIOUS
  <2>2. s[k].blocks \in Seq(BlockRecords)
    BY <1>1, FrameParts
  <2>3. IsFiniteSet(DOMAIN s[k].blocks)
    BY <2>2, FS_Interval, LenProperties
  <2> QED
    BY <2>1, <2>3, FS_Product, FS_Singleton
<1> QED
  BY <1>3, <1>4, FS_UNION DEF Places

-----------------------------------------------------------------------------
(* What growing and shrinking keep.                                         *)

IdsOf(objects) == {QubitId(o) : o \in objects}

\* New objects: one for an id, of ids out of reach, with numbers above all live ones.
NewObjects(s, l, objects) ==
    /\ \A o \in objects, r \in objects : QubitId(o) = QubitId(r) => o = r
    /\ \A o \in objects, r \in Reached(s, Len(s)) : QubitId(o) # QubitId(r)
    /\ \A o \in objects, r \in l : QubitId(o) = QubitId(r) => r[2] < o[2]

\* What a block adds to the ids in use.
HeldMore(h, h2, b) ==
    /\ DOMAIN h2 = DOMAIN h \cup IdsOf(b.objects)
    /\ h \in [DOMAIN h -> Nat]
    /\ \A id \in DOMAIN h : h2[id] = IF b.kind = "borrow" /\ id \in IdsOf(b.objects) /\ h[id] > 0
                                     THEN h[id] + 1 ELSE h[id]
    /\ \A id \in IdsOf(b.objects) \ DOMAIN h : h2[id] = IF b.kind = "use" THEN 0 ELSE 1
    /\ b.kind = "use" => IdsOf(b.objects) \cap DOMAIN h = {}

\* The ids that ending a block gives up.
GivenUp(h, b) == {id \in IdsOf(b.objects) : b.kind = "use" \/ h[id] = 1}

\* What ending a block takes from the ids in use.
HeldLess(h, h2, b) ==
    /\ h \in [DOMAIN h -> Nat]
    /\ DOMAIN h2 = DOMAIN h \ GivenUp(h, b)
    /\ \A id \in DOMAIN h2 : h2[id] = IF id \in IdsOf(b.objects) /\ h[id] > 0
                                      THEN h[id] - 1 ELSE h[id]

StackSound(s, h, l) ==
    /\ WellFounded(s) /\ BlocksHold(s, h, l) /\ BlocksDiffer(s)
    /\ InputsAreLent(s) /\ LoansCounted(s, h)

\* A block that is opened.
LEMMA GrowthKeepsHolding ==
    ASSUME NEW s, NEW s2, NEW p0, NEW b, NEW h, NEW h2, NEW l,
           StackSound(s, h, l), Grows(s, s2, p0, b), HeldMore(h, h2, b), b.kind \in Kinds
    PROVE  BlocksHold(s2, h2, l \cup b.objects)
<1> SUFFICES ASSUME NEW p \in Places(s2), NEW o \in ObjectsAt(s2, p)
             PROVE  /\ o \in l \cup b.objects /\ QubitId(o) \in DOMAIN h2
                    /\ BlockAt(s2, p).kind = "use" => h2[QubitId(o)] = 0
  BY DEF BlocksHold
<1>1. CASE p = p0
  <2>1. o \in b.objects /\ BlockAt(s2, p) = b
    BY <1>1 DEF Grows, ObjectsAt
  <2>2. QubitId(o) \in IdsOf(b.objects)
    BY <2>1 DEF IdsOf
  <2> QED
    BY <2>1, <2>2 DEF HeldMore
<1>2. CASE p # p0
  <2>1. p \in Places(s) /\ BlockAt(s2, p) = BlockAt(s, p) /\ o \in ObjectsAt(s, p)
    BY <1>2 DEF Grows, ObjectsAt
  <2>2. /\ o \in l /\ QubitId(o) \in DOMAIN h
        /\ BlockAt(s, p).kind = "use" => h[QubitId(o)] = 0
    BY <2>1 DEF StackSound, BlocksHold
  <2> QED
    BY <2>1, <2>2 DEF HeldMore
<1> QED
  BY <1>1, <1>2

LEMMA GrowthKeepsDiffering ==
    ASSUME NEW s, NEW s2, NEW p0, NEW b, NEW h, NEW h2, NEW l,
           StackSound(s, h, l), Grows(s, s2, p0, b), HeldMore(h, h2, b),
           NewObjects(s, l, b.objects)
    PROVE  BlocksDiffer(s2)
<1>1. Len(s) \in Nat /\ \A p \in Places(s) : p[1] \in 1 .. Len(s)
  BY PlaceMeaning DEF StackSound
<1>2. ASSUME NEW p \in Places(s), NEW o \in ObjectsAt(s, p), NEW r \in b.objects,
             QubitId(o) = QubitId(r)
      PROVE  b.kind # "use" /\ p[1] # Len(s) /\ ~ Len(s) < p[1] /\ o[2] < r[2]
  <2>1. QubitId(o) \in DOMAIN h
    BY DEF StackSound, BlocksHold
  <2>2. QubitId(o) \in IdsOf(b.objects)
    BY <1>2 DEF IdsOf
  <2>3. b.kind # "use"
    BY <2>1, <2>2 DEF HeldMore
  <2>4. o \notin Reached(s, Len(s)) /\ o \in l
    BY <1>2 DEF NewObjects, StackSound, BlocksHold
  <2>5. p[1] # Len(s)
    BY <2>4, ReachedMeaning
  <2> QED
    BY <1>1, <1>2, <2>3, <2>4, <2>5 DEF NewObjects
<1>3. ASSUME NEW p \in Places(s2), NEW q \in Places(s2),
             NEW o \in ObjectsAt(s2, p), NEW r \in ObjectsAt(s2, q), QubitId(o) = QubitId(r)
      PROVE  /\ p[1] = q[1] => p = q /\ o = r
             /\ p[1] < q[1] => o[2] < r[2]
             /\ p # q /\ BlockAt(s2, p).kind = "use" => p[1] < q[1]
  <2>1. CASE p # p0 /\ q # p0
    <3>1. /\ p \in Places(s) /\ q \in Places(s) /\ BlockAt(s2, p) = BlockAt(s, p)
          /\ o \in ObjectsAt(s, p) /\ r \in ObjectsAt(s, q)
      BY <2>1 DEF Grows, ObjectsAt
    <3> QED
      BY <3>1, <1>3 DEF StackSound, BlocksDiffer
  <2>2. CASE p # p0 /\ q = p0
    <3>1. /\ p \in Places(s) /\ BlockAt(s2, p) = BlockAt(s, p) /\ q[1] = Len(s)
          /\ o \in ObjectsAt(s, p) /\ r \in b.objects
      BY <2>2 DEF Grows, ObjectsAt
    <3>2. p[1] # Len(s) /\ ~ Len(s) < p[1] /\ o[2] < r[2]
      BY <3>1, <1>2, <1>3
    <3> QED
      BY <3>1, <3>2, <1>1
  <2>3. CASE p = p0 /\ q # p0
    <3>1. /\ q \in Places(s) /\ BlockAt(s2, p) = b /\ p[1] = Len(s)
          /\ r \in ObjectsAt(s, q) /\ o \in b.objects
      BY <2>3 DEF Grows, ObjectsAt
    <3>2. b.kind # "use" /\ q[1] # Len(s) /\ ~ Len(s) < q[1]
      BY <3>1, <1>2, <1>3
    <3> QED
      BY <3>1, <3>2
  <2>4. CASE p = p0 /\ q = p0
    <3>1. o \in b.objects /\ r \in b.objects /\ p[1] = Len(s) /\ q[1] = Len(s)
      BY <2>4 DEF Grows, ObjectsAt
    <3> QED
      BY <2>4, <3>1, <1>1, <1>3 DEF NewObjects
  <2> QED
    BY <2>1, <2>2, <2>3, <2>4
<1> QED
  BY <1>3 DEF BlocksDiffer

LEMMA GrowthKeepsInputs ==
    ASSUME NEW s, NEW s2, NEW p0, NEW b, NEW h, NEW l,
           StackSound(s, h, l), Grows(s, s2, p0, b), NewObjects(s, l, b.objects)
    PROVE  InputsAreLent(s2)
<1>1. ASSUME NEW k \in DOMAIN s2, NEW o \in s2[k].inputs
      PROVE  \E p \in Places(s2) : p[1] < k /\ o \in ObjectsAt(s2, p)
  <2>1. k \in DOMAIN s /\ o \in s[k].inputs
    BY DEF Grows
  <2>2. PICK p \in Places(s) : p[1] < k /\ o \in ObjectsAt(s, p)
    BY <2>1 DEF StackSound, InputsAreLent
  <2> QED
    BY <2>2 DEF Grows, ObjectsAt
<1>2. ASSUME NEW k \in DOMAIN s2, NEW o \in Reached(s2, k)
      PROVE  o \in Reached(s, k) \/ (k = Len(s) /\ o \in b.objects)
  <2>1. CASE o \in s2[k].inputs
    <3>1. o \in s[k].inputs
      BY <2>1 DEF Grows
    <3> QED
      BY <3>1, ReachedMeaning
  <2>2. ASSUME NEW p \in Places(s2), p[1] = k, o \in ObjectsAt(s2, p)
        PROVE  o \in Reached(s, k) \/ (k = Len(s) /\ o \in b.objects)
    <3>1. CASE p = p0
      BY <2>2, <3>1 DEF Grows, ObjectsAt
    <3>2. CASE p # p0
      <4>1. p \in Places(s) /\ o \in ObjectsAt(s, p)
        BY <2>2, <3>2 DEF Grows, ObjectsAt
      <4> QED
        BY <2>2, <4>1, ReachedMeaning
    <3> QED
      BY <3>1, <3>2
  <2> QED
    BY <2>1, <2>2, ReachedMeaning
<1>3. ASSUME NEW k \in DOMAIN s2, NEW o \in Reached(s2, k), NEW r \in Reached(s2, k),
             QubitId(o) = QubitId(r)
      PROVE  o = r
  <2>1. k \in DOMAIN s
    BY DEF Grows
  <2>2. /\ o \in Reached(s, k) \/ (k = Len(s) /\ o \in b.objects)
        /\ r \in Reached(s, k) \/ (k = Len(s) /\ r \in b.objects)
    BY <1>2
  <2> QED
    BY <1>3, <2>1, <2>2 DEF StackSound, InputsAreLent, NewObjects
<1> QED
  BY <1>1, <1>3 DEF InputsAreLent

LEMMA GrowthKeepsCounts ==
    ASSUME NEW s, NEW s2, NEW p0, NEW b, NEW h, NEW h2, NEW l,
           StackSound(s, h, l), Grows(s, s2, p0, b), HeldMore(h, h2, b), b.kind \in Kinds
    PROVE  LoansCounted(s2, h2)
<1> SUFFICES ASSUME NEW id \in DOMAIN h2, h2[id] > 0
             PROVE  Cardinality(Loans(s2, id)) <= h2[id]
  BY DEF LoansCounted
<1>1. IsFiniteSet(Loans(s, id)) /\ Cardinality(Loans(s, id)) \in Nat
  <2>1. IsFiniteSet(Places(s)) /\ Loans(s, id) \in SUBSET Places(s)
    BY PlacesAreFinite DEF StackSound, Loans
  <2> QED
    BY <2>1, FS_Subset, FS_CardinalityType
<1>2. Loans(s2, id) = IF b.kind = "borrow" /\ id \in IdsOf(b.objects)
                      THEN Loans(s, id) \cup {p0} ELSE Loans(s, id)
  <2>1. ASSUME NEW p \in Places(s)
        PROVE  p \in Loans(s2, id) <=> p \in Loans(s, id)
    BY DEF Loans, Grows, ObjectsAt
  <2>2. p0 \in Loans(s2, id) <=> b.kind = "borrow" /\ id \in IdsOf(b.objects)
    BY DEF Loans, Grows, ObjectsAt, IdsOf
  <2>3. Loans(s2, id) \subseteq Places(s) \cup {p0} /\ Loans(s, id) \subseteq Places(s)
    BY DEF Loans, Grows
  <2> QED
    BY <2>1, <2>2, <2>3
<1>3. Cardinality(Loans(s2, id)) <= IF b.kind = "borrow" /\ id \in IdsOf(b.objects)
                                    THEN Cardinality(Loans(s, id)) + 1
                                    ELSE Cardinality(Loans(s, id))
  <2>1. Cardinality(Loans(s, id) \cup {p0}) = IF p0 \in Loans(s, id) THEN Cardinality(Loans(s, id))
                                              ELSE Cardinality(Loans(s, id)) + 1
    BY <1>1, FS_AddElement
  <2> QED
    BY <1>1, <1>2, <2>1
<1>4. Cardinality(Loans(s2, id)) \in Nat
  BY <1>1, <1>2, FS_AddElement, FS_CardinalityType
<1>5. CASE id \in DOMAIN h
  <2>1. h[id] \in Nat /\ (h[id] > 0 => Cardinality(Loans(s, id)) <= h[id])
    BY <1>5 DEF StackSound, LoansCounted, HeldMore
  <2>2. h2[id] = IF b.kind = "borrow" /\ id \in IdsOf(b.objects) /\ h[id] > 0
                 THEN h[id] + 1 ELSE h[id]
    BY <1>5 DEF HeldMore
  <2>3. h[id] > 0
    BY <2>1, <2>2
  <2> QED
    BY <1>1, <1>3, <1>4, <2>1, <2>2, <2>3
<1>6. CASE id \notin DOMAIN h
  <2>1. id \in IdsOf(b.objects) /\ h2[id] = IF b.kind = "use" THEN 0 ELSE 1
    BY <1>6 DEF HeldMore
  <2>2. Loans(s, id) = {}
    BY <1>6 DEF Loans, StackSound, BlocksHold
  <2>3. h2[id] = 1 /\ Cardinality(Loans(s, id)) = 0
    BY <2>1, <2>2, FS_EmptySet
  <2> QED
    BY <1>1, <1>3, <1>4, <2>3
<1> QED
  BY <1>5, <1>6

LEMMA GrowthKeepsOrder ==
    ASSUME NEW s, NEW s2, NEW p0, NEW b, NEW h, NEW l, l \subseteq QubitObjects,
           b.objects \subseteq QubitObjects,
           StackSound(s, h, l), Grows(s, s2, p0, b), NewObjects(s, l, b.objects), AboveIsOpen(s, l)
    PROVE  AboveIsOpen(s2, l \cup b.objects)
<1> SUFFICES ASSUME NEW p \in Places(s2), NEW o \in ObjectsAt(s2, p), NEW r \in l \cup b.objects,
                    QubitId(o) = QubitId(r), o[2] < r[2]
             PROVE  \E q \in Places(s2) : p[1] < q[1] /\ r \in ObjectsAt(s2, q)
  BY DEF AboveIsOpen
<1>1. \A q \in Places(s) : q[1] \in 1 .. Len(s) /\ Len(s) \in Nat
  BY PlaceMeaning DEF StackSound
<1>2. CASE p = p0
  <2>1. o \in b.objects
    BY <1>2 DEF Grows, ObjectsAt
  <2>2. o[2] \in Nat /\ r[2] \in Nat
    BY <2>1 DEF QubitObjects
  <2> QED
    BY <2>1, <2>2 DEF NewObjects
<1>3. CASE p # p0 /\ r \in l
  <2>1. p \in Places(s) /\ o \in ObjectsAt(s, p)
    BY <1>3 DEF Grows, ObjectsAt
  <2>2. PICK q \in Places(s) : p[1] < q[1] /\ r \in ObjectsAt(s, q)
    BY <1>3, <2>1 DEF AboveIsOpen
  <2> QED
    BY <2>2 DEF Grows, ObjectsAt
<1>4. CASE p # p0 /\ r \in b.objects
  <2>1. p \in Places(s) /\ o \in ObjectsAt(s, p)
    BY <1>4 DEF Grows, ObjectsAt
  <2>2. o \notin Reached(s, Len(s))
    BY <1>4 DEF NewObjects
  <2>3. p[1] # Len(s)
    BY <2>1, <2>2, ReachedMeaning
  <2>4. p[1] < p0[1] /\ p0 \in Places(s2) /\ r \in ObjectsAt(s2, p0)
    BY <1>1, <1>4, <2>1, <2>3 DEF Grows, ObjectsAt
  <2> QED
    BY <2>4
<1> QED
  BY <1>2, <1>3, <1>4

\* What is left of a smaller stack.
LEMMA ShrinkingMeaning ==
    ASSUME NEW s, NEW s2, NEW gone, Shrinks(s, s2, gone), WellFounded(s)
    PROVE  /\ \A p \in Places(s2) : /\ p \in Places(s) /\ p \notin gone
                                  /\ ObjectsAt(s2, p) = ObjectsAt(s, p)
                                  /\ BlockAt(s2, p) = BlockAt(s, p)
           /\ \A k \in DOMAIN s2 : \A o \in Reached(s2, k) : o \in Reached(s, k)
           /\ \A id : Loans(s2, id) = Loans(s, id) \ gone
<1>1. \A p \in Places(s2) : /\ p \in Places(s) /\ p \notin gone
                            /\ ObjectsAt(s2, p) = ObjectsAt(s, p)
                            /\ BlockAt(s2, p) = BlockAt(s, p)
  BY DEF Shrinks, ObjectsAt
<1>2. ASSUME NEW k \in DOMAIN s2, NEW o \in Reached(s2, k)
      PROVE  o \in Reached(s, k)
  <2>1. s2[k].inputs = s[k].inputs
    BY DEF Shrinks
  <2> QED
    BY <1>1, <2>1, ReachedMeaning
<1>3. ASSUME NEW id
      PROVE  Loans(s2, id) = Loans(s, id) \ gone
  <2>1. Places(s2) = Places(s) \ gone
    BY DEF Shrinks
  <2> QED
    BY <1>1, <2>1 DEF Loans
<1> QED
  BY <1>1, <1>2, <1>3

LEMMA ShrinkingKeepsShape ==
    ASSUME NEW s, NEW s2, NEW gone, NEW h, NEW l,
           StackSound(s, h, l), Shrinks(s, s2, gone)
    PROVE  BlocksDiffer(s2) /\ InputsAreLent(s2)
<1>1. WellFounded(s)
  BY DEF StackSound
<1>2. \A p \in Places(s2) : /\ p \in Places(s) /\ p \notin gone
                            /\ ObjectsAt(s2, p) = ObjectsAt(s, p)
                            /\ BlockAt(s2, p) = BlockAt(s, p)
  BY <1>1, ShrinkingMeaning
<1>3. BlocksDiffer(s2)
  BY <1>2 DEF BlocksDiffer, StackSound
<1>4. ASSUME NEW k \in DOMAIN s2, NEW o \in s2[k].inputs
      PROVE  \E p \in Places(s2) : p[1] < k /\ o \in ObjectsAt(s2, p)
  <2>1. k \in DOMAIN s /\ o \in s[k].inputs /\ k \in 1 .. Len(s) /\ Len(s) \in Nat
    BY <1>1, PlaceMeaning DEF Shrinks
  <2>2. PICK p \in Places(s) : p[1] < k /\ o \in ObjectsAt(s, p)
    BY <2>1 DEF StackSound, InputsAreLent
  <2>3. p \notin gone
    BY <2>1, <2>2 DEF Shrinks
  <2>4. p \in Places(s2)
    BY <2>3 DEF Shrinks
  <2> QED
    BY <1>2, <2>2, <2>4
<1>5. ASSUME NEW k \in DOMAIN s2, NEW o \in Reached(s2, k), NEW r \in Reached(s2, k),
             QubitId(o) = QubitId(r)
      PROVE  o = r
  <2>1. k \in DOMAIN s /\ o \in Reached(s, k) /\ r \in Reached(s, k)
    BY <1>1, ShrinkingMeaning DEF Shrinks
  <2> QED
    BY <1>5, <2>1 DEF StackSound, InputsAreLent
<1> QED
  BY <1>3, <1>4, <1>5 DEF InputsAreLent

\* Frames that end with what they hold, and calls that begin, change nothing else.
LEMMA FailureKeepsStack ==
    ASSUME NEW s, NEW s2, NEW gone, NEW h, NEW l, h \in [DOMAIN h -> Nat],
           StackSound(s, h, l), Shrinks(s, s2, gone), WellFounded(s2)
    PROVE  StackSound(s2, h, l)
<1>1. WellFounded(s)
  BY DEF StackSound
<1>2. BlocksHold(s2, h, l)
  <2>1. \A p \in Places(s2) : /\ p \in Places(s) /\ ObjectsAt(s2, p) = ObjectsAt(s, p)
                              /\ BlockAt(s2, p) = BlockAt(s, p)
    BY <1>1, ShrinkingMeaning
  <2> QED
    BY <2>1 DEF BlocksHold, StackSound
<1>3. ASSUME NEW id \in DOMAIN h, h[id] > 0
      PROVE  Cardinality(Loans(s2, id)) <= h[id]
  <2>1. Cardinality(Loans(s, id)) <= h[id] /\ h[id] \in Nat
    BY <1>3 DEF StackSound, LoansCounted
  <2>2. Loans(s2, id) \in SUBSET Loans(s, id) /\ Loans(s, id) \in SUBSET Places(s)
    BY <1>1, ShrinkingMeaning DEF Loans
  <2>3. IsFiniteSet(Loans(s, id))
    BY <1>1, <2>2, PlacesAreFinite, FS_Subset
  <2>4. Cardinality(Loans(s2, id)) <= Cardinality(Loans(s, id)) /\ IsFiniteSet(Loans(s2, id))
    BY <2>2, <2>3, FS_Subset
  <2> QED
    BY <2>1, <2>3, <2>4, FS_CardinalityType
<1> QED
  BY <1>2, <1>3, ShrinkingKeepsShape DEF StackSound, LoansCounted

\* A block of the last frame that ends takes its objects and ids along, and no other block's.
LEMMA EndingKeepsOthers ==
    ASSUME NEW s, NEW h, NEW l, StackSound(s, h, l), h \in [DOMAIN h -> Nat],
           NEW p0 \in Places(s), p0[1] = Len(s),
           NEW p \in Places(s), p # p0, NEW o \in ObjectsAt(s, p)
    PROVE  /\ o \notin ObjectsAt(s, p0)
           /\ QubitId(o) \notin GivenUp(h, BlockAt(s, p0))
<1>1. WellFounded(s) /\ BlocksDiffer(s)
  BY DEF StackSound
<1>2. p[1] \in 1 .. Len(s) /\ Len(s) \in Nat
  BY <1>1, PlaceMeaning
<1>3. ASSUME NEW r \in ObjectsAt(s, p0), QubitId(o) = QubitId(r)
      PROVE  o[2] < r[2] /\ BlockAt(s, p0).kind # "use"
  <2>1. /\ p[1] = p0[1] => p = p0
        /\ p[1] < p0[1] => o[2] < r[2]
    BY <1>1, <1>3 DEF BlocksDiffer
  <2>2. BlockAt(s, p0).kind = "use" => p0[1] < p[1]
    BY <1>1, <1>3 DEF BlocksDiffer
  <2> QED
    BY <1>2, <2>1, <2>2
<1>4. WellFounded(s) /\ BlockAt(s, p0) \in BlockRecords /\ BlockAt(s, p) \in BlockRecords
  BY <1>1, PlaceMeaning
<1>5. \A r \in ObjectsAt(s, p0) : r[2] \in Nat
  BY <1>4 DEF ObjectsAt, BlockRecords, QubitObjects
<1>6. o \notin ObjectsAt(s, p0)
  BY <1>3, <1>5
<1>7. ASSUME QubitId(o) \in GivenUp(h, BlockAt(s, p0))
      PROVE  FALSE
  <2>1. PICK r \in ObjectsAt(s, p0) : QubitId(o) = QubitId(r)
    BY <1>7 DEF GivenUp, IdsOf, ObjectsAt
  <2> DEFINE id == QubitId(o)
  <2>2. BlockAt(s, p0).kind # "use" /\ h[id] = 1 /\ id \in DOMAIN h
    BY <1>3, <1>7, <2>1 DEF GivenUp, StackSound, BlocksHold
  <2>3. BlockAt(s, p).kind # "use"
    BY <2>2 DEF StackSound, BlocksHold
  <2>4. p0 \in Loans(s, id) /\ p \in Loans(s, id)
    BY <1>4, <2>1, <2>2, <2>3 DEF Loans, BlockRecords, Kinds
  <2>5. Cardinality(Loans(s, id)) <= 1
    BY <2>2 DEF StackSound, LoansCounted
  <2>6. IsFiniteSet(Loans(s, id))
    <3>1. IsFiniteSet(Places(s)) /\ Loans(s, id) \in SUBSET Places(s)
      BY <1>1, PlacesAreFinite DEF Loans
    <3> QED
      BY <3>1, FS_Subset
  <2>7. Cardinality({p0, p}) <= Cardinality(Loans(s, id)) /\ Cardinality(Loans(s, id)) \in Nat
    BY <2>4, <2>6, FS_Subset, FS_CardinalityType
  <2>8. Cardinality({p0, p}) = 2
    <3>1. IsFiniteSet({p0}) /\ Cardinality({p0}) = 1
      BY FS_Singleton
    <3>2. {p0} \cup {p} = {p0, p} /\ p \notin {p0}
      OBVIOUS
    <3>3. Cardinality({p0} \cup {p}) = Cardinality({p0}) + 1
      BY <3>1, <3>2, FS_AddElement
    <3>4. Cardinality({p0, p}) = 1 + 1
      BY <3>1, <3>2, <3>3
    <3> QED
      BY <3>4
  <2> QED
    BY <2>5, <2>7, <2>8
<1> QED
  BY <1>6, <1>7

\* A block that ends.
LEMMA EndingKeepsStack ==
    ASSUME NEW s, NEW s2, NEW h, NEW h2, NEW l, StackSound(s, h, l),
           NEW p0 \in Places(s), p0[1] = Len(s), Shrinks(s, s2, {p0}),
           HeldLess(h, h2, BlockAt(s, p0)), WellFounded(s2)
    PROVE  StackSound(s2, h2, l \ ObjectsAt(s, p0))
<1> DEFINE b == BlockAt(s, p0)
<1>1. WellFounded(s) /\ h \in [DOMAIN h -> Nat] /\ b.objects = ObjectsAt(s, p0)
  BY DEF StackSound, HeldLess, ObjectsAt
<1>2. /\ DOMAIN h2 = DOMAIN h \ GivenUp(h, b)
      /\ \A id \in DOMAIN h2 : h2[id] = IF id \in IdsOf(b.objects) /\ h[id] > 0
                                        THEN h[id] - 1 ELSE h[id]
  BY DEF HeldLess
<1> HIDE DEF b
<1>3. \A p \in Places(s2) : /\ p \in Places(s) /\ p # p0
                            /\ ObjectsAt(s2, p) = ObjectsAt(s, p)
                            /\ BlockAt(s2, p) = BlockAt(s, p)
  BY <1>1, ShrinkingMeaning
<1>4. BlocksHold(s2, h2, l \ ObjectsAt(s, p0))
  <2> SUFFICES ASSUME NEW p \in Places(s2), NEW o \in ObjectsAt(s2, p)
               PROVE  /\ o \in l \ ObjectsAt(s, p0) /\ QubitId(o) \in DOMAIN h2
                      /\ BlockAt(s2, p).kind = "use" => h2[QubitId(o)] = 0
    BY DEF BlocksHold
  <2>1. /\ o \in l /\ QubitId(o) \in DOMAIN h
        /\ BlockAt(s2, p).kind = "use" => h[QubitId(o)] = 0
    BY <1>3 DEF StackSound, BlocksHold
  <2>2. o \notin ObjectsAt(s, p0) /\ QubitId(o) \notin GivenUp(h, b)
    BY <1>1, <1>3, EndingKeepsOthers DEF b
  <2> QED
    BY <1>2, <2>1, <2>2
<1>5. ASSUME NEW id \in DOMAIN h2, h2[id] > 0
      PROVE  Cardinality(Loans(s2, id)) <= h2[id]
  <2>1. id \in DOMAIN h /\ h[id] \in Nat /\ h[id] > 0
    BY <1>1, <1>2, <1>5
  <2>2. Cardinality(Loans(s, id)) <= h[id]
    BY <2>1 DEF StackSound, LoansCounted
  <2>3. Loans(s2, id) = Loans(s, id) \ {p0}
    BY <1>1, ShrinkingMeaning
  <2>4. IsFiniteSet(Loans(s, id)) /\ Cardinality(Loans(s, id)) \in Nat
    <3>1. IsFiniteSet(Places(s)) /\ Loans(s, id) \in SUBSET Places(s)
      BY <1>1, PlacesAreFinite DEF Loans
    <3> QED
      BY <3>1, FS_Subset, FS_CardinalityType
  <2>5. Cardinality(Loans(s2, id)) = IF p0 \in Loans(s, id) THEN Cardinality(Loans(s, id)) - 1
                                     ELSE Cardinality(Loans(s, id))
    BY <2>3, <2>4, FS_RemoveElement
  <2>6. CASE id \in IdsOf(b.objects)
    <3>1. b.kind # "use"
      BY <1>2, <2>6 DEF GivenUp
    <3>2. b.kind = "borrow"
      BY <1>1, <3>1, PlaceMeaning DEF b, BlockRecords, Kinds
    <3>3. p0 \in Loans(s, id)
      BY <1>1, <2>6, <3>2 DEF Loans, IdsOf, b
    <3> QED
      BY <1>2, <2>1, <2>2, <2>4, <2>5, <2>6, <3>3
  <2>7. CASE id \notin IdsOf(b.objects)
    <3>1. h2[id] = h[id]
      BY <1>2, <2>7
    <3> QED
      BY <2>1, <2>2, <2>4, <2>5, <3>1
  <2> QED
    BY <2>6, <2>7
<1> QED
  BY <1>4, <1>5, ShrinkingKeepsShape DEF StackSound, LoansCounted

\* Objects that end are the last of their ids.
LEMMA EndingKeepsOrder ==
    ASSUME NEW s, NEW s2, NEW h, NEW l, StackSound(s, h, l), AboveIsOpen(s, l),
           NEW p0 \in Places(s), p0[1] = Len(s), Shrinks(s, s2, {p0})
    PROVE  /\ AboveIsOpen(s2, l \ ObjectsAt(s, p0))
           /\ \A o \in ObjectsAt(s, p0), r \in l : QubitId(o) = QubitId(r) => ~ o[2] < r[2]
<1>1. WellFounded(s) /\ \A q \in Places(s) : q[1] \in 1 .. Len(s) /\ Len(s) \in Nat
  BY PlaceMeaning DEF StackSound
<1>2. \A p \in Places(s2) : p \in Places(s) /\ ObjectsAt(s2, p) = ObjectsAt(s, p)
  BY <1>1, ShrinkingMeaning
<1>3. ASSUME NEW p \in Places(s2), NEW o \in ObjectsAt(s2, p), NEW r \in l \ ObjectsAt(s, p0),
             QubitId(o) = QubitId(r), o[2] < r[2]
      PROVE  \E q \in Places(s2) : p[1] < q[1] /\ r \in ObjectsAt(s2, q)
  <2>1. PICK q \in Places(s) : p[1] < q[1] /\ r \in ObjectsAt(s, q)
    BY <1>2, <1>3 DEF AboveIsOpen
  <2>2. q # p0
    BY <2>1
  <2>3. q \in Places(s2)
    BY <2>2 DEF Shrinks
  <2> QED
    BY <1>2, <2>1, <2>3
<1>4. ASSUME NEW o \in ObjectsAt(s, p0), NEW r \in l, QubitId(o) = QubitId(r), o[2] < r[2]
      PROVE  FALSE
  <2>1. PICK q \in Places(s) : p0[1] < q[1]
    BY <1>4 DEF AboveIsOpen
  <2> QED
    BY <1>1, <2>1
<1> QED
  BY <1>3, <1>4 DEF AboveIsOpen

\* A call that begins.
LEMMA CallKeepsStack ==
    ASSUME NEW s, NEW s2, NEW inputs, NEW h, NEW l, StackSound(s, h, l), Calls(s, s2, inputs),
           inputs \subseteq Reached(s, Len(s)), WellFounded(s2)
    PROVE  /\ StackSound(s2, h, l)
           /\ AboveIsOpen(s, l) => AboveIsOpen(s2, l)
<1>1. /\ WellFounded(s) /\ DOMAIN s = 1 .. Len(s) /\ Len(s) \in Nat \ {0}
      /\ \A p \in Places(s) : p[1] \in 1 .. Len(s)
  BY PlaceMeaning DEF StackSound, WellFounded
<1>2. /\ Places(s2) = Places(s) /\ DOMAIN s2 = 1 .. Len(s) + 1
      /\ \A p \in Places(s) : BlockAt(s2, p) = BlockAt(s, p) /\ ObjectsAt(s2, p) = ObjectsAt(s, p)
      /\ \A k \in 1 .. Len(s) : s2[k].inputs = s[k].inputs
      /\ s2[Len(s) + 1].inputs = inputs
  BY <1>1 DEF Calls, ObjectsAt
<1>3. BlocksHold(s2, h, l) /\ BlocksDiffer(s2)
  BY <1>2 DEF BlocksHold, BlocksDiffer, StackSound
<1>4. LoansCounted(s2, h)
  <2>1. \A id : Loans(s2, id) = Loans(s, id)
    BY <1>2 DEF Loans
  <2> QED
    BY <2>1 DEF LoansCounted, StackSound
<1>5. AboveIsOpen(s, l) => AboveIsOpen(s2, l)
  BY <1>2 DEF AboveIsOpen
<1>6. ASSUME NEW o \in inputs
      PROVE  \E p \in Places(s) : p[1] < Len(s) + 1 /\ o \in ObjectsAt(s, p)
  <2>1. CASE o \in s[Len(s)].inputs
    <3>1. PICK p \in Places(s) : p[1] < Len(s) /\ o \in ObjectsAt(s, p)
      BY <1>1, <2>1 DEF StackSound, InputsAreLent
    <3> QED
      BY <1>1, <3>1
  <2>2. CASE o \notin s[Len(s)].inputs
    BY <1>1, <2>2, ReachedMeaning
  <2> QED
    BY <2>1, <2>2
<1>7. ASSUME NEW k \in DOMAIN s2, NEW o \in s2[k].inputs
      PROVE  \E p \in Places(s2) : p[1] < k /\ o \in ObjectsAt(s2, p)
  <2>1. CASE k = Len(s) + 1
    BY <1>2, <1>6, <2>1
  <2>2. CASE k # Len(s) + 1
    <3>1. k \in 1 .. Len(s) /\ o \in s[k].inputs
      BY <1>1, <1>2, <2>2
    <3>2. PICK p \in Places(s) : p[1] < k /\ o \in ObjectsAt(s, p)
      BY <1>1, <3>1 DEF StackSound, InputsAreLent
    <3> QED
      BY <1>2, <3>2
  <2> QED
    BY <2>1, <2>2
<1>8. ASSUME NEW k \in DOMAIN s2, NEW o \in Reached(s2, k)
      PROVE  o \in Reached(s, IF k = Len(s) + 1 THEN Len(s) ELSE k)
  <2>1. CASE k = Len(s) + 1
    <3>1. \A p \in Places(s2) : p[1] # k
      BY <1>1, <1>2, <2>1
    <3>2. o \in inputs
      BY <1>2, <2>1, <3>1, ReachedMeaning
    <3> QED
      BY <2>1, <3>2
  <2>2. CASE k # Len(s) + 1
    <3>1. s2[k].inputs = s[k].inputs
      BY <1>1, <1>2, <2>2
    <3>2. o \in Reached(s, k)
      BY <1>2, <3>1, ReachedMeaning
    <3> QED
      BY <2>2, <3>2
  <2> QED
    BY <2>1, <2>2
<1>9. ASSUME NEW k \in DOMAIN s2, NEW o \in Reached(s2, k), NEW r \in Reached(s2, k),
             QubitId(o) = QubitId(r)
      PROVE  o = r
  <2> DEFINE j == IF k = Len(s) + 1 THEN Len(s) ELSE k
  <2>1. j \in DOMAIN s
    BY <1>1, <1>2
  <2>2. o \in Reached(s, j) /\ r \in Reached(s, j)
    BY <1>8
  <2> QED
    BY <1>9, <2>1, <2>2 DEF StackSound, InputsAreLent
<1>10. InputsAreLent(s2)
  BY <1>7, <1>9 DEF InputsAreLent
<1> QED
  BY <1>3, <1>4, <1>5, <1>10 DEF StackSound

-----------------------------------------------------------------------------
(* The stack in the actions.                                                *)

\* Where the next block goes.
NextPlace == <<Top, Len(frames[Top].blocks) + 1>>

Block(kind, objects, lent) == [kind |-> kind, objects |-> objects, lent |-> lent]

LEMMA BlockIsRecord ==
    ASSUME NEW kind \in Kinds, NEW objects \in SUBSET QubitObjects, NEW lent \in Nat
    PROVE  /\ Block(kind, objects, lent) \in BlockRecords
           /\ Block(kind, objects, lent).kind = kind /\ Block(kind, objects, lent).objects = objects
BY DEF Block, BlockRecords

\* The larger of two numbers.
LEMMA MaxOfTwo ==
    ASSUME NEW a \in Int, NEW b \in Int
    PROVE  Max({a, b}) = IF a >= b THEN a ELSE b
<1> DEFINE m == IF a >= b THEN a ELSE b
<1>1. m \in {a, b} /\ \A y \in {a, b} : m >= y
  OBVIOUS
<1>2. \A x \in {a, b} : (\A y \in {a, b} : x >= y) => x = m
  OBVIOUS
<1> QED
  BY <1>1, <1>2 DEF Max

\* The last element of a sequence, and what is left without it.
LEMMA FrontMeaning ==
    ASSUME NEW S, NEW s \in Seq(S), s # << >>
    PROVE  /\ Len(s) \in Nat \ {0} /\ Last(s) = s[Len(s)] /\ Last(s) \in S
           /\ Front(s) \in Seq(S) /\ Len(Front(s)) = Len(s) - 1
           /\ \A i \in 1 .. Len(s) - 1 : Front(s)[i] = s[i]
<1>1. Len(s) \in Nat \ {0}
  BY EmptySeq
<1>2. \A i \in 1 .. Len(s) - 1 : s[i] \in S
  BY <1>1, ElementOfSeq
<1>3. /\ Front(s) \in Seq(S) /\ Len(Front(s)) = IF 1 <= Len(s) - 1 THEN Len(s) - 1 - 1 + 1 ELSE 0
      /\ \A i \in 1 .. Len(s) - 1 - 1 + 1 : Front(s)[i] = s[1 + i - 1]
  BY <1>1, <1>2, SubSeqProperties DEF Front
<1>4. Last(s) = s[Len(s)] /\ Last(s) \in S
  BY <1>1, ElementOfSeq DEF Last
<1>5. ASSUME NEW n \in Nat \ {0}
      PROVE  /\ (IF 1 <= n - 1 THEN n - 1 - 1 + 1 ELSE 0) = n - 1
             /\ 1 .. n - 1 - 1 + 1 = 1 .. n - 1
             /\ \A i \in 1 .. n - 1 : 1 + i - 1 = i
  OBVIOUS
<1>6. Len(Front(s)) = Len(s) - 1 /\ \A i \in 1 .. Len(s) - 1 : Front(s)[i] = s[i]
  BY <1>1, <1>3, <1>5
<1> QED
  BY <1>1, <1>3, <1>4, <1>6

\* s2 is the stack with the block b on top, when the ids of inUse are in use.
IsOpened(s2, b, inUse) ==
    /\ WellFounded(s2) /\ Len(s2) = Len(frames)
    /\ Grows(frames, s2, NextPlace, b)
    /\ \A k \in DOMAIN frames : s2[k].peak = Max({frames[k].peak, Cardinality(inUse)})

\* Opened is the stack with a block more and higher peaks.
LEMMA OpenedGrows ==
    ASSUME WellFounded(frames), Top > 1, NEW kind \in Kinds, NEW objects \in SUBSET QubitObjects,
           NEW lent \in Nat, NEW inUse, Cardinality(inUse) \in Nat,
           NEW s2, s2 = Opened(kind, objects, lent, inUse)
    PROVE  IsOpened(s2, Block(kind, objects, lent), inUse)
<1> DEFINE n == Cardinality(inUse)
           b == Block(kind, objects, lent)
           more(k) == IF k < Top THEN frames[k].blocks ELSE Append(frames[k].blocks, b)
<1>1. /\ Top \in Nat \ {0} /\ Top = Len(frames) /\ DOMAIN frames = 1 .. Top
      /\ frames \in Seq(FrameRecords) /\ frames[1].inputs = {} /\ frames[1].blocks = << >>
  BY LenProperties DEF WellFounded, Top
<1>2. b \in BlockRecords /\ n \in Nat
  BY BlockIsRecord
<1>3. s2 = [k \in 1 .. Top |->
              [frames[k] EXCEPT
                !.peak = Max({@, n}),
                !.blocks = IF k < Top THEN @ ELSE Append(@, b)]]
  BY DEF Opened, Block
<1> HIDE DEF n, b
<1>4. ASSUME NEW k \in 1 .. Top
      PROVE  /\ s2[k] \in FrameRecords /\ s2[k].inputs = frames[k].inputs
             /\ s2[k].peak = Max({frames[k].peak, n})
             /\ s2[k].blocks = more(k)
  <2>1. PICK i \in SUBSET QubitObjects, bs \in Seq(BlockRecords), p \in Nat, g \in SUBSET GateRecords :
               frames[k] = [inputs |-> i, blocks |-> bs, peak |-> p, before |-> g]
    BY <1>1, FrameParts DEF FrameRecords
  <2>2. Max({p, n}) \in Nat
    BY <1>2, MaxOfTwo
  <2>3. s2[k] = [inputs |-> i, blocks |-> IF k < Top THEN bs ELSE Append(bs, b),
                 peak |-> Max({p, n}), before |-> g]
    <3> DEFINE m == Max({frames[k].peak, n})
               x == IF k < Top THEN frames[k].blocks ELSE Append(frames[k].blocks, b)
               f == [frames[k] EXCEPT !.peak = m]
    <3>1. s2[k] = [f EXCEPT !.blocks = x]
      BY <1>3
    <3>2. m = Max({p, n}) /\ x = IF k < Top THEN bs ELSE Append(bs, b)
      BY <2>1
    <3> HIDE DEF m, x
    <3>4. f = [inputs |-> i, blocks |-> bs, peak |-> m, before |-> g]
      BY <2>1
    <3> HIDE DEF f
    <3>3. s2[k] = [inputs |-> i, blocks |-> x, peak |-> m, before |-> g]
      BY <3>1, <3>4
    <3> QED
      BY <3>2, <3>3
  <2>4. more(k) = (IF k < Top THEN bs ELSE Append(bs, b)) /\ more(k) \in Seq(BlockRecords)
    BY <1>2, <2>1
  <2> HIDE DEF more
  <2> QED
    BY <2>1, <2>2, <2>3, <2>4 DEF FrameRecords
<1>5. /\ s2 \in Seq(FrameRecords) /\ Len(s2) = Top /\ DOMAIN s2 = 1 .. Top
  <2>1. s2 \in [1 .. Top -> FrameRecords]
    BY <1>3, <1>4
  <2> QED
    BY <1>1, <2>1
<1>6. ASSUME NEW k \in 1 .. Top
      PROVE  /\ Len(frames[k].blocks) \in Nat
             /\ Len(s2[k].blocks) = IF k < Top THEN Len(frames[k].blocks) ELSE Len(frames[k].blocks) + 1
             /\ \A i \in 1 .. Len(frames[k].blocks) : s2[k].blocks[i] = frames[k].blocks[i]
             /\ k = Top => s2[k].blocks[Len(frames[k].blocks) + 1] = b
  <2>1. frames[k].blocks \in Seq(BlockRecords) /\ Len(frames[k].blocks) \in Nat
    BY <1>1, FrameParts
  <2>2. s2[k].blocks = IF k < Top THEN frames[k].blocks ELSE Append(frames[k].blocks, b)
    BY <1>4
  <2>3. CASE k < Top
    BY <1>1, <2>1, <2>2, <2>3
  <2>4. CASE ~ k < Top
    <3>1. k = Top
      BY <1>1, <2>4
    <3> QED
      BY <1>2, <2>1, <2>2, <2>4, <3>1
  <2> QED
    BY <2>3, <2>4
<1>7. WellFounded(s2)
  <2>1. 1 \in 1 .. Top /\ 1 < Top
    BY <1>1
  <2>2. s2[1].inputs = {} /\ s2[1].blocks = << >>
    BY <1>1, <1>4, <2>1
  <2> QED
    BY <1>1, <1>5, <2>2 DEF WellFounded
<1>8. ASSUME NEW p
      PROVE  p \in Places(s2) <=> p \in Places(frames) \cup {NextPlace}
  <2>1. p \in Places(frames) <=> \E k \in 1 .. Top : \E i \in 1 .. Len(frames[k].blocks) : p = <<k, i>>
    BY <1>1, PlaceMeaning
  <2>2. p \in Places(s2) <=> \E k \in 1 .. Top : \E i \in 1 .. Len(s2[k].blocks) : p = <<k, i>>
    BY <1>5, <1>7, PlaceMeaning
  <2>3. ASSUME NEW k \in 1 .. Top, NEW i \in 1 .. Len(s2[k].blocks), p = <<k, i>>
        PROVE  p \in Places(frames) \cup {NextPlace}
    <3>1. CASE i \in 1 .. Len(frames[k].blocks)
      BY <2>1, <2>3, <3>1
    <3>2. CASE i \notin 1 .. Len(frames[k].blocks)
      <4>1. k = Top /\ i = Len(frames[k].blocks) + 1
        BY <1>1, <1>6, <2>3, <3>2
      <4> QED
        BY <2>3, <4>1 DEF NextPlace
    <3> QED
      BY <3>1, <3>2
  <2>4. ASSUME NEW k \in 1 .. Top, NEW i \in 1 .. Len(frames[k].blocks), p = <<k, i>>
        PROVE  p \in Places(s2)
    <3>1. i \in 1 .. Len(s2[k].blocks)
      BY <1>1, <1>6
    <3> QED
      BY <2>2, <2>4, <3>1
  <2>5. NextPlace \in Places(s2)
    <3>1. Top \in 1 .. Top /\ Len(frames[Top].blocks) + 1 \in 1 .. Len(s2[Top].blocks)
      BY <1>1, <1>6
    <3> QED
      BY <1>5, <1>7, <3>1, PlaceMeaning DEF NextPlace
  <2> QED
    BY <2>1, <2>2, <2>3, <2>4, <2>5
<1>9. NextPlace \notin Places(frames) /\ NextPlace[1] = Top /\ BlockAt(s2, NextPlace) = b
  <2>1. NextPlace[1] = Top /\ NextPlace[2] = Len(frames[Top].blocks) + 1
    BY DEF NextPlace
  <2>2. Top \in 1 .. Top /\ Len(frames[Top].blocks) \in Nat
    BY <1>1, <1>6
  <2> QED
    BY <1>1, <1>6, <2>1, <2>2, PlaceMeaning DEF BlockAt
<1>10. ASSUME NEW p \in Places(frames)
       PROVE  BlockAt(s2, p) = BlockAt(frames, p)
  <2>1. p[1] \in 1 .. Top /\ p[2] \in 1 .. Len(frames[p[1]].blocks)
    BY <1>1, PlaceMeaning
  <2> QED
    BY <1>6, <2>1 DEF BlockAt
<1>11. Grows(frames, s2, NextPlace, b)
  BY <1>1, <1>4, <1>5, <1>8, <1>9, <1>10 DEF Grows
<1>12. \A k \in DOMAIN frames : s2[k].peak = Max({frames[k].peak, n})
  BY <1>1, <1>4
<1> QED
  BY <1>1, <1>5, <1>7, <1>11, <1>12 DEF IsOpened, n, b

LastPlace == <<Top, Len(frames[Top].blocks)>>

\* Closed is the stack without the last block of the last frame.
LEMMA ClosedShrinks ==
    ASSUME WellFounded(frames), frames[Top].blocks # << >>, NEW s2, s2 = Closed
    PROVE  /\ WellFounded(s2) /\ Len(s2) = Len(frames)
           /\ LastPlace \in Places(frames) /\ LastPlace[1] = Len(frames)
           /\ Shrinks(frames, s2, {LastPlace})
           /\ BlockAt(frames, LastPlace) = Last(frames[Top].blocks)
           /\ \A k \in DOMAIN frames : s2[k].peak = frames[k].peak
<1> DEFINE bs == frames[Top].blocks
<1>1. /\ Top \in Nat \ {0} /\ Top = Len(frames) /\ DOMAIN frames = 1 .. Top /\ Top \in 1 .. Top
      /\ frames \in Seq(FrameRecords) /\ frames[1].inputs = {} /\ frames[1].blocks = << >>
  BY LenProperties DEF WellFounded, Top
<1>2. bs \in Seq(BlockRecords) /\ Len(bs) \in Nat \ {0} /\ frames[Top] \in FrameRecords
  BY <1>1, FrameParts, EmptySeq
<1>3. /\ Front(bs) \in Seq(BlockRecords) /\ Len(Front(bs)) = Len(bs) - 1
      /\ \A i \in 1 .. Len(bs) - 1 : Front(bs)[i] = bs[i]
      /\ Last(bs) = bs[Len(bs)]
  BY <1>2, FrontMeaning
<1> DEFINE ended == [frames[Top] EXCEPT !.blocks = Front(@)]
<1>4. /\ ended \in FrameRecords /\ ended.inputs = frames[Top].inputs
      /\ ended.peak = frames[Top].peak /\ ended.blocks = Front(bs)
  <2>1. PICK i \in SUBSET QubitObjects, x \in Seq(BlockRecords), p \in Nat, g \in SUBSET GateRecords :
               frames[Top] = [inputs |-> i, blocks |-> x, peak |-> p, before |-> g]
    BY <1>2 DEF FrameRecords
  <2>2. ended = [inputs |-> i, blocks |-> Front(bs), peak |-> p, before |-> g]
    BY <2>1
  <2>3. Front(bs) \in Seq(BlockRecords)
    BY <1>3
  <2> HIDE DEF bs, ended
  <2> QED
    BY <2>1, <2>2, <2>3 DEF FrameRecords
<1>5. s2 = [frames EXCEPT ![Top] = ended]
  BY DEF Closed
<1> HIDE DEF ended, bs
<1>6. /\ s2 \in Seq(FrameRecords) /\ Len(s2) = Top /\ DOMAIN s2 = 1 .. Top
      /\ \A k \in 1 .. Top : s2[k] = IF k = Top THEN ended ELSE frames[k]
  BY <1>1, <1>4, <1>5, ExceptSeq, LenProperties
<1>7. ASSUME NEW k \in 1 .. Top
      PROVE  /\ s2[k].inputs = frames[k].inputs /\ s2[k].peak = frames[k].peak
             /\ Len(frames[k].blocks) \in Nat
             /\ Len(s2[k].blocks) = IF k = Top THEN Len(frames[k].blocks) - 1 ELSE Len(frames[k].blocks)
             /\ \A i \in 1 .. Len(s2[k].blocks) : s2[k].blocks[i] = frames[k].blocks[i]
  <2>1. Len(frames[k].blocks) \in Nat
    BY <1>1, FrameParts
  <2>2. CASE k = Top
    <3>1. s2[k] = ended /\ frames[k] = frames[Top]
      BY <1>6, <2>2
    <3>2. s2[k].blocks = Front(bs) /\ frames[k].blocks = bs
      BY <1>4, <3>1, <2>2 DEF bs
    <3> QED
      BY <1>2, <1>3, <1>4, <2>1, <2>2, <3>1, <3>2
  <2>3. CASE k # Top
    BY <1>6, <2>1, <2>3
  <2> QED
    BY <2>2, <2>3
<1>8. WellFounded(s2)
  <2>1. 1 \in 1 .. Top
    BY <1>1
  <2>2. CASE Top = 1
    BY <1>1, <1>2, <2>2, EmptySeq DEF bs
  <2>3. CASE Top # 1
    BY <1>1, <1>6, <2>1, <2>3 DEF WellFounded
  <2> QED
    BY <2>2, <2>3
<1>9. ASSUME NEW p
      PROVE  p \in Places(s2) <=> p \in Places(frames) \ {LastPlace}
  <2>1. p \in Places(frames) <=> \E k \in 1 .. Top : \E i \in 1 .. Len(frames[k].blocks) : p = <<k, i>>
    BY <1>1, PlaceMeaning
  <2>2. p \in Places(s2) <=> \E k \in 1 .. Top : \E i \in 1 .. Len(s2[k].blocks) : p = <<k, i>>
    BY <1>6, <1>8, PlaceMeaning
  <2>3. ASSUME NEW k \in 1 .. Top, NEW i \in 1 .. Len(s2[k].blocks), p = <<k, i>>
        PROVE  p \in Places(frames) \ {LastPlace}
    <3>1. i \in 1 .. Len(frames[k].blocks) /\ ~ (k = Top /\ i = Len(frames[k].blocks))
      BY <1>7
    <3> QED
      BY <2>1, <2>3, <3>1 DEF LastPlace
  <2>4. ASSUME NEW k \in 1 .. Top, NEW i \in 1 .. Len(frames[k].blocks), p = <<k, i>>, p # LastPlace
        PROVE  p \in Places(s2)
    <3>1. ~ (k = Top /\ i = Len(frames[k].blocks))
      BY <2>4 DEF LastPlace
    <3>2. i \in 1 .. Len(s2[k].blocks)
      BY <1>7, <3>1
    <3> QED
      BY <2>2, <2>4, <3>2
  <2> QED
    BY <2>1, <2>2, <2>3, <2>4
<1>10. /\ LastPlace \in Places(frames) /\ LastPlace[1] = Top
       /\ BlockAt(frames, LastPlace) = Last(bs)
  <2>1. Len(bs) \in 1 .. Len(frames[Top].blocks)
    BY <1>2 DEF bs
  <2> QED
    BY <1>1, <1>3, <2>1, PlaceMeaning DEF LastPlace, BlockAt, bs
<1>11. ASSUME NEW p \in Places(s2)
       PROVE  BlockAt(s2, p) = BlockAt(frames, p)
  <2>1. p[1] \in 1 .. Top /\ p[2] \in 1 .. Len(s2[p[1]].blocks)
    BY <1>6, <1>8, PlaceMeaning
  <2> QED
    BY <1>7, <2>1 DEF BlockAt
<1>12. Shrinks(frames, s2, {LastPlace})
  BY <1>1, <1>6, <1>7, <1>9, <1>10, <1>11 DEF Shrinks
<1> QED
  BY <1>1, <1>6, <1>7, <1>8, <1>10, <1>12 DEF bs

\* The blocks of the last frame.
LastBlocks == {p \in Places(frames) : p[1] = Len(frames)}

\* Front is the stack without the last frame.
LEMMA FrontShrinks ==
    ASSUME WellFounded(frames), Top > 1, NEW s2, s2 = Front(frames)
    PROVE  /\ WellFounded(s2) /\ Len(s2) = Len(frames) - 1
           /\ Shrinks(frames, s2, LastBlocks)
           /\ \A k \in DOMAIN s2 : s2[k] = frames[k]
<1>1. /\ Top \in Nat \ {0, 1} /\ Top = Len(frames) /\ DOMAIN frames = 1 .. Top
      /\ frames \in Seq(FrameRecords) /\ frames[1].inputs = {} /\ frames[1].blocks = << >>
  <2>1. frames \in Seq(FrameRecords) /\ Top = Len(frames)
    BY DEF WellFounded, Top
  <2>2. Top \in Nat /\ DOMAIN frames = 1 .. Top
    BY <2>1, LenProperties
  <2> QED
    BY <2>1, <2>2 DEF WellFounded
<1>2. /\ s2 \in Seq(FrameRecords) /\ Len(s2) = Top - 1
      /\ \A k \in 1 .. Top - 1 : s2[k] = frames[k]
  <2>1. frames # << >>
    BY <1>1, EmptySeq
  <2> QED
    BY <1>1, <2>1, FrontMeaning
<1>3. DOMAIN s2 = 1 .. Top - 1
  BY <1>2, LenProperties
<1>4. WellFounded(s2)
  BY <1>1, <1>2 DEF WellFounded
<1>5. ASSUME NEW p
      PROVE  p \in Places(s2) <=> p \in Places(frames) \ LastBlocks
  <2>1. p \in Places(frames) <=> \E k \in 1 .. Top : \E i \in 1 .. Len(frames[k].blocks) : p = <<k, i>>
    BY <1>1, PlaceMeaning
  <2>2. p \in Places(s2) <=> \E k \in 1 .. Top - 1 : \E i \in 1 .. Len(s2[k].blocks) : p = <<k, i>>
    BY <1>2, <1>4, PlaceMeaning
  <2>3. ASSUME NEW k \in 1 .. Top - 1, NEW i \in 1 .. Len(s2[k].blocks), p = <<k, i>>
        PROVE  p \in Places(frames) /\ p \notin LastBlocks
    <3>1. k \in 1 .. Top /\ k # Top /\ p[1] = k /\ i \in 1 .. Len(frames[k].blocks)
      BY <1>1, <1>2, <2>3
    <3> QED
      BY <1>1, <2>1, <2>3, <3>1 DEF LastBlocks
  <2>4. ASSUME NEW k \in 1 .. Top, NEW i \in 1 .. Len(frames[k].blocks), p = <<k, i>>,
               p \notin LastBlocks
        PROVE  p \in Places(s2)
    <3>1. p[1] = k /\ p \in Places(frames)
      BY <2>1, <2>4
    <3>2. k \in 1 .. Top - 1
      BY <1>1, <2>4, <3>1 DEF LastBlocks
    <3> QED
      BY <1>2, <2>2, <2>4, <3>2
  <2> QED
    BY <2>1, <2>2, <2>3, <2>4
<1>6. ASSUME NEW p \in Places(s2)
      PROVE  BlockAt(s2, p) = BlockAt(frames, p)
  <2>1. p[1] \in 1 .. Top - 1
    BY <1>2, <1>4, PlaceMeaning
  <2> QED
    BY <1>2, <2>1 DEF BlockAt
<1>7. Shrinks(frames, s2, LastBlocks)
  BY <1>1, <1>2, <1>3, <1>5, <1>6 DEF Shrinks, LastBlocks
<1> QED
  BY <1>1, <1>2, <1>3, <1>4, <1>7

Called(frame) == Append(frames, frame)

\* A call that begins has a frame without blocks.
LEMMA AppendCalls ==
    ASSUME WellFounded(frames), NEW inputs \in SUBSET QubitObjects, NEW f \in FrameRecords,
           f.inputs = inputs, f.blocks = << >>, NEW s2, s2 = Called(f)
    PROVE  /\ WellFounded(s2) /\ Len(s2) = Len(frames) + 1
           /\ Calls(frames, s2, inputs)
           /\ \A k \in DOMAIN frames : s2[k] = frames[k]
           /\ s2[Len(frames) + 1] = f
<1>1. /\ Top \in Nat \ {0} /\ Top = Len(frames) /\ DOMAIN frames = 1 .. Top
      /\ frames \in Seq(FrameRecords) /\ frames[1].inputs = {} /\ frames[1].blocks = << >>
  BY LenProperties DEF WellFounded, Top
<1>2. /\ s2 \in Seq(FrameRecords) /\ Len(s2) = Top + 1
      /\ \A k \in 1 .. Top : s2[k] = frames[k]
      /\ s2[Top + 1] = f
  BY <1>1 DEF Called
<1>3. DOMAIN s2 = 1 .. Top + 1
  BY <1>2, LenProperties
<1>4. WellFounded(s2)
  BY <1>1, <1>2 DEF WellFounded
<1>5. ASSUME NEW p
      PROVE  p \in Places(s2) <=> p \in Places(frames)
  <2>1. p \in Places(frames) <=> \E k \in 1 .. Top : \E i \in 1 .. Len(frames[k].blocks) : p = <<k, i>>
    BY <1>1, PlaceMeaning
  <2>2. p \in Places(s2) <=> \E k \in 1 .. Top + 1 : \E i \in 1 .. Len(s2[k].blocks) : p = <<k, i>>
    BY <1>2, <1>4, PlaceExists
  <2>3. Len(s2[Top + 1].blocks) = 0
    BY <1>2, EmptySeq
  <2>4. ASSUME NEW k \in 1 .. Top + 1, NEW i \in 1 .. Len(s2[k].blocks)
        PROVE  k \in 1 .. Top /\ i \in 1 .. Len(frames[k].blocks)
    <3>1. k # Top + 1
      <4>1. ~ i \in 1 .. 0
        OBVIOUS
      <4> QED
        BY <2>3, <4>1
    <3> QED
      BY <1>1, <1>2, <3>1
  <2>5. ASSUME NEW k \in 1 .. Top, NEW i \in 1 .. Len(frames[k].blocks)
        PROVE  k \in 1 .. Top + 1 /\ i \in 1 .. Len(s2[k].blocks)
    BY <1>1, <1>2
  <2> QED
    BY <2>1, <2>2, <2>4, <2>5
<1>6. ASSUME NEW p \in Places(frames)
      PROVE  BlockAt(s2, p) = BlockAt(frames, p)
  <2>1. p[1] \in 1 .. Top
    BY <1>1, PlaceMeaning
  <2> QED
    BY <1>2, <2>1 DEF BlockAt
<1>7. Calls(frames, s2, inputs)
  BY <1>1, <1>2, <1>3, <1>5, <1>6 DEF Calls
<1> QED
  BY <1>1, <1>2, <1>4, <1>7

-----------------------------------------------------------------------------
(* Ids and objects.                                                         *)

\* What is in reach is live and its id in use.
LEMMA ReachedIsHeld ==
    ASSUME NEW s, NEW h, NEW l, StackSound(s, h, l), NEW k \in DOMAIN s, NEW o \in Reached(s, k)
    PROVE  o \in l /\ QubitId(o) \in DOMAIN h
<1>1. \E p \in Places(s) : o \in ObjectsAt(s, p)
  BY ReachedMeaning DEF StackSound, InputsAreLent
<1> QED
  BY <1>1 DEF StackSound, BlocksHold

\* New ids are not in use, as many as asked for, and fresh stays ahead of them.
LEMMA NewIdsMeaning ==
    ASSUME TypeInv, NEW n \in Nat, NEW ids \in NewIds(n)
    PROVE  /\ ids \subseteq Nat /\ ids \cap DOMAIN held = {}
           /\ IsFiniteSet(ids) /\ Cardinality(ids) = n
           /\ LET top == Max({fresh} \cup {id + 1 : id \in ids}) IN
                top \in Nat /\ top >= fresh /\ ids \subseteq 0 .. top - 1
<1>1. fresh \in Nat /\ DOMAIN held \subseteq 0 .. fresh - 1
  BY DEF TypeInv
<1>2. PICK old \in UNION {kSubset(k, Idle) : k \in 0 .. n} :
             ids = old \cup (fresh .. fresh + n - Cardinality(old) - 1)
  BY DEF NewIds
<1>3. old \subseteq Idle /\ Cardinality(old) \in 0 .. n
  BY <1>2 DEF kSubset
<1>4. Idle \subseteq 0 .. fresh - 1 /\ Idle \cap DOMAIN held = {}
  BY <1>1 DEF Idle
<1>5. old \subseteq 0 .. fresh - 1 /\ old \cap DOMAIN held = {}
  BY <1>3, <1>4
<1> DEFINE m == n - Cardinality(old)
           more == fresh .. fresh + m - 1
<1>6. m \in Nat /\ ids = old \cup more
  <2>1. fresh + n - Cardinality(old) - 1 = fresh + m - 1 /\ m \in Nat
    BY <1>1, <1>3
  <2> QED
    BY <1>2, <2>1
<1>7. IsFiniteSet(old)
  <2>1. 0 \in Int /\ fresh - 1 \in Int
    BY <1>1
  <2>2. IsFiniteSet(0 .. fresh - 1)
    BY <2>1, FS_Interval
  <2> QED
    BY <1>5, <2>2, FS_Subset
<1>8. IsFiniteSet(more) /\ Cardinality(more) = m
  <2>1. fresh + m - 1 \in Int /\ fresh \in Int
    BY <1>1, <1>6
  <2> DEFINE last == fresh + m - 1
  <2>2. more = fresh .. last /\ last \in Int /\ last = fresh + m - 1 /\ m \in Nat
    BY <1>6, <2>1
  <2> HIDE DEF last, more, m
  <2>3. IsFiniteSet(more) /\ Cardinality(more) = IF fresh > last THEN 0 ELSE last - fresh + 1
    BY <2>1, <2>2, FS_Interval
  <2> QED
    BY <1>1, <2>2, <2>3
<1> HIDE DEF m
<1>9. old \cap more = {} /\ more \cap DOMAIN held = {} /\ more \subseteq Nat
  BY <1>1, <1>5, <1>6
<1>10. IsFiniteSet(ids) /\ Cardinality(ids) = n
  <2>1. Cardinality(old \cup more) = Cardinality(old) + Cardinality(more) - Cardinality(old \cap more)
        /\ IsFiniteSet(old \cup more)
    BY <1>7, <1>8, FS_Union
  <2>2. Cardinality(old \cap more) = 0
    BY <1>9, FS_EmptySet
  <2> QED
    BY <1>3, <1>6, <1>8, <2>1, <2>2 DEF m
<1>11. LET top == Max({fresh} \cup {id + 1 : id \in ids}) IN
         top \in Nat /\ top >= fresh /\ ids \subseteq 0 .. top - 1
  <2> DEFINE S == {fresh} \cup {id + 1 : id \in ids}
             t == fresh + m
  <2>1. t \in S
    <3>1. CASE m = 0
      BY <1>1, <3>1
    <3>2. CASE m > 0
      <4>1. fresh + m - 1 \in more /\ (fresh + m - 1) + 1 = t
        BY <1>1, <1>6, <3>2
      <4> QED
        BY <1>6, <4>1
    <3> QED
      BY <1>6, <3>1, <3>2
  <2>2. \A y \in S : y \in Int /\ t >= y
    <3>1. \A id \in ids : id \in Nat /\ id < t
      BY <1>1, <1>5, <1>6
    <3> QED
      BY <1>1, <1>6, <3>1
  <2>3. Max(S) = t
    <3>1. \A x \in S : (\A y \in S : x >= y) => x = t
      BY <1>1, <1>6, <2>1, <2>2
    <3> HIDE DEF S, t
    <3> QED
      BY <2>1, <2>2, <3>1 DEF Max
  <2>4. ids \subseteq 0 .. t - 1
    BY <1>1, <1>5, <1>6
  <2>5. t \in Nat /\ t >= fresh
    BY <1>1, <1>6
  <2> HIDE DEF S, t
  <2>6. Max(S) \in Nat /\ Max(S) >= fresh /\ ids \subseteq 0 .. Max(S) - 1
    BY <2>3, <2>4, <2>5
  <2> QED
    BY <2>6 DEF S
<1> QED
  BY <1>1, <1>5, <1>6, <1>9, <1>10, <1>11

\* Numbers without gaps are those below their count.
LEMMA CountIsNext ==
    ASSUME NEW S \in SUBSET QubitObjects, IsFiniteSet(S), NoGaps(S), NEW id \in Nat,
           NEW N, N = {o \in S : o[1] = id}
    PROVE  /\ Cardinality(N) \in Nat
           /\ \A o \in N : o[2] < Cardinality(N)
           /\ \A n \in 0 .. Cardinality(N) - 1 : <<id, n>> \in S
<1>1. IsFiniteSet(N) /\ Cardinality(N) \in Nat
  BY FS_Subset, FS_CardinalityType
<1> DEFINE below(n) == {id} \X (0 .. n - 1)
<1>2. ASSUME NEW n \in Nat
      PROVE  IsFiniteSet(below(n)) /\ Cardinality(below(n)) = n
  <2>1. IsFiniteSet(0 .. n - 1) /\ Cardinality(0 .. n - 1) = n
    <3>1. /\ IsFiniteSet(0 .. n - 1)
          /\ Cardinality(0 .. n - 1) = IF 0 > n - 1 THEN 0 ELSE (n - 1) - 0 + 1
      BY FS_Interval
    <3> QED
      BY <3>1
  <2>2. IsFiniteSet({id}) /\ Cardinality({id}) = 1
    BY FS_Singleton
  <2>3. /\ IsFiniteSet({id} \X (0 .. n - 1))
        /\ Cardinality({id} \X (0 .. n - 1)) = Cardinality({id}) * Cardinality(0 .. n - 1)
    BY <2>1, <2>2, FS_Product
  <2> QED
    BY <2>1, <2>2, <2>3
<1>3. ASSUME NEW o \in N
      PROVE  o[2] < Cardinality(N)
  <2>1. o \in S /\ o[1] = id /\ o[2] \in Nat /\ o = <<id, o[2]>>
    BY DEF QubitObjects
  <2>2. below(o[2] + 1) \subseteq N
    <3> SUFFICES ASSUME NEW r \in below(o[2] + 1) PROVE r \in N
      OBVIOUS
    <3>1. r = <<id, r[2]>> /\ r[2] \in 0 .. o[2] /\ r[1] = id
      BY <2>1
    <3>2. CASE r[2] = o[2]
      BY <2>1, <3>1, <3>2
    <3>3. CASE r[2] # o[2]
      <4>1. r[2] \in 0 .. o[2] - 1
        BY <2>1, <3>1, <3>3
      <4> QED
        BY <2>1, <3>1, <4>1 DEF NoGaps
    <3> QED
      BY <3>2, <3>3
  <2>3. o[2] + 1 \in Nat
    BY <2>1
  <2>4. Cardinality(below(o[2] + 1)) = o[2] + 1
    BY <1>2, <2>3
  <2> HIDE DEF below
  <2>5. o[2] + 1 <= Cardinality(N)
    BY <1>1, <2>2, <2>4, FS_Subset
  <2> QED
    BY <1>1, <2>1, <2>5
<1>4. ASSUME NEW n \in 0 .. Cardinality(N) - 1, <<id, n>> \notin S
      PROVE  FALSE
  <2>1. n \in Nat /\ n < Cardinality(N)
    BY <1>1
  <2>2. N \subseteq below(n)
    <3> SUFFICES ASSUME NEW o \in N PROVE o \in below(n)
      OBVIOUS
    <3>1. o \in S /\ o[1] = id /\ o[2] \in Nat /\ o = <<id, o[2]>>
      BY DEF QubitObjects
    <3>2. ~ n \in 0 .. o[2] - 1
      BY <1>4, <3>1 DEF NoGaps
    <3>3. o[2] # n
      BY <1>4, <3>1
    <3>4. o[2] \in 0 .. n - 1
      BY <2>1, <3>1, <3>2, <3>3
    <3> QED
      BY <3>1, <3>4
  <2>3. IsFiniteSet(below(n)) /\ Cardinality(below(n)) = n
    BY <1>2, <2>1
  <2> HIDE DEF below
  <2>4. Cardinality(N) <= n
    BY <2>2, <2>3, FS_Subset
  <2> QED
    BY <1>1, <2>1, <2>4
<1> QED
  BY <1>1, <1>3, <1>4

\* The objects an operation creates have the next numbers of their ids.
LEMMA CreatedMeaning ==
    ASSUME ObjectInv, NEW ids \in SUBSET Nat
    PROVE  /\ Created(ids) \in SUBSET QubitObjects
           /\ IdsOf(Created(ids)) = ids
           /\ \A o \in Created(ids), r \in Created(ids) : QubitId(o) = QubitId(r) => o = r
           /\ \A o \in Created(ids), r \in Numbered : QubitId(o) = QubitId(r) => r[2] < o[2]
           /\ \A o \in Created(ids) : \A n \in 0 .. o[2] - 1 : <<o[1], n>> \in Numbered
           /\ Created(ids) \cap Numbered = {}
<1>1. Numbered \in SUBSET QubitObjects /\ IsFiniteSet(Numbered) /\ NoGaps(Numbered)
  BY DEF ObjectInv, Numbered
<1>2. ASSUME NEW id
      PROVE  Objects(id) = {o \in Numbered : o[1] = id}
  BY DEF Objects, Numbered, QubitId
<1>3. ASSUME NEW id \in Nat
      PROVE  LET o == CreateQubitObject(id) IN
             /\ o = <<id, o[2]>> /\ QubitId(o) = id /\ o[1] = id /\ o[2] \in Nat
             /\ \A r \in Numbered : QubitId(r) = id => r[2] < o[2]
             /\ \A n \in 0 .. o[2] - 1 : <<id, n>> \in Numbered
  <2> DEFINE N == {o \in Numbered : o[1] = id}
  <2>1. CreateQubitObject(id) = <<id, Cardinality(N)>>
    BY <1>2 DEF CreateQubitObject
  <2>2. /\ Cardinality(N) \in Nat
        /\ \A o \in N : o[2] < Cardinality(N)
        /\ \A n \in 0 .. Cardinality(N) - 1 : <<id, n>> \in Numbered
    <3> HIDE <1>2
    <3> QED
      BY <1>1, CountIsNext
  <2>3. \A r \in Numbered : QubitId(r) = id => r \in N
    BY DEF QubitId
  <2> HIDE DEF N
  <2> QED
    BY <2>1, <2>2, <2>3 DEF QubitId
<1>4. ASSUME NEW o \in Created(ids)
      PROVE  /\ o[1] \in ids /\ o = CreateQubitObject(o[1]) /\ o = <<o[1], o[2]>> /\ o[2] \in Nat
             /\ \A r \in Numbered : QubitId(o) = QubitId(r) => r[2] < o[2]
             /\ \A n \in 0 .. o[2] - 1 : <<o[1], n>> \in Numbered
  <2>1. PICK id \in ids : o = CreateQubitObject(id)
    BY DEF Created
  <2>2. id \in Nat
    OBVIOUS
  <2> QED
    BY <1>3, <2>1, <2>2 DEF QubitId
<1>5. Created(ids) \in SUBSET QubitObjects
  BY <1>4 DEF QubitObjects
<1>6. IdsOf(Created(ids)) = ids
  BY <1>3, <1>4 DEF IdsOf, Created, QubitId
<1>7. \A o \in Created(ids), r \in Created(ids) : QubitId(o) = QubitId(r) => o = r
  BY <1>4 DEF QubitId
<1>8. Created(ids) \cap Numbered = {}
  BY <1>4
<1> QED
  BY <1>4, <1>5, <1>6, <1>7, <1>8

-----------------------------------------------------------------------------
(* A block that is opened.                                                  *)

\* What Allocate and Borrow do to the program's state: a block with new objects of ids that
\* are not in reach.
OpensBlock(kind, ids, lent) ==
    /\ kind \in Kinds /\ ids \in SUBSET Nat /\ lent \in Nat
    /\ Top > 1
    /\ \A o \in Reach : QubitId(o) \notin ids
    /\ HeldMore(held, held', Block(kind, Created(ids), lent))
    /\ held' \in [DOMAIN held' -> Nat]
    /\ frames' = Opened(kind, Created(ids), lent, DOMAIN held')
    /\ wires' = Wired(Created(ids))
    /\ metrics' = WithNew(Created(ids))
    /\ fresh' \in Nat /\ fresh' >= fresh /\ ids \subseteq 0 .. fresh' - 1
    /\ configuration' = configuration /\ failing' = failing

\* All live objects have numbers that are taken.
LEMMA LiveIsNumbered ==
    ASSUME ObjectInv
    PROVE  DOMAIN metrics \subseteq Numbered
BY DEF ObjectInv, Numbered, Wire

\* The sound stack of a state.
LEMMA StackInvMeaning ==
    ASSUME TypeInv
    PROVE  StackInv <=> /\ StackSound(frames, held, DOMAIN metrics)
                        /\ failing \/ AboveIsOpen(frames, DOMAIN metrics)
BY DEF StackInv, StackSound

LEMMA IdsAreFinite ==
    ASSUME NEW n \in Nat, NEW S \in SUBSET (0 .. n - 1)
    PROVE  IsFiniteSet(S) /\ Cardinality(S) \in Nat
<1>1. IsFiniteSet(0 .. n - 1)
  <2>1. 0 \in Int /\ n - 1 \in Int
    OBVIOUS
  <2> QED
    BY <2>1, FS_Interval
<1> QED
  BY <1>1, FS_Subset, FS_CardinalityType

LEMMA OpeningKeepsState ==
    ASSUME StateInv, NEW kind, NEW ids, NEW lent, OpensBlock(kind, ids, lent)
    PROVE  /\ StateInv'
           /\ DOMAIN metrics' = DOMAIN metrics \cup Created(ids)
           /\ DOMAIN metrics \cap Created(ids) = {}
           /\ \A o \in Created(ids) : metrics'[o] = NewTracingData
           /\ \A o \in DOMAIN metrics : metrics'[o] = metrics[o]
           /\ Len(frames') = Len(frames)
           /\ \A k \in DOMAIN frames : /\ frames'[k].inputs = frames[k].inputs
                /\ frames'[k].peak = Max({frames[k].peak, Cardinality(DOMAIN held')})
           /\ Grows(frames, frames', NextPlace, Block(kind, Created(ids), lent))
<1> DEFINE b == Block(kind, Created(ids), lent)
           new == Created(ids)
<1>1. TypeInv /\ ObjectInv /\ StackSound(frames, held, DOMAIN metrics)
  BY StackInvMeaning DEF StateInv
<1>2. /\ kind \in Kinds /\ ids \in SUBSET Nat /\ lent \in Nat /\ Top > 1
      /\ HeldMore(held, held', b)
      /\ configuration' = configuration /\ failing' = failing
  BY DEF OpensBlock
<1>3. /\ new \in SUBSET QubitObjects /\ IdsOf(new) = ids
      /\ \A o \in new, r \in new : QubitId(o) = QubitId(r) => o = r
      /\ \A o \in new, r \in Numbered : QubitId(o) = QubitId(r) => r[2] < o[2]
      /\ \A o \in new : \A n \in 0 .. o[2] - 1 : <<o[1], n>> \in Numbered
      /\ new \cap Numbered = {} /\ DOMAIN metrics \subseteq Numbered
  BY <1>1, <1>2, CreatedMeaning, LiveIsNumbered
<1>4. b \in BlockRecords /\ b.kind = kind /\ b.objects = new
  BY <1>2, <1>3, BlockIsRecord
<1>5. /\ DOMAIN held' = DOMAIN held \cup ids /\ fresh' \in Nat
      /\ DOMAIN held' \subseteq 0 .. fresh' - 1
  <2>1. DOMAIN held' = DOMAIN held \cup ids
    BY <1>2, <1>3, <1>4 DEF HeldMore
  <2> QED
    BY <1>1, <2>1 DEF OpensBlock, TypeInv
<1>6. Cardinality(DOMAIN held') \in Nat
  BY <1>5, IdsAreFinite
<1>7. frames' = Opened(kind, new, lent, DOMAIN held')
  BY DEF OpensBlock
<1> HIDE DEF b, new
<1>8. /\ WellFounded(frames') /\ Len(frames') = Len(frames)
      /\ Grows(frames, frames', NextPlace, Block(kind, new, lent))
      /\ \A k \in DOMAIN frames :
            frames'[k].peak = Max({frames[k].peak, Cardinality(DOMAIN held')})
  <2>1. WellFounded(frames)
    BY <1>1 DEF StackSound
  <2> DEFINE inUse == DOMAIN held'
  <2>2. Cardinality(inUse) \in Nat /\ frames' = Opened(kind, new, lent, inUse)
    BY <1>6, <1>7
  <2> HIDE DEF inUse
  <2>4. new \in SUBSET QubitObjects /\ kind \in Kinds /\ lent \in Nat /\ Top > 1
    BY <1>2, <1>3
  <2>3. ASSUME NEW s2, s2 = Opened(kind, new, lent, inUse)
        PROVE  /\ WellFounded(s2) /\ Len(s2) = Len(frames)
               /\ Grows(frames, s2, NextPlace, Block(kind, new, lent))
               /\ \A k \in DOMAIN frames : s2[k].peak = Max({frames[k].peak, Cardinality(inUse)})
    <3>1. IsOpened(s2, Block(kind, new, lent), inUse)
      BY <2>1, <2>2, <2>4, <2>3, OpenedGrows
    <3> HIDE DEF new
    <3> QED
      BY <3>1 DEF IsOpened
  <2> QED
    BY <2>2, <2>3 DEF inUse
<1>9. Grows(frames, frames', NextPlace, b)
  BY <1>8 DEF b, new
<1>10. NewObjects(frames, DOMAIN metrics, b.objects)
  <2>1. ASSUME NEW o \in new, NEW r \in Reached(frames, Len(frames))
        PROVE  QubitId(o) # QubitId(r)
    <3>1. r \in Reach
      BY <1>1, ReachIsReached DEF StackSound, Top
    <3>2. QubitId(o) \in ids
      BY <1>3 DEF IdsOf
    <3> QED
      BY <3>1, <3>2 DEF OpensBlock
  <2> QED
    BY <1>3, <1>4, <2>1 DEF NewObjects
<1>11. metrics' = WithNew(new) /\ wires' = Wired(new)
  BY DEF OpensBlock, new
<1>12. /\ DOMAIN metrics' = DOMAIN metrics \cup new
       /\ \A o \in new : metrics'[o] = NewTracingData
       /\ \A o \in DOMAIN metrics : metrics'[o] = metrics[o]
  <2>1. metrics' = [o \in DOMAIN metrics \cup new |->
                        IF o \in new THEN NewTracingData ELSE metrics[o]]
    BY <1>11 DEF WithNew
  <2> QED
    BY <1>3, <2>1
<1>13. StackSound(frames', held', DOMAIN metrics')
  <2>1. b.kind \in Kinds
    BY <1>2, <1>4
  <2>2. BlocksHold(frames', held', DOMAIN metrics \cup b.objects)
    BY <1>1, <1>2, <1>9, <2>1, GrowthKeepsHolding
  <2>3. BlocksDiffer(frames')
    BY <1>1, <1>2, <1>9, <1>10, GrowthKeepsDiffering
  <2>4. InputsAreLent(frames')
    BY <1>1, <1>9, <1>10, GrowthKeepsInputs
  <2>5. LoansCounted(frames', held')
    BY <1>1, <1>2, <1>9, <2>1, GrowthKeepsCounts
  <2> QED
    BY <1>4, <1>8, <1>12, <2>2, <2>3, <2>4, <2>5 DEF StackSound
<1>14. failing' \/ AboveIsOpen(frames', DOMAIN metrics')
  <2>1. failing \/ AboveIsOpen(frames, DOMAIN metrics)
    BY DEF StateInv, StackInv
  <2>2. b.objects \subseteq QubitObjects /\ DOMAIN metrics \subseteq QubitObjects
    BY <1>1, <1>3, <1>4 DEF ObjectInv
  <2>3. ASSUME AboveIsOpen(frames, DOMAIN metrics)
        PROVE  AboveIsOpen(frames', DOMAIN metrics \cup b.objects)
    BY <1>1, <1>9, <1>10, <2>2, <2>3, GrowthKeepsOrder
  <2> QED
    BY <1>2, <1>4, <1>12, <2>1, <2>3
<1>15. TypeInv'
  <2>1. configuration' \in Configurations /\ failing' \in BOOLEAN
    BY <1>1, <1>2 DEF TypeInv
  <2>2. Top' > 1
    BY <1>2, <1>8 DEF Top
  <2>3. held' \in [DOMAIN held' -> Nat]
    BY DEF OpensBlock
  <2> QED
    BY <1>5, <2>1, <2>2, <2>3 DEF TypeInv
<1>16. ObjectInv'
  <2> DEFINE on == {Wire(o) : o \in new}
  <2>1. OptimizeDepth' = OptimizeDepth /\ \A o : Wire(o)' = Wire(o)
    BY <1>2 DEF OptimizeDepth, Wire
  <2>2. /\ DOMAIN wires' = DOMAIN wires \cup on
        /\ wires' \in [DOMAIN wires' -> Seq(GateRecords)]
    <3>1. wires' = [w \in DOMAIN wires \cup on |-> IF w \in DOMAIN wires THEN wires[w] ELSE << >>]
      BY <1>11 DEF Wired
    <3>2. << >> \in Seq(GateRecords)
      BY EmptySeq
    <3>3. \A w \in DOMAIN wires : wires[w] \in Seq(GateRecords)
      BY <1>1 DEF ObjectInv
    <3> HIDE DEF on
    <3> QED
      BY <3>1, <3>2, <3>3
  <2>3. IsFiniteSet(new)
    <3> DEFINE f == [id \in ids |-> CreateQubitObject(id)]
    <3>1. f \in Surjection(ids, new)
      BY DEF Surjection, new, Created
    <3>2. IsFiniteSet(ids)
      BY <1>5, IdsAreFinite
    <3> QED
      BY <3>1, <3>2, FS_Surjection
  <2>4. IsFiniteSet(DOMAIN metrics') /\ DOMAIN metrics' \subseteq QubitObjects
    <3>1. IsFiniteSet(DOMAIN metrics) /\ DOMAIN metrics \subseteq QubitObjects
      BY <1>1 DEF ObjectInv
    <3>2. IsFiniteSet(DOMAIN metrics \cup new)
      BY <2>3, <3>1, FS_Union
    <3> QED
      BY <1>3, <1>12, <3>1, <3>2
  <2>5. IsFiniteSet(DOMAIN wires') /\ DOMAIN wires' \subseteq QubitObjects \cup Nat
    <3> DEFINE f == [o \in new |-> Wire(o)]
    <3>1. f \in Surjection(new, on)
      BY DEF Surjection
    <3>2. IsFiniteSet(on)
      BY <2>3, <3>1, FS_Surjection
    <3>3. on \subseteq QubitObjects \cup Nat
      BY <1>3 DEF Wire, QubitId, QubitObjects
    <3>4. DOMAIN wires \subseteq QubitObjects \cup Nat /\ IsFiniteSet(DOMAIN wires)
      BY <1>1 DEF ObjectInv, Wires
    <3> HIDE DEF on
    <3> QED
      BY <2>2, <3>2, <3>3, <3>4, FS_Union
  <2>6. OptimizeDepth => on = new
    BY DEF Wire
  <2>7. Numbered' = Numbered \cup new
    BY <1>12, <2>1, <2>2, <2>6 DEF Numbered
  <2>8. NoGaps(Numbered')
    <3>1. NoGaps(Numbered)
      BY <1>1 DEF ObjectInv
    <3> QED
      BY <1>3, <2>7, <3>1 DEF NoGaps
  <2>9. OptimizeDepth' => DOMAIN wires' \subseteq QubitObjects
    BY <1>1, <1>3, <2>1, <2>2, <2>6 DEF ObjectInv
  <2>10. \A o \in DOMAIN metrics' : QubitId(o) < fresh' /\ Wire(o)' \in DOMAIN wires'
    <3>1. ASSUME NEW o \in new
          PROVE  QubitId(o) < fresh' /\ Wire(o) \in DOMAIN wires'
      <4>1. QubitId(o) \in ids /\ Wire(o) \in on
        BY <1>3 DEF IdsOf
      <4>2. ids \subseteq 0 .. fresh' - 1
        BY DEF OpensBlock
      <4> HIDE DEF on
      <4> QED
        BY <1>5, <2>2, <4>1, <4>2
    <3>2. ASSUME NEW o \in DOMAIN metrics
          PROVE  QubitId(o) < fresh' /\ Wire(o) \in DOMAIN wires'
      <4>1. QubitId(o) < fresh /\ Wire(o) \in DOMAIN wires /\ QubitId(o) \in Nat
        BY <1>1 DEF ObjectInv, QubitId, QubitObjects
      <4>2. fresh' >= fresh /\ fresh' \in Nat /\ fresh \in Nat
        BY <1>1 DEF OpensBlock, TypeInv
      <4> HIDE DEF on
      <4> QED
        BY <2>2, <4>1, <4>2
    <3> QED
      BY <1>12, <2>1, <3>1, <3>2
  <2> HIDE DEF on
  <2> QED
    BY <2>2, <2>4, <2>5, <2>8, <2>9, <2>10 DEF ObjectInv, Wires
<1>17. StackInv'
  <2>1. /\ WellFounded(frames') /\ BlocksHold(frames', held', DOMAIN metrics')
        /\ BlocksDiffer(frames') /\ InputsAreLent(frames') /\ LoansCounted(frames', held')
    BY <1>13 DEF StackSound
  <2> QED
    BY <1>14, <2>1 DEF StackInv
<1>18. \A k \in DOMAIN frames : frames'[k].inputs = frames[k].inputs
  BY <1>9 DEF Grows
<1>19. DOMAIN metrics \cap new = {}
  BY <1>3
<1> QED
  BY <1>8, <1>12, <1>15, <1>16, <1>17, <1>18, <1>19 DEF StateInv, new

-----------------------------------------------------------------------------
(* A block that ends.                                                       *)

\* What Release and Return do to the program's state.
ClosesBlock(kind) ==
    /\ HasBlock(kind)
    /\ HeldLess(held, held', Last(frames[Top].blocks))
    /\ held' \in [DOMAIN held' -> Nat]
    /\ frames' = Closed
    /\ metrics' = Discarded(Last(frames[Top].blocks).objects)
    /\ configuration' = configuration /\ failing' = failing /\ fresh' = fresh /\ wires' = wires

LEMMA ClosingKeepsState ==
    ASSUME StateInv, NEW kind, ClosesBlock(kind)
    PROVE  /\ StateInv'
           /\ Last(frames[Top].blocks).objects \subseteq DOMAIN metrics
           /\ DOMAIN metrics' = DOMAIN metrics \ Last(frames[Top].blocks).objects
           /\ \A o \in DOMAIN metrics' : metrics'[o] = metrics[o]
           /\ Len(frames') = Len(frames)
           /\ \A k \in DOMAIN frames : /\ frames'[k].inputs = frames[k].inputs
                                       /\ frames'[k].peak = frames[k].peak
           /\ Shrinks(frames, frames', {LastPlace})
           /\ ObjectsAt(frames, LastPlace) = Last(frames[Top].blocks).objects
<1> DEFINE b == Last(frames[Top].blocks)
           s2 == frames'
<1>1. TypeInv /\ ObjectInv /\ StackSound(frames, held, DOMAIN metrics)
  BY StackInvMeaning DEF StateInv
<1>2. /\ ~ failing /\ Top > 1 /\ frames[Top].blocks # << >>
      /\ HeldLess(held, held', b) /\ s2 = Closed
      /\ configuration' = configuration /\ failing' = failing /\ fresh' = fresh /\ wires' = wires
      /\ metrics' = [o \in DOMAIN metrics \ b.objects |-> metrics[o]]
  BY DEF ClosesBlock, HasBlock, InOperation, Discarded
<1>3. AboveIsOpen(frames, DOMAIN metrics)
  BY <1>2 DEF StateInv, StackInv
<1>4. /\ WellFounded(s2) /\ Len(s2) = Len(frames)
      /\ LastPlace \in Places(frames) /\ LastPlace[1] = Len(frames)
      /\ Shrinks(frames, s2, {LastPlace})
      /\ BlockAt(frames, LastPlace) = b
      /\ \A k \in DOMAIN frames : s2[k].peak = frames[k].peak
  <2>1. WellFounded(frames)
    BY <1>1 DEF StackSound
  <2> HIDE DEF s2
  <2> QED
    BY <1>2, <2>1, ClosedShrinks DEF b
<1>5. ObjectsAt(frames, LastPlace) = b.objects
  BY <1>4 DEF ObjectsAt
<1> HIDE DEF b
<1>6. b.objects \subseteq DOMAIN metrics
  <2>1. BlocksHold(frames, held, DOMAIN metrics)
    BY <1>1 DEF StackSound
  <2> QED
    BY <1>4, <1>5, <2>1 DEF BlocksHold
<1>7. DOMAIN metrics' = DOMAIN metrics \ b.objects
  BY <1>2
<1>8. StackSound(frames', held', DOMAIN metrics')
  BY <1>1, <1>2, <1>4, <1>5, <1>7, EndingKeepsStack
<1>9. /\ AboveIsOpen(frames', DOMAIN metrics')
      /\ \A o \in b.objects, r \in DOMAIN metrics : QubitId(o) = QubitId(r) => ~ o[2] < r[2]
  <2> DEFINE l == DOMAIN metrics
  <2>1. StackSound(frames, held, l) /\ AboveIsOpen(frames, l)
    BY <1>1, <1>3
  <2> HIDE DEF s2, l
  <2>2. AboveIsOpen(s2, l \ b.objects)
    BY <1>4, <1>5, <2>1, EndingKeepsOrder
  <2>3. \A o \in b.objects, r \in l : QubitId(o) = QubitId(r) => ~ o[2] < r[2]
    BY <1>4, <1>5, <2>1, EndingKeepsOrder
  <2> QED
    BY <1>7, <2>2, <2>3 DEF s2, l
<1>10. TypeInv'
  <2>1. held' \in [DOMAIN held' -> Nat]
    BY DEF ClosesBlock
  <2>2. DOMAIN held' \subseteq DOMAIN held
    BY <1>2 DEF HeldLess
  <2>3. Top' = Top
    BY <1>4 DEF Top
  <2> QED
    BY <1>1, <1>2, <2>1, <2>2, <2>3 DEF TypeInv
<1>11. ObjectInv'
  <2>1. OptimizeDepth' = OptimizeDepth /\ \A o : Wire(o)' = Wire(o)
    BY <1>2 DEF OptimizeDepth, Wire
  <2>2. IsFiniteSet(DOMAIN metrics') /\ DOMAIN metrics' \subseteq QubitObjects
    BY <1>1, <1>7, FS_Subset DEF ObjectInv
  <2>3. NoGaps(Numbered')
    <3>1. NoGaps(Numbered) /\ DOMAIN metrics \subseteq QubitObjects
      BY <1>1 DEF ObjectInv
    <3>2. CASE OptimizeDepth
      BY <1>2, <2>1, <3>1, <3>2 DEF Numbered
    <3>3. CASE ~ OptimizeDepth
      <4>1. Numbered = DOMAIN metrics /\ Numbered' = DOMAIN metrics'
        BY <2>1, <3>3 DEF Numbered
      <4>2. ASSUME NEW o \in DOMAIN metrics', NEW n \in 0 .. o[2] - 1
            PROVE  <<o[1], n>> \in DOMAIN metrics'
        <5>1. o \in DOMAIN metrics /\ <<o[1], n>> \in DOMAIN metrics
          BY <1>7, <3>1, <4>1 DEF NoGaps
        <5>2. ASSUME <<o[1], n>> \in b.objects PROVE FALSE
          BY <1>9, <3>1, <5>1, <5>2 DEF QubitId, QubitObjects
        <5> QED
          BY <1>7, <5>1, <5>2
      <4> QED
        BY <4>1, <4>2 DEF NoGaps
    <3> QED
      BY <3>2, <3>3
  <2>4. \A o \in DOMAIN metrics' : QubitId(o) < fresh' /\ Wire(o)' \in DOMAIN wires'
    BY <1>1, <1>2, <1>7, <2>1 DEF ObjectInv
  <2>5. /\ IsFiniteSet(DOMAIN wires') /\ DOMAIN wires' \subseteq Wires
        /\ wires' \in [DOMAIN wires' -> Seq(GateRecords)]
        /\ OptimizeDepth' => DOMAIN wires' \subseteq QubitObjects
    BY <1>1, <1>2, <2>1 DEF ObjectInv
  <2> QED
    BY <2>2, <2>3, <2>4, <2>5 DEF ObjectInv
<1>12. StackInv'
  BY <1>8, <1>9 DEF StackInv, StackSound
<1>13. \A k \in DOMAIN frames : frames'[k].inputs = frames[k].inputs
  <2>1. DOMAIN frames' = DOMAIN frames
    BY <1>1, <1>4 DEF StackSound, WellFounded
  <2> QED
    BY <1>4, <2>1 DEF Shrinks
<1> QED
  BY <1>2, <1>4, <1>5, <1>6, <1>7, <1>10, <1>11, <1>12, <1>13 DEF StateInv, b

-----------------------------------------------------------------------------
(* Calls that begin and end.                                                *)

\* When objects and wires stay as they are.
ObjectsStay == metrics' = metrics /\ wires' = wires /\ fresh' = fresh /\ configuration' = configuration

LEMMA StayingKeepsObjects ==
    ASSUME ObjectInv, ObjectsStay
    PROVE  ObjectInv'
BY DEF ObjectInv, ObjectsStay, NoGaps, Numbered, OptimizeDepth, Wire

\* A new frame is well formed.
LEMMA FrameIsRecord ==
    ASSUME StateInv, NEW inputs \in SUBSET QubitObjects
    PROVE  /\ Frame(inputs) \in FrameRecords
           /\ Frame(inputs).inputs = inputs /\ Frame(inputs).blocks = << >>
           /\ Frame(inputs).peak = Cardinality(DOMAIN held)
<1>1. Cardinality(DOMAIN held) \in Nat
  BY IdsAreFinite DEF StateInv, TypeInv
<1>2. Gates \in SUBSET GateRecords
  <2>1. \A w \in DOMAIN wires : Range(wires[w]) \subseteq GateRecords
    BY DEF StateInv, ObjectInv, Range
  <2> QED
    BY <2>1 DEF Gates
<1>3. << >> \in Seq(BlockRecords)
  BY EmptySeq
<1> QED
  BY <1>1, <1>2, <1>3 DEF Frame, FrameRecords

\* What OnOperationStart does to the program's state.
OpensCall(inputs) ==
    /\ ~ failing /\ inputs \subseteq Reach
    /\ frames' = Append(frames, Frame(inputs))
    /\ ObjectsStay /\ failing' = failing /\ held' = held

LEMMA CallKeepsState ==
    ASSUME StateInv, NEW inputs, OpensCall(inputs)
    PROVE  /\ StateInv'
           /\ Len(frames') = Len(frames) + 1
           /\ \A k \in DOMAIN frames : frames'[k] = frames[k]
           /\ frames'[Len(frames) + 1] = Frame(inputs)
           /\ Calls(frames, frames', inputs)
<1> DEFINE s2 == frames'
<1>1. TypeInv /\ ObjectInv /\ StackSound(frames, held, DOMAIN metrics)
  BY StackInvMeaning DEF StateInv
<1>2. WellFounded(frames)
  BY <1>1 DEF StackSound
<1>3. inputs \subseteq Reached(frames, Len(frames))
  BY <1>2, ReachIsReached DEF OpensCall, Top
<1>4. inputs \subseteq DOMAIN metrics
  <2>1. Len(frames) \in DOMAIN frames
    BY <1>2, LenProperties DEF WellFounded
  <2> QED
    BY <1>1, <1>3, <2>1, ReachedIsHeld
<1>5. /\ Frame(inputs) \in FrameRecords /\ inputs \in SUBSET QubitObjects
      /\ Frame(inputs).inputs = inputs /\ Frame(inputs).blocks = << >>
  BY <1>1, <1>4, FrameIsRecord DEF ObjectInv
<1>6. s2 = Called(Frame(inputs))
  BY DEF OpensCall, Called
<1>7. /\ WellFounded(s2) /\ Len(s2) = Len(frames) + 1
      /\ Calls(frames, s2, inputs)
      /\ \A k \in DOMAIN frames : s2[k] = frames[k]
      /\ s2[Len(frames) + 1] = Frame(inputs)
  <2> DEFINE f == Frame(inputs)
  <2>1. f \in FrameRecords /\ f.inputs = inputs /\ f.blocks = << >> /\ s2 = Called(f)
    BY <1>5, <1>6
  <2> HIDE DEF s2, f
  <2>2. /\ WellFounded(s2) /\ Len(s2) = Len(frames) + 1
        /\ Calls(frames, s2, inputs)
        /\ \A k \in DOMAIN frames : s2[k] = frames[k]
        /\ s2[Len(frames) + 1] = f
    BY <1>2, <1>5, <2>1, AppendCalls
  <2> QED
    BY <2>2 DEF f
<1>8. /\ StackSound(s2, held, DOMAIN metrics)
      /\ AboveIsOpen(frames, DOMAIN metrics) => AboveIsOpen(s2, DOMAIN metrics)
  <2> HIDE DEF s2
  <2> QED
    BY <1>1, <1>3, <1>7, CallKeepsStack
<1>9. StackInv'
  <2>1. AboveIsOpen(frames, DOMAIN metrics)
    BY DEF StateInv, StackInv, OpensCall
  <2>2. held' = held /\ DOMAIN metrics' = DOMAIN metrics
    BY DEF OpensCall, ObjectsStay
  <2> QED
    BY <1>8, <2>1, <2>2 DEF StackInv, StackSound
<1>10. ObjectInv'
  BY <1>1, StayingKeepsObjects DEF OpensCall
<1>11. TypeInv'
  BY <1>1 DEF TypeInv, OpensCall, ObjectsStay
<1> QED
  BY <1>7, <1>9, <1>10, <1>11 DEF StateInv

\* What OnOperationEnd and Unwind do to the program's state.
ClosesCall ==
    /\ Top > 1 /\ frames' = Front(frames)
    /\ ObjectsStay /\ held' = held
    /\ \/ frames[Top].blocks = << >> /\ ~ failing /\ failing' = FALSE
       \/ failing /\ failing' \in BOOLEAN /\ (failing' <=> Top > 2)

LEMMA EndKeepsState ==
    ASSUME StateInv, ClosesCall
    PROVE  /\ StateInv'
           /\ Len(frames') = Len(frames) - 1
           /\ \A k \in DOMAIN frames' : frames'[k] = frames[k]
           /\ Shrinks(frames, frames', LastBlocks)
<1> DEFINE s2 == frames'
           l == DOMAIN metrics
<1>1. TypeInv /\ ObjectInv /\ StackSound(frames, held, l) /\ WellFounded(frames)
  BY StackInvMeaning DEF StateInv, StackSound
<1>2. Top > 1 /\ s2 = Front(frames) /\ held' = held /\ DOMAIN metrics' = l
  BY DEF ClosesCall, ObjectsStay
<1>3. /\ WellFounded(s2) /\ Len(s2) = Len(frames) - 1
      /\ Shrinks(frames, s2, LastBlocks)
      /\ \A k \in DOMAIN s2 : s2[k] = frames[k]
  <2> HIDE DEF s2
  <2> QED
    BY <1>1, <1>2, FrontShrinks
<1>4. StackSound(s2, held, l)
  <2>1. held \in [DOMAIN held -> Nat]
    BY <1>1 DEF TypeInv
  <2> HIDE DEF s2, l
  <2> QED
    BY <1>1, <1>3, <2>1, FailureKeepsStack
<1>5. Top \in Nat /\ Top' = Top - 1
  BY <1>1, <1>3, LenProperties DEF Top, WellFounded
<1>6. failing' \/ AboveIsOpen(s2, l)
  <2>1. CASE failing /\ (failing' <=> Top > 2)
    <3>1. ASSUME ~ failing' PROVE AboveIsOpen(s2, l)
      <4>1. Len(s2) = 1
        BY <1>2, <1>3, <1>5, <2>1, <3>1 DEF Top
      <4>2. s2[1].blocks = << >>
        BY <1>3 DEF WellFounded
      <4>3. Places(s2) = {}
        BY <1>3, <4>1, <4>2, PlaceMeaning
      <4> QED
        BY <4>3 DEF AboveIsOpen
    <3> QED
      BY <3>1
  <2>2. CASE frames[Top].blocks = << >> /\ ~ failing
    <3>1. LastBlocks = {}
      <4>1. ASSUME NEW p \in Places(frames), p[1] = Len(frames) PROVE FALSE
        <5>1. p[2] \in 1 .. Len(frames[p[1]].blocks)
          BY <1>1, PlaceMeaning
        <5> QED
          BY <2>2, <4>1, <5>1 DEF Top
      <4> QED
        BY <4>1 DEF LastBlocks
    <3>2. AboveIsOpen(frames, l)
      BY <2>2 DEF StateInv, StackInv
    <3>3. /\ Places(s2) = Places(frames)
          /\ \A p \in Places(s2) : ObjectsAt(s2, p) = ObjectsAt(frames, p)
      BY <1>3, <3>1 DEF Shrinks, ObjectsAt
    <3> HIDE DEF s2, l
    <3> QED
      BY <3>2, <3>3 DEF AboveIsOpen
  <2> QED
    BY <2>1, <2>2 DEF ClosesCall
<1>7. StackInv'
  BY <1>2, <1>4, <1>6 DEF StackInv, StackSound
<1>8. ObjectInv'
  BY <1>1, StayingKeepsObjects DEF ClosesCall
<1>9. TypeInv'
  <2>1. failing' \in BOOLEAN
    BY DEF ClosesCall
  <2>2. failing' => Top' > 1
    BY <1>5 DEF ClosesCall
  <2> QED
    BY <1>1, <2>1, <2>2 DEF TypeInv, ClosesCall, ObjectsStay
<1> QED
  BY <1>3, <1>7, <1>8, <1>9 DEF StateInv

-----------------------------------------------------------------------------
(* Gates.                                                                   *)

\* Pairs of naturals in their order; the order is well-founded.
Below == {pair \in Nat \X Nat : pair[1] < pair[2]}

LEMMA LeastCount ==
    ASSUME NEW T \in SUBSET Nat, T # {}
    PROVE  \E n \in T : \A m \in T : ~ m < n
<1>1. IsWellFoundedOn(Below, Nat)
  BY NatLessThanWellFounded DEF OpToRel, Below
<1>2. PICK n \in T : \A m \in T : <<m, n>> \notin Below
  BY <1>1, WFMin
<1> QED
  BY <1>2 DEF Below

\* Of finitely many times one is the latest: the one with the fewest later ones.
LEMMA LatestOfFinite ==
    ASSUME NEW S \in SUBSET Times, IsFiniteSet(S), S # {}
    PROVE  \E t \in S : \A s \in S : AtMost(s, t)
<1> DEFINE later(t) == {s \in S : Before(t, s)}
           counts == {Cardinality(later(t)) : t \in S}
<1>1. ASSUME NEW t \in S
      PROVE  IsFiniteSet(later(t)) /\ Cardinality(later(t)) \in Nat
  BY FS_Subset, FS_CardinalityType
<1>2. counts \in SUBSET Nat /\ counts # {}
  BY <1>1
<1>3. PICK n \in counts : \A m \in counts : ~ m < n
  BY <1>2, LeastCount
<1>4. PICK t \in S : n = Cardinality(later(t))
  OBVIOUS
<1>5. ASSUME NEW s \in S, Before(t, s)
      PROVE  FALSE
  <2>1. \A r \in S : Before(s, r) => Before(t, r)
    BY <1>5 DEF Before, Times
  <2>2. later(s) \in SUBSET later(t) /\ s \in later(t) /\ s \notin later(s)
    BY <1>5, <2>1 DEF Before, Times
  <2>3. later(s) # later(t)
    BY <2>2
  <2>4. /\ IsFiniteSet(later(t)) /\ Cardinality(later(t)) \in Nat
        /\ Cardinality(later(s)) \in Nat /\ Cardinality(later(s)) \in counts
    BY <1>1
  <2> HIDE DEF later, counts
  <2>5. Cardinality(later(s)) < Cardinality(later(t))
    BY <2>2, <2>3, <2>4, FS_Subset
  <2> QED
    BY <1>3, <1>4, <2>4, <2>5
<1> QED
  BY <1>5 DEF AtMost

LEMMA LatestEndMeaning ==
    ASSUME TimeInv, NEW objects \in SUBSET DOMAIN metrics, IsFiniteSet(objects)
    PROVE  /\ LatestEnd(objects) \in Times
           /\ LatestEnd(objects) \in {Zero} \cup {metrics[o].end : o \in objects}
           /\ \A o \in objects : AtMost(metrics[o].end, LatestEnd(objects))
<1> DEFINE ends == {metrics[o].end : o \in objects}
           S == {Zero} \cup ends
<1>1. ends \in SUBSET Times
  BY DEF TimeInv
<1>2. Zero \in Times
  BY DEF Zero, Time, Times
<1>3. IsFiniteSet(ends)
  <2> DEFINE f == [o \in objects |-> metrics[o].end]
  <2>1. f \in Surjection(objects, ends)
    BY DEF Surjection
  <2> HIDE DEF f, ends
  <2> QED
    BY <2>1, FS_Surjection
<1>4. IsFiniteSet(S)
  <2>1. IsFiniteSet({Zero})
    BY FS_Singleton
  <2> HIDE DEF ends
  <2> QED
    BY <1>3, <2>1, FS_Union
<1>5. S \in SUBSET Times /\ S # {}
  BY <1>1, <1>2
<1>6. PICK t \in S : \A s \in S : AtMost(s, t)
  <2> HIDE DEF S
  <2> QED
    BY <1>4, <1>5, LatestOfFinite
<1>7. AtMost(Zero, t) /\ \A o \in objects : AtMost(metrics[o].end, t)
  BY <1>6
<1>8. LatestEnd(objects) \in S /\ \A o \in objects : AtMost(metrics[o].end, LatestEnd(objects))
  BY <1>7 DEF LatestEnd
<1> QED
  BY <1>5, <1>8

\* A gate ends after all that its qubit did, and after its qubit's start if it fixes it.
LEMMA AdvancedMeaning ==
    ASSUME NEW m \in [start : Starts, end : Times], Before(m.start, m.end),
           NEW end \in Times, AtMost(m.end, end), NEW time \in Nat
    PROVE  /\ Advanced(m, end, time) \in [start : Starts, end : Times]
           /\ Before(Advanced(m, end, time).start, Advanced(m, end, time).end)
<1>1. PICK sd \in Int, sz \in Int, ed \in Nat, ez \in Nat :
            m = [start |-> [depth |-> sd, zeros |-> sz], end |-> [depth |-> ed, zeros |-> ez]]
  BY DEF Starts, Times
<1>2. PICK d \in Nat, z \in Nat : end = [depth |-> d, zeros |-> z]
  BY DEF Times
<1>3. /\ m.start.depth = sd /\ m.start.zeros = sz /\ m.end.depth = ed /\ m.end.zeros = ez
      /\ end.depth = d /\ end.zeros = z
  BY <1>1, <1>2
<1>4. sd < ed \/ (sd = ed /\ sz < ez)
  BY <1>3 DEF Before
<1>5. ed < d \/ (ed = d /\ ez <= z)
  BY <1>3 DEF AtMost, Before
<1>6. /\ AdvanceBy(end, time) \in Times
      /\ \A a \in Int, b \in Int : (a < d \/ (a = d /\ b <= z)) =>
            Before([depth |-> a, zeros |-> b], AdvanceBy(end, time))
  <2>1. CASE time = 0
    BY <1>2, <2>1 DEF AdvanceBy, Time, Before, Times
  <2>2. CASE time # 0
    BY <1>2, <2>2 DEF AdvanceBy, Time, Before, Times
  <2> QED
    BY <2>1, <2>2
<1>7. FixedStart(m, end) \in Starts /\ Before(FixedStart(m, end), AdvanceBy(end, time))
  <2>1. CASE m.start = MinValue
    <3>1. FixedStart(m, end) = Subtract(end, m.end)
      BY <2>1 DEF FixedStart
    <3>2. CASE d = ed
      <4>1. Subtract(end, m.end) = [depth |-> 0, zeros |-> z - ez]
        BY <1>1, <1>2, <3>2 DEF Subtract, Time
      <4>2. 0 < d \/ (0 = d /\ z - ez <= z)
        OBVIOUS
      <4> QED
        BY <1>6, <3>1, <4>1, <4>2 DEF Starts
    <3>3. CASE d # ed
      <4>1. Subtract(end, m.end) = [depth |-> d - ed, zeros |-> 0]
        BY <1>1, <1>2, <3>3 DEF Subtract, Time
      <4>2. d - ed < d \/ (d - ed = d /\ 0 <= z)
        OBVIOUS
      <4> QED
        BY <1>6, <3>1, <4>1, <4>2 DEF Starts
    <3> QED
      BY <3>2, <3>3
  <2>2. CASE m.start # MinValue
    <3>1. FixedStart(m, end) = [depth |-> sd, zeros |-> sz]
      BY <1>1, <2>2 DEF FixedStart
    <3>2. sd < d \/ (sd = d /\ sz <= z)
      BY <1>4, <1>5
    <3> QED
      BY <1>6, <3>1, <3>2 DEF Starts
  <2> QED
    BY <2>1, <2>2
<1> QED
  BY <1>6, <1>7 DEF Advanced

LEMMA GateKeepsTimes ==
    ASSUME TimeInv, NEW objects \in SUBSET DOMAIN metrics, IsFiniteSet(objects),
           NEW time \in Nat, DepthGate(objects, time)
    PROVE  TimeInv' /\ DOMAIN metrics' = DOMAIN metrics
<1>1. /\ metrics \in [DOMAIN metrics -> [start : Starts, end : Times]]
      /\ \A o \in DOMAIN metrics : Before(metrics[o].start, metrics[o].end)
  BY DEF TimeInv
<1>2. CASE metrics' = metrics
  BY <1>1, <1>2 DEF TimeInv
<1>3. CASE Cardinality(objects) = 1 /\ metrics' = SingleGate(CHOOSE o \in objects : TRUE, time)
  <2>1. objects # {}
    BY <1>3, FS_EmptySet
  <2>2. PICK o \in objects : metrics' = SingleGate(o, time)
    BY <1>3, <2>1
  <2>3. metrics' = [metrics EXCEPT ![o].end = AdvanceBy(@, time)]
    BY <2>2 DEF SingleGate
  <2> DEFINE m == metrics[o]
             m2 == [m EXCEPT !.end = AdvanceBy(@, time)]
  <2>4. m \in [start : Starts, end : Times] /\ Before(m.start, m.end)
    BY <1>1
  <2>5. metrics' = [metrics EXCEPT ![o] = m2]
    BY <2>3
  <2> HIDE DEF m
  <2>6. m2 \in [start : Starts, end : Times] /\ Before(m2.start, m2.end)
    <3>1. PICK sd \in Int, sz \in Int, ed \in Nat, ez \in Nat :
            m = [start |-> [depth |-> sd, zeros |-> sz], end |-> [depth |-> ed, zeros |-> ez]]
      BY <2>4 DEF Starts, Times
    <3>3. m.end = [depth |-> ed, zeros |-> ez] /\ m.start = [depth |-> sd, zeros |-> sz]
      BY <3>1
    <3>2. sd < ed \/ (sd = ed /\ sz < ez)
      BY <2>4, <3>3 DEF Before
    <3>4. CASE time = 0
      <4>1. m2 = [start |-> [depth |-> sd, zeros |-> sz], end |-> [depth |-> ed, zeros |-> ez + 1]]
        BY <3>1, <3>3, <3>4 DEF AdvanceBy, Time
      <4> HIDE DEF m2
      <4> QED
        BY <3>2, <4>1 DEF Before, Starts, Times
    <3>5. CASE time # 0
      <4>1. m2 = [start |-> [depth |-> sd, zeros |-> sz], end |-> [depth |-> ed + time, zeros |-> 0]]
        BY <3>1, <3>3, <3>5 DEF AdvanceBy, Time
      <4>2. sd < ed + time
        BY <3>2, <3>5
      <4>3. ed + time \in Nat
        OBVIOUS
      <4> HIDE DEF m2
      <4> QED
        BY <4>1, <4>2, <4>3 DEF Before, Starts, Times
    <3> QED
      BY <3>4, <3>5
  <2> HIDE DEF m2
  <2>7. DOMAIN metrics' = DOMAIN metrics /\ \A r \in DOMAIN metrics : metrics'[r] = IF r = o THEN m2 ELSE metrics[r]
    BY <1>1, <2>5
  <2>8. metrics' \in [DOMAIN metrics' -> [start : Starts, end : Times]]
    BY <1>1, <2>5, <2>6
  <2> QED
    BY <1>1, <2>6, <2>7, <2>8 DEF TimeInv
<1>4. CASE metrics' = MultiGate(objects, time)
  <2> DEFINE end == LatestEnd(objects)
  <2>1. end \in Times /\ \A o \in objects : AtMost(metrics[o].end, end)
    BY LatestEndMeaning
  <2>2. metrics' = [o \in DOMAIN metrics |->
            IF o \in objects THEN Advanced(metrics[o], end, time) ELSE metrics[o]]
    BY <1>4 DEF MultiGate
  <2> HIDE DEF end
  <2>3. ASSUME NEW o \in objects
        PROVE  /\ Advanced(metrics[o], end, time) \in [start : Starts, end : Times]
               /\ Before(Advanced(metrics[o], end, time).start, Advanced(metrics[o], end, time).end)
    BY <1>1, <2>1, AdvancedMeaning
  <2>4. DOMAIN metrics' = DOMAIN metrics
    BY <2>2
  <2>5. metrics' \in [DOMAIN metrics' -> [start : Starts, end : Times]]
    BY <1>1, <2>2, <2>3
  <2>6. \A o \in DOMAIN metrics' : Before(metrics'[o].start, metrics'[o].end)
    BY <1>1, <2>2, <2>3
  <2> QED
    BY <2>4, <2>5, <2>6 DEF TimeInv
<1> QED
  BY <1>2, <1>3, <1>4 DEF DepthGate

\* What a gate or a measurement does to the program's state.
RunsGate(objects, time) ==
    /\ objects \subseteq Reach /\ time \in Nat
    /\ wires' = WithGate({Wire(o) : o \in objects}, time)
    /\ DOMAIN metrics' = DOMAIN metrics
    /\ frames' = frames /\ held' = held /\ fresh' = fresh /\ failing' = failing
    /\ configuration' = configuration

\* What is in reach is live, and finite.
LEMMA ReachIsLive ==
    ASSUME StateInv
    PROVE  /\ Reach \subseteq DOMAIN metrics /\ Reach \subseteq QubitObjects
           /\ IsFiniteSet(Reach)
           /\ \A o \in Reach : QubitId(o) \in DOMAIN held
<1>1. ObjectInv /\ StackSound(frames, held, DOMAIN metrics) /\ WellFounded(frames)
  BY StackInvMeaning DEF StateInv, StackSound
<1>2. Len(frames) \in DOMAIN frames
  BY <1>1, LenProperties DEF WellFounded
<1>3. \A o \in Reach : o \in DOMAIN metrics /\ QubitId(o) \in DOMAIN held
  BY <1>1, <1>2, ReachIsReached, ReachedIsHeld DEF Top
<1>4. IsFiniteSet(DOMAIN metrics) /\ DOMAIN metrics \subseteq QubitObjects
  BY <1>1 DEF ObjectInv
<1> QED
  BY <1>3, <1>4, FS_Subset

\* There are finitely many gates.
LEMMA GatesAreFinite ==
    ASSUME ObjectInv
    PROVE  IsFiniteSet(Gates) /\ Cardinality(Gates) \in Nat
<1> DEFINE range == [w \in DOMAIN wires |-> Range(wires[w])]
           ranges == {Range(wires[w]) : w \in DOMAIN wires}
<1>1. ASSUME NEW w \in DOMAIN wires
      PROVE  IsFiniteSet(Range(wires[w]))
  <2> DEFINE s == wires[w]
  <2>1. s \in Seq(GateRecords)
    BY DEF ObjectInv
  <2> HIDE DEF s
  <2>2. DOMAIN s = 1 .. Len(s) /\ Len(s) \in Nat
    BY <2>1
  <2>3. IsFiniteSet(DOMAIN s)
    <3>1. 1 \in Int /\ Len(s) \in Int
      BY <2>2
    <3> QED
      BY <2>2, <3>1, FS_Interval
  <2>4. s \in Surjection(DOMAIN s, Range(s))
    BY <2>1 DEF Surjection, Range
  <2>5. IsFiniteSet(Range(s))
    BY <2>3, <2>4, FS_Surjection
  <2> QED
    BY <2>5 DEF s
<1>2. IsFiniteSet(ranges)
  <2>1. range \in Surjection(DOMAIN wires, ranges)
    BY DEF Surjection
  <2>2. IsFiniteSet(DOMAIN wires)
    BY DEF ObjectInv
  <2> HIDE DEF range, ranges
  <2> QED
    BY <2>1, <2>2, FS_Surjection
<1>3. \A r \in ranges : IsFiniteSet(r)
  BY <1>1
<1> HIDE DEF ranges
<1>4. IsFiniteSet(UNION ranges)
  BY <1>2, <1>3, FS_UNION
<1>5. IsFiniteSet(Gates)
  BY <1>4 DEF Gates, ranges
<1> QED
  BY <1>5, FS_CardinalityType

LEMMA NewGateIsRecord ==
    ASSUME ObjectInv, NEW on \in SUBSET Wires, NEW time \in Nat
    PROVE  NewGate(on, time) \in GateRecords
<1> DEFINE same == {g \in Gates : g.on = on}
<1>1. Cardinality(same) \in Nat
  BY GatesAreFinite, FS_Subset, FS_CardinalityType
<1> HIDE DEF same
<1>2. Cardinality(same) + 1 \in Nat
  BY <1>1
<1> QED
  BY <1>2 DEF NewGate, GateRecords, same

LEMMA GateKeepsState ==
    ASSUME StateInv, NEW objects, NEW time, RunsGate(objects, time)
    PROVE  StateInv'
<1> DEFINE on == {Wire(o) : o \in objects}
<1>1. TypeInv /\ ObjectInv /\ StackInv
  BY DEF StateInv
<1>2. /\ objects \subseteq DOMAIN metrics /\ objects \subseteq QubitObjects /\ time \in Nat
      /\ wires' = WithGate(on, time) /\ DOMAIN metrics' = DOMAIN metrics
      /\ frames' = frames /\ held' = held /\ fresh' = fresh /\ failing' = failing
      /\ configuration' = configuration
  BY ReachIsLive DEF RunsGate
<1>3. on \subseteq Wires
  BY <1>2 DEF Wire, Wires, QubitId, QubitObjects
<1>4. OptimizeDepth' = OptimizeDepth /\ \A o : Wire(o)' = Wire(o)
  BY <1>2 DEF OptimizeDepth, Wire
<1> HIDE DEF on
<1>5. /\ DOMAIN wires' = DOMAIN wires
      /\ wires' \in [DOMAIN wires' -> Seq(GateRecords)]
  <2> DEFINE g == NewGate(on, time)
  <2>1. wires' = [w \in DOMAIN wires |-> IF w \in on THEN Append(wires[w], g) ELSE wires[w]]
    BY <1>2 DEF WithGate
  <2>2. g \in GateRecords
    BY <1>1, <1>2, <1>3, NewGateIsRecord
  <2> HIDE DEF g
  <2>3. \A w \in DOMAIN wires : wires[w] \in Seq(GateRecords)
    BY <1>1 DEF ObjectInv
  <2>4. \A w \in DOMAIN wires : Append(wires[w], g) \in Seq(GateRecords)
    BY <2>2, <2>3, AppendProperties
  <2> QED
    BY <2>1, <2>3, <2>4
<1>6. Numbered' = Numbered
  BY <1>2, <1>4, <1>5 DEF Numbered
<1>7. ObjectInv'
  <2>1. /\ IsFiniteSet(DOMAIN metrics') /\ DOMAIN metrics' \subseteq QubitObjects
        /\ IsFiniteSet(DOMAIN wires') /\ DOMAIN wires' \subseteq Wires
        /\ OptimizeDepth' => DOMAIN wires' \subseteq QubitObjects
    BY <1>1, <1>2, <1>4, <1>5 DEF ObjectInv
  <2>2. NoGaps(Numbered')
    BY <1>1, <1>6 DEF ObjectInv
  <2>3. \A o \in DOMAIN metrics' : QubitId(o) < fresh' /\ Wire(o)' \in DOMAIN wires'
    BY <1>1, <1>2, <1>4, <1>5 DEF ObjectInv
  <2> QED
    BY <1>5, <2>1, <2>2, <2>3 DEF ObjectInv, NoGaps
<1>8. TypeInv'
  BY <1>1, <1>2 DEF TypeInv, Top
<1>9. StackInv'
  BY <1>1, <1>2 DEF StackInv
<1> QED
  BY <1>7, <1>8, <1>9 DEF StateInv

-----------------------------------------------------------------------------
(* Constraints.                                                             *)

\* What a qubit may be told of its constraint.
Knowledge == [of : Constraints \cup {None}, position : Nat]

\* The parts of the invariant, by the step that has to keep them.
LEMMA KnownMeaning ==
    ASSUME KnownInv
    PROVE  /\ DOMAIN constraint = DOMAIN metrics /\ constraint \in [DOMAIN constraint -> Knowledge]
           /\ \A o \in DOMAIN constraint : constraint[o].of # None =>
                /\ constraint[o].position \in DOMAIN constraint[o].of.qubits
                /\ constraint[o].of.qubits[constraint[o].position] = o
           /\ \A f \in facts :
                IsFact(f) /\ \A o \in f.on : o \in DOMAIN constraint /\ constraint[o].of = f.of
           /\ \A f \in facts, g \in facts : f.of = g.of => f = g
           /\ \A o \in DOMAIN constraint : constraint[o].of # None => \E f \in facts : o \in f.on
BY DEF KnownInv, ConstraintInv, FactInv, KnownOf, Knowledge

\* What is left of the facts when they say nothing of the objects: the rest is as it was.
LEMMA WithoutKeepsFacts ==
    ASSUME KnownInv, NEW objects
    PROVE  /\ \A f \in Without(objects) :
                /\ IsFact(f)
                /\ \A o \in f.on : o \in DOMAIN constraint \ objects /\ constraint[o].of = f.of
                /\ ~ (Range(f.of.qubits) \subseteq objects)
           /\ \A f \in Without(objects), g \in Without(objects) : f.of = g.of => f = g
           /\ \A o \in DOMAIN constraint \ objects :
                constraint[o].of # None => \E f \in Without(objects) : o \in f.on
<1> DEFINE left(f) == [of |-> f.of, on |-> f.on \ objects, unmeasured |-> f.unmeasured \ objects]
           kept == {g \in facts : ~ (g.on \subseteq objects)}
<1>1. Without(objects) = {left(f) : f \in kept}
  BY DEF Without
<1>2. ASSUME NEW g \in kept
      PROVE  /\ IsFact(left(g)) /\ left(g).of = g.of /\ left(g).on = g.on \ objects
             /\ \A o \in left(g).on : o \in DOMAIN constraint \ objects /\ constraint[o].of = left(g).of
             /\ ~ (Range(left(g).of.qubits) \subseteq objects)
  <2>1. /\ IsFact(g) /\ ~ (g.on \subseteq objects)
        /\ \A o \in g.on : o \in DOMAIN constraint /\ constraint[o].of = g.of
    BY KnownMeaning
  <2>2. left(g) \in FactRecords
    BY <2>1 DEF IsFact, FactRecords
  <2>3. left(g).of = g.of /\ left(g).on = g.on \ objects
    OBVIOUS
  <2> HIDE DEF left
  <2>4. IsFact(left(g))
    BY <2>1, <2>2, <2>3 DEF IsFact
  <2>5. ~ (Range(g.of.qubits) \subseteq objects)
    BY <2>1 DEF IsFact
  <2> QED
    BY <2>1, <2>3, <2>4, <2>5
<1>3. \A g \in kept : g \in facts
  OBVIOUS
<1>4. \A g \in facts : \A o \in g.on \ objects : g \in kept
  OBVIOUS
<1> HIDE DEF left, kept
<1>5. \A f \in Without(objects) :
        /\ IsFact(f) /\ ~ (Range(f.of.qubits) \subseteq objects)
        /\ \A o \in f.on : o \in DOMAIN constraint \ objects /\ constraint[o].of = f.of
  BY <1>1, <1>2
<1>6. ASSUME NEW f \in Without(objects), NEW g \in Without(objects), f.of = g.of
      PROVE  f = g
  <2>1. PICK a \in kept : f = left(a)
    BY <1>1
  <2>2. PICK b \in kept : g = left(b)
    BY <1>1
  <2>3. a.of = b.of
    BY <1>2, <1>6, <2>1, <2>2
  <2>4. a = b
    BY <1>3, <2>3, KnownMeaning
  <2> QED
    BY <2>1, <2>2, <2>4
<1>7. ASSUME NEW o \in DOMAIN constraint \ objects, constraint[o].of # None
      PROVE  \E f \in Without(objects) : o \in f.on
  <2>1. PICK g \in facts : o \in g.on
    BY <1>7, KnownMeaning
  <2>2. g \in kept /\ o \in g.on \ objects
    BY <1>4, <2>1
  <2> QED
    BY <1>1, <1>2, <2>2
<1> QED
  BY <1>5, <1>6, <1>7

\* The invariant of the next state, by its parts.
LEMMA KnownFollows ==
    ASSUME DOMAIN constraint' = DOMAIN metrics', constraint' \in [DOMAIN constraint' -> Knowledge],
           \A o \in DOMAIN constraint' : constraint'[o].of # None =>
                /\ constraint'[o].position \in DOMAIN constraint'[o].of.qubits
                /\ constraint'[o].of.qubits[constraint'[o].position] = o,
           \A f \in facts' :
                IsFact(f) /\ \A o \in f.on : o \in DOMAIN constraint' /\ constraint'[o].of = f.of,
           \A f \in facts', g \in facts' : f.of = g.of => f = g,
           \A o \in DOMAIN constraint' : constraint'[o].of # None => \E f \in facts' : o \in f.on
    PROVE  KnownInv'
BY DEF KnownInv, ConstraintInv, FactInv, KnownOf, Knowledge, IsFact, FactRecords, Constraints, QubitObjects

\* Nothing is said of qubits that go.
LEMMA DiscardKeepsKnown ==
    ASSUME KnownInv, NEW objects, ConstraintDiscard(objects),
           DOMAIN metrics' = DOMAIN metrics \ objects
    PROVE  KnownInv'
<1>1. /\ constraint' = [o \in DOMAIN constraint \ objects |-> constraint[o]]
      /\ facts' = Without(objects)
  BY DEF ConstraintDiscard
<1>2. /\ DOMAIN constraint' = DOMAIN constraint \ objects
      /\ \A o \in DOMAIN constraint' : constraint'[o] = constraint[o]
  BY <1>1
<1>3. /\ DOMAIN constraint' = DOMAIN metrics'
      /\ constraint' \in [DOMAIN constraint' -> Knowledge]
  BY <1>1, <1>2, KnownMeaning
<1>4. \A o \in DOMAIN constraint' : constraint'[o].of # None =>
        /\ constraint'[o].position \in DOMAIN constraint'[o].of.qubits
        /\ constraint'[o].of.qubits[constraint'[o].position] = o
  BY <1>2, KnownMeaning
<1>5. \A f \in facts' :
        IsFact(f) /\ \A o \in f.on : o \in DOMAIN constraint' /\ constraint'[o].of = f.of
  BY <1>1, <1>2, WithoutKeepsFacts
<1>6. \A f \in facts', g \in facts' : f.of = g.of => f = g
  BY <1>1, WithoutKeepsFacts
<1>7. \A o \in DOMAIN constraint' : constraint'[o].of # None => \E f \in facts' : o \in f.on
  BY <1>1, <1>2, WithoutKeepsFacts
<1> QED
  BY <1>3, <1>4, <1>5, <1>6, <1>7, KnownFollows

\* Of qubits that are used nothing is known any more.
LEMMA UseKeepsKnown ==
    ASSUME KnownInv, NEW objects, OnUseQubit(objects), DOMAIN metrics' = DOMAIN metrics
    PROVE  KnownInv'
<1>1. /\ constraint' = [o \in DOMAIN constraint |->
                            IF o \in objects THEN [of |-> None, position |-> 1] ELSE constraint[o]]
      /\ facts' = Without(objects)
  BY DEF OnUseQubit
<1>2. /\ DOMAIN constraint' = DOMAIN constraint
      /\ \A o \in DOMAIN constraint : o \notin objects => constraint'[o] = constraint[o]
      /\ \A o \in DOMAIN constraint : o \in objects => constraint'[o] = [of |-> None, position |-> 1]
  BY <1>1
<1>3. [of |-> None, position |-> 1] \in Knowledge
  BY DEF Knowledge
<1>4. DOMAIN constraint' = DOMAIN metrics'
  BY <1>2, KnownMeaning
<1>5. constraint' \in [DOMAIN constraint' -> Knowledge]
  BY <1>1, <1>3, KnownMeaning
<1>6. \A o \in DOMAIN constraint' : constraint'[o].of # None =>
        /\ constraint'[o].position \in DOMAIN constraint'[o].of.qubits
        /\ constraint'[o].of.qubits[constraint'[o].position] = o
  BY <1>2, KnownMeaning
<1>7. \A f \in facts' :
        IsFact(f) /\ \A o \in f.on : o \in DOMAIN constraint' /\ constraint'[o].of = f.of
  BY <1>1, <1>2, WithoutKeepsFacts
<1>8. \A f \in facts', g \in facts' : f.of = g.of => f = g
  BY <1>1, WithoutKeepsFacts
<1>9. ASSUME NEW o \in DOMAIN constraint', constraint'[o].of # None
      PROVE  \E f \in facts' : o \in f.on
  <2>1. o \in DOMAIN constraint \ objects /\ constraint[o].of # None
    BY <1>2, <1>9
  <2> QED
    BY <1>1, <2>1, WithoutKeepsFacts
<1> QED
  BY <1>4, <1>5, <1>6, <1>7, <1>8, <1>9, KnownFollows

\* A measurement changes nothing of what is known, but is remembered.
LEMMA MeasureKeepsKnown ==
    ASSUME KnownInv, NEW objects, OnMeasure(objects), DOMAIN metrics' = DOMAIN metrics
    PROVE  KnownInv'
<1> DEFINE after(f) == [f EXCEPT !.unmeasured = @ \ objects]
<1>1. constraint' = constraint /\ facts' = {after(f) : f \in facts}
  BY DEF OnMeasure
<1>2. ASSUME NEW f \in facts
      PROVE  IsFact(after(f)) /\ after(f).of = f.of /\ after(f).on = f.on
  <2>1. IsFact(f)
    BY KnownMeaning
  <2>2. after(f) \in FactRecords /\ after(f).of = f.of /\ after(f).on = f.on
    BY <2>1 DEF IsFact, FactRecords
  <2> HIDE DEF after
  <2> QED
    BY <2>1, <2>2 DEF IsFact
<1> HIDE DEF after
<1>3. /\ DOMAIN constraint' = DOMAIN metrics' /\ constraint' \in [DOMAIN constraint' -> Knowledge]
      /\ \A o \in DOMAIN constraint' : constraint'[o].of # None =>
            /\ constraint'[o].position \in DOMAIN constraint'[o].of.qubits
            /\ constraint'[o].of.qubits[constraint'[o].position] = o
  BY <1>1, KnownMeaning
<1>4. \A f \in facts' :
        IsFact(f) /\ \A o \in f.on : o \in DOMAIN constraint' /\ constraint'[o].of = f.of
  BY <1>1, <1>2, KnownMeaning
<1>5. ASSUME NEW f \in facts', NEW g \in facts', f.of = g.of
      PROVE  f = g
  <2>1. PICK a \in facts : f = after(a)
    BY <1>1
  <2>2. PICK b \in facts : g = after(b)
    BY <1>1
  <2>3. a = b
    BY <1>2, <1>5, <2>1, <2>2, KnownMeaning
  <2> QED
    BY <2>1, <2>2, <2>3
<1>6. \A o \in DOMAIN constraint' : constraint'[o].of # None => \E f \in facts' : o \in f.on
  BY <1>1, <1>2, KnownMeaning
<1> QED
  BY <1>3, <1>4, <1>5, <1>6, KnownFollows

\* A constraint that may be set: its qubits are known and differ.
Settable(c) ==
    /\ c \in Constraints /\ Len(c.qubits) > 0
    /\ \A i \in DOMAIN c.qubits : c.qubits[i] \in DOMAIN constraint
    /\ \A i \in DOMAIN c.qubits, j \in DOMAIN c.qubits : c.qubits[i] = c.qubits[j] => i = j

\* What is asserted says something of all its qubits.
LEMMA AssertedIsFact ==
    ASSUME NEW c \in Constraints, Len(c.qubits) > 0,
           \A i \in DOMAIN c.qubits, j \in DOMAIN c.qubits : c.qubits[i] = c.qubits[j] => i = j
    PROVE  IsFact(Fact(c)) /\ Fact(c).of = c /\ Fact(c).on = Range(c.qubits)
<1>1. c.qubits \in Seq(QubitObjects)
  BY DEF Constraints
<1>2. 1 \in DOMAIN c.qubits
  BY <1>1
<1>3. Range(c.qubits) \in SUBSET QubitObjects /\ Range(c.qubits) # {}
  <2> DEFINE s == c.qubits
  <2>1. \A i \in DOMAIN s : s[i] \in QubitObjects
    BY <1>1
  <2> HIDE DEF s
  <2>2. Range(s) \subseteq QubitObjects
    BY <2>1 DEF Range
  <2>3. 1 \in DOMAIN s
    BY <1>2 DEF s
  <2>4. s[1] \in Range(s)
    BY <2>3 DEF Range
  <2> QED
    BY <2>2, <2>4 DEF s
<1>4. Fact(c).of = c /\ Fact(c).on = Range(c.qubits) /\ Fact(c) \in FactRecords
  BY <1>3 DEF Fact, FactRecords
<1> QED
  BY <1>3, <1>4 DEF IsFact

\* All qubits of a constraint that is set have it, each at its place.
LEMMA SetKeepsKnown ==
    ASSUME KnownInv, NEW c, Settable(c), SetConstraint(c), DOMAIN metrics' = DOMAIN metrics
    PROVE  KnownInv'
<1> DEFINE on == Range(c.qubits)
<1>1. /\ constraint' = [o \in DOMAIN constraint |-> IF o \in on THEN Positioned(c, o) ELSE constraint[o]]
      /\ facts' = Without(on) \cup {Fact(c)}
  BY DEF SetConstraint
<1>2. c \in Constraints /\ c.qubits \in Seq(QubitObjects)
  BY DEF Settable, Constraints
<1>3. ASSUME NEW i \in DOMAIN c.qubits
      PROVE  c.qubits[i] \in on /\ Positioned(c, c.qubits[i]) = [of |-> c, position |-> i]
  <2>1. (CHOOSE j \in DOMAIN c.qubits : c.qubits[j] = c.qubits[i]) = i
    BY DEF Settable
  <2> QED
    BY <2>1 DEF Positioned, Range
<1>4. ASSUME NEW o \in on
      PROVE  \E i \in DOMAIN c.qubits : c.qubits[i] = o /\ Positioned(c, o) = [of |-> c, position |-> i]
  BY <1>3 DEF Range
<1>5. DOMAIN c.qubits \subseteq Nat
  BY <1>2
<1>6. /\ DOMAIN constraint' = DOMAIN constraint
      /\ \A o \in DOMAIN constraint : o \notin on => constraint'[o] = constraint[o]
      /\ \A o \in DOMAIN constraint : o \in on => constraint'[o] = Positioned(c, o)
  BY <1>1
<1>7. IsFact(Fact(c)) /\ Fact(c).of = c /\ Fact(c).on = on
  BY <1>2, AssertedIsFact DEF Settable
<1>8. on \subseteq DOMAIN constraint
  BY DEF Settable, Range
<1>9. \A f \in Without(on) : f.of # c
  BY WithoutKeepsFacts
<1> HIDE DEF on
<1>10. DOMAIN constraint' = DOMAIN metrics'
  BY <1>6, KnownMeaning
<1>11. constraint' \in [DOMAIN constraint' -> Knowledge]
  <2>1. \A o \in on : Positioned(c, o) \in Knowledge
    BY <1>2, <1>4, <1>5 DEF Knowledge
  <2> QED
    BY <1>1, <2>1, KnownMeaning
<1>12. ASSUME NEW o \in DOMAIN constraint', constraint'[o].of # None
       PROVE  /\ constraint'[o].position \in DOMAIN constraint'[o].of.qubits
              /\ constraint'[o].of.qubits[constraint'[o].position] = o
  <2>1. CASE o \in on
    <3>1. PICK i \in DOMAIN c.qubits : c.qubits[i] = o /\ constraint'[o] = [of |-> c, position |-> i]
      BY <1>4, <1>6, <2>1
    <3> QED
      BY <3>1
  <2>2. CASE o \notin on
    BY <1>6, <1>12, <2>2, KnownMeaning
  <2> QED
    BY <2>1, <2>2
<1>13. ASSUME NEW f \in facts'
       PROVE  IsFact(f) /\ \A o \in f.on : o \in DOMAIN constraint' /\ constraint'[o].of = f.of
  <2>1. CASE f \in Without(on)
    BY <1>6, <2>1, WithoutKeepsFacts
  <2>2. CASE f = Fact(c)
    <3>1. ASSUME NEW o \in on
          PROVE  o \in DOMAIN constraint' /\ constraint'[o].of = c
      BY <1>4, <1>6, <1>8
    <3> QED
      BY <1>7, <2>2, <3>1
  <2> QED
    BY <1>1, <2>1, <2>2
<1>14. ASSUME NEW f \in facts', NEW g \in facts', f.of = g.of
       PROVE  f = g
  BY <1>1, <1>7, <1>9, <1>14, WithoutKeepsFacts
<1>15. ASSUME NEW o \in DOMAIN constraint', constraint'[o].of # None
       PROVE  \E f \in facts' : o \in f.on
  <2>1. CASE o \in on
    BY <1>1, <1>7, <2>1
  <2>2. CASE o \notin on
    <3>1. o \in DOMAIN constraint \ on /\ constraint[o].of # None
      BY <1>6, <1>15, <2>2
    <3> QED
      BY <1>1, <3>1, WithoutKeepsFacts
  <2> QED
    BY <2>1, <2>2
<1> QED
  BY <1>10, <1>11, <1>12, <1>13, <1>14, <1>15, KnownFollows

\* New qubits are known to be zero.
LEMMA AllocateKeepsKnown ==
    ASSUME KnownInv, NEW objects \in SUBSET QubitObjects, objects \cap DOMAIN metrics = {},
           ConstraintAllocate(objects), DOMAIN metrics' = DOMAIN metrics \cup objects
    PROVE  KnownInv'
<1>1. /\ constraint' = [o \in DOMAIN constraint \cup objects |->
                        IF o \in objects THEN [of |-> ZeroStateAssert(o), position |-> 1]
                        ELSE constraint[o]]
      /\ facts' = facts \cup {Fact(ZeroStateAssert(o)) : o \in objects}
  BY DEF ConstraintAllocate
<1>2. ASSUME NEW o \in QubitObjects
      PROVE  /\ ZeroStateAssert(o) \in Constraints /\ ZeroStateAssert(o).qubits = <<o>>
             /\ IsFact(Fact(ZeroStateAssert(o)))
             /\ Fact(ZeroStateAssert(o)).of = ZeroStateAssert(o) /\ Fact(ZeroStateAssert(o)).on = {o}
  <2> DEFINE c == ZeroStateAssert(o)
  <2>1. <<o>> \in Seq(QubitObjects) /\ <<"Z">> \in Seq({"Z"} \cup UNION {x.Paulis : x \in Configurations})
    OBVIOUS
  <2>2. c \in Constraints /\ c.qubits = <<o>>
    BY <2>1 DEF ZeroStateAssert, MeasurementConstraint, Constraints
  <2>3. Range(<<o>>) = {o}
    BY DEF Range
  <2> HIDE DEF c
  <2>4. /\ Len(c.qubits) > 0
        /\ \A i \in DOMAIN c.qubits, j \in DOMAIN c.qubits : c.qubits[i] = c.qubits[j] => i = j
    BY <2>2
  <2>5. IsFact(Fact(c)) /\ Fact(c).of = c /\ Fact(c).on = {o}
    BY <2>2, <2>3, <2>4, AssertedIsFact
  <2> QED
    BY <2>2, <2>5 DEF c
<1>3. /\ DOMAIN constraint' = DOMAIN constraint \cup objects
      /\ DOMAIN constraint \cap objects = {}
      /\ \A o \in DOMAIN constraint : constraint'[o] = constraint[o]
      /\ \A o \in objects : constraint'[o] = [of |-> ZeroStateAssert(o), position |-> 1]
  BY <1>1, KnownMeaning
<1>4. DOMAIN constraint' = DOMAIN metrics'
  BY <1>3, KnownMeaning
<1>5. constraint' \in [DOMAIN constraint' -> Knowledge]
  <2>1. \A o \in objects : [of |-> ZeroStateAssert(o), position |-> 1] \in Knowledge
    BY <1>2 DEF Knowledge
  <2>2. constraint' = [o \in DOMAIN constraint' |-> constraint'[o]]
    BY <1>1
  <2>3. \A o \in DOMAIN constraint' : constraint'[o] \in Knowledge
    BY <1>3, <2>1, KnownMeaning
  <2> QED
    BY <2>2, <2>3
<1>6. ASSUME NEW o \in DOMAIN constraint', constraint'[o].of # None
      PROVE  /\ constraint'[o].position \in DOMAIN constraint'[o].of.qubits
             /\ constraint'[o].of.qubits[constraint'[o].position] = o
  <2>1. CASE o \in objects
    BY <1>2, <1>3, <2>1
  <2>2. CASE o \notin objects
    BY <1>3, <1>6, <2>2, KnownMeaning
  <2> QED
    BY <2>1, <2>2
<1>7. ASSUME NEW f \in facts'
      PROVE  IsFact(f) /\ \A o \in f.on : o \in DOMAIN constraint' /\ constraint'[o].of = f.of
  <2>1. CASE f \in facts
    BY <1>3, <2>1, KnownMeaning
  <2>2. ASSUME NEW o \in objects, f = Fact(ZeroStateAssert(o))
        PROVE  IsFact(f) /\ \A r \in f.on : r \in DOMAIN constraint' /\ constraint'[r].of = f.of
    BY <1>2, <1>3, <2>2
  <2> QED
    BY <1>1, <2>1, <2>2
\* An older fact about the zero state of a qubit would be about a known one.
<1>8. ASSUME NEW o \in objects, NEW f \in facts
      PROVE  f.of # ZeroStateAssert(o)
  <2>1. /\ f.on # {} /\ f.on \subseteq Range(f.of.qubits) /\ f.on \subseteq DOMAIN constraint
    BY KnownMeaning DEF IsFact
  <2>2. Range(<<o>>) = {o} /\ ZeroStateAssert(o).qubits = <<o>>
    BY <1>2 DEF Range
  <2> QED
    BY <1>3, <2>1, <2>2
<1>9. ASSUME NEW o \in objects, NEW r \in objects, ZeroStateAssert(o) = ZeroStateAssert(r)
      PROVE  o = r
  <2>1. <<o>> = <<r>>
    BY <1>2, <1>9
  <2> QED
    BY <2>1
<1>10. ASSUME NEW f \in facts', NEW g \in facts', f.of = g.of
       PROVE  f = g
  <2>1. CASE f \in facts /\ g \in facts
    BY <1>10, <2>1, KnownMeaning
  <2>2. CASE \E o \in objects : f = Fact(ZeroStateAssert(o))
    <3>1. PICK o \in objects : f = Fact(ZeroStateAssert(o)) /\ f.of = ZeroStateAssert(o)
      BY <1>2, <2>2
    <3>2. PICK r \in objects : g = Fact(ZeroStateAssert(r)) /\ g.of = ZeroStateAssert(r)
      BY <1>1, <1>2, <1>8, <1>10, <3>1
    <3> QED
      BY <1>9, <1>10, <3>1, <3>2
  <2>3. CASE \E o \in objects : g = Fact(ZeroStateAssert(o))
    <3>1. PICK o \in objects : g = Fact(ZeroStateAssert(o)) /\ g.of = ZeroStateAssert(o)
      BY <1>2, <2>3
    <3>2. PICK r \in objects : f = Fact(ZeroStateAssert(r)) /\ f.of = ZeroStateAssert(r)
      BY <1>1, <1>2, <1>8, <1>10, <3>1
    <3> QED
      BY <1>9, <1>10, <3>1, <3>2
  <2> QED
    BY <1>1, <2>1, <2>2, <2>3
<1>11. ASSUME NEW o \in DOMAIN constraint', constraint'[o].of # None
       PROVE  \E f \in facts' : o \in f.on
  <2>1. CASE o \in objects
    BY <1>1, <1>2, <2>1
  <2>2. CASE o \notin objects
    BY <1>1, <1>3, <1>11, <2>2, KnownMeaning
  <2> QED
    BY <2>1, <2>2
<1> QED
  BY <1>4, <1>5, <1>6, <1>7, <1>10, <1>11, KnownFollows


-----------------------------------------------------------------------------
(* Peaks and widths.                                                        *)

\* The records and frames that the width counter's invariant is about.
LEMMA PeaksAreNumbers ==
    ASSUME StateInv, CallInv, WidthInv
    PROVE  /\ Top \in Nat /\ Top > 0 /\ DOMAIN frames = 1 .. Top
           /\ \A k \in DOMAIN frames : frames[k].peak \in Nat
           /\ Len(widthCalls) \in 1 .. Top /\ DOMAIN widthCalls = 1 .. Len(widthCalls)
           /\ \A j \in DOMAIN widthCalls :
                widthCalls[j] \in WidthRecords /\ widthCalls[j].maxAllocated \in Nat
           /\ allocatedQubits \in Nat /\ configuration.CallStackDepthLimit \in Nat
<1>1. frames \in Seq(FrameRecords) /\ Len(frames) > 0
  BY DEF StateInv, StackInv, WellFounded
<1>2. Top \in Nat /\ Top > 0 /\ DOMAIN frames = 1 .. Top
  BY <1>1 DEF Top
<1>3. \A k \in DOMAIN frames : frames[k].peak \in Nat
  BY <1>1, <1>2, FrameParts DEF Top
<1>4. configuration.CallStackDepthLimit \in Nat
  BY ConstantsAssumption DEF StateInv, TypeInv
<1>5. widthCalls \in Seq(WidthRecords)
  BY DEF WidthInv
<1>6. Len(widthCalls) \in 1 .. Top
  BY <1>2, <1>4 DEF CallInv
<1>7. ASSUME NEW j \in DOMAIN widthCalls
      PROVE  widthCalls[j] \in WidthRecords /\ widthCalls[j].maxAllocated \in Nat
  <2>1. widthCalls[j] \in WidthRecords
    BY <1>5
  <2> QED
    BY <2>1 DEF WidthRecords
<1>8. allocatedQubits \in Nat
  BY IdsAreFinite DEF StateInv, TypeInv, WidthInv
<1> QED
  BY <1>2, <1>3, <1>4, <1>5, <1>6, <1>7, <1>8

\* A block more: the last record and the peaks of all frames may rise to w.
RaisesPeaks(w) ==
    /\ w \in Nat /\ allocatedQubits' = w /\ Cardinality(DOMAIN held') = w
    /\ widthCalls' \in Seq(WidthRecords) /\ Len(widthCalls') = Len(widthCalls)
    /\ \A j \in DOMAIN widthCalls : widthCalls'[j].maxAllocated =
            IF j = Len(widthCalls) THEN Max({widthCalls[j].maxAllocated, w})
            ELSE widthCalls[j].maxAllocated
    /\ Len(frames') = Len(frames) /\ DOMAIN frames' = DOMAIN frames
    /\ \A k \in DOMAIN frames : frames'[k].peak = Max({frames[k].peak, w})

\* Of the numbers m from k to n the largest is p.
LargestIs(m, k, n, p) == (\A j \in k .. n : m[j] <= p) /\ \E j \in k .. n : m[j] = p

\* The last of them rises to w.
LastRises(m, m2, n, w) == \A j \in 1 .. n : m2[j] = IF j = n THEN Max({m[j], w}) ELSE m[j]

LEMMA LargestRises ==
    ASSUME NEW n \in Nat, NEW m \in [1 .. n -> Nat], NEW m2, NEW w \in Nat,
           LastRises(m, m2, n, w),
           NEW k \in 1 .. n, NEW p \in Nat, LargestIs(m, k, n, p)
    PROVE  LargestIs(m2, k, n, Max({p, w}))
<1> DEFINE p2 == Max({p, w})
<1>1. p2 = IF p >= w THEN p ELSE w
  BY MaxOfTwo
<1>2. ASSUME NEW j \in 1 .. n
      PROVE  m[j] \in Nat /\ m2[j] = IF j = n /\ w > m[j] THEN w ELSE m[j]
  <2>1. Max({m[j], w}) = IF m[j] >= w THEN m[j] ELSE w
    BY MaxOfTwo
  <2> QED
    BY <2>1 DEF LastRises
<1>3. \A j \in k .. n : j \in 1 .. n
  OBVIOUS
<1> HIDE DEF p2
<1>4. \A j \in k .. n : m2[j] <= p2
  BY <1>1, <1>2, <1>3 DEF LargestIs
<1>5. \E j \in k .. n : m2[j] = p2
  <2>1. CASE p >= w
    <3>1. PICK j \in k .. n : m[j] = p
      BY DEF LargestIs
    <3>2. m2[j] = p2
      BY <1>1, <1>2, <1>3, <2>1, <3>1
    <3> QED
      BY <3>1, <3>2
  <2>2. CASE ~ p >= w
    <3>1. n \in k .. n /\ m[n] <= p
      BY DEF LargestIs
    <3>2. m2[n] = p2
      BY <1>1, <1>2, <1>3, <2>2, <3>1
    <3> QED
      BY <3>1, <3>2
  <2> QED
    BY <2>1, <2>2
<1> QED
  BY <1>4, <1>5 DEF LargestIs, p2

\* What the records of widths say.
Widths(records) == [j \in DOMAIN records |-> records[j].maxAllocated]

LEMMA RaisingKeepsWidths ==
    ASSUME StateInv, CallInv, WidthInv, NEW w, RaisesPeaks(w)
    PROVE  WidthInv'
<1>1. PICK n \in Nat : n = Len(widthCalls)
  <2>1. Len(widthCalls) \in Nat
    BY PeaksAreNumbers
  <2> QED
    BY <2>1
<1>2. /\ Top \in Nat /\ n \in 1 .. Top /\ DOMAIN widthCalls = 1 .. n /\ DOMAIN frames = 1 .. Top
      /\ \A k \in 1 .. Top : frames[k].peak \in Nat
      /\ \A j \in 1 .. n : widthCalls[j].maxAllocated \in Nat
  BY <1>1, PeaksAreNumbers
<1>3. w \in Nat /\ DOMAIN widthCalls' = 1 .. n /\ Len(widthCalls') = n /\ DOMAIN frames' = 1 .. Top
  BY <1>1, <1>2 DEF RaisesPeaks
<1>4. PICK m : m = Widths(widthCalls)
  OBVIOUS
<1>5. PICK m2 : m2 = Widths(widthCalls')
  OBVIOUS
<1>6. /\ m \in [1 .. n -> Nat]
      /\ \A j \in 1 .. n : m[j] = widthCalls[j].maxAllocated /\ m2[j] = widthCalls'[j].maxAllocated
  BY <1>2, <1>3, <1>4, <1>5 DEF Widths
<1>7. LastRises(m, m2, n, w)
  <2>1. \A j \in 1 .. n : widthCalls'[j].maxAllocated =
            IF j = n THEN Max({widthCalls[j].maxAllocated, w}) ELSE widthCalls[j].maxAllocated
    BY <1>1, <1>2 DEF RaisesPeaks
  <2> QED
    BY <1>6, <2>1 DEF LastRises
<1>8. ASSUME NEW k \in 1 .. n
      PROVE  /\ \A j \in k .. n : widthCalls'[j].maxAllocated <= frames'[k].peak
             /\ \E j \in k .. n : widthCalls'[j].maxAllocated = frames'[k].peak
  <2>1. k \in 1 .. Top /\ \A j \in k .. n : j \in 1 .. n
    BY <1>2
  <2>2. PICK p \in Nat : p = frames[k].peak
    BY <1>2, <2>1
  <2>3. PICK p2 : p2 = frames'[k].peak
    OBVIOUS
  <2>4. p2 = Max({p, w})
    BY <1>2, <2>1, <2>2, <2>3 DEF RaisesPeaks
  <2>5. LargestIs(m, k, n, p)
    BY <1>1, <1>2, <1>6, <2>1, <2>2 DEF WidthInv, LargestIs
  <2>6. LargestIs(m2, k, n, p2)
    BY <1>3, <1>6, <1>7, <2>4, <2>5, LargestRises
  <2> QED
    BY <1>6, <2>1, <2>3, <2>6 DEF LargestIs
<1>9. ASSUME NEW k \in 1 .. Top
      PROVE  w <= frames'[k].peak
  <2>1. frames'[k].peak = Max({frames[k].peak, w}) /\ frames[k].peak \in Nat
    BY <1>2 DEF RaisesPeaks
  <2>2. Max({frames[k].peak, w}) = IF frames[k].peak >= w THEN frames[k].peak ELSE w
    BY <1>3, <2>1, MaxOfTwo
  <2> QED
    BY <1>3, <2>1, <2>2
<1>10. allocatedQubits' = w /\ Cardinality(DOMAIN held') = w /\ widthCalls' \in Seq(WidthRecords)
  BY DEF RaisesPeaks
<1> QED
  BY <1>3, <1>8, <1>9, <1>10 DEF WidthInv

\* A block less: no record and no peak changes.
KeepsPeaks ==
    /\ allocatedQubits' = Cardinality(DOMAIN held') /\ allocatedQubits' <= allocatedQubits
    /\ allocatedQubits' \in Nat
    /\ widthCalls' \in Seq(WidthRecords) /\ Len(widthCalls') = Len(widthCalls)
    /\ \A j \in DOMAIN widthCalls : widthCalls'[j].maxAllocated = widthCalls[j].maxAllocated
    /\ DOMAIN frames' = DOMAIN frames
    /\ \A k \in DOMAIN frames : frames'[k].peak = frames[k].peak

LEMMA KeepingKeepsWidths ==
    ASSUME StateInv, CallInv, WidthInv, KeepsPeaks
    PROVE  WidthInv'
<1> DEFINE n == Len(widthCalls)
<1>1. /\ Top \in Nat /\ n \in 1 .. Top /\ DOMAIN widthCalls = 1 .. n /\ DOMAIN frames = 1 .. Top
      /\ \A k \in 1 .. Top : frames[k].peak \in Nat
      /\ \A j \in 1 .. n : widthCalls[j].maxAllocated \in Nat
      /\ allocatedQubits \in Nat
  BY PeaksAreNumbers
<1>2. /\ DOMAIN widthCalls' = 1 .. n /\ Len(widthCalls') = n /\ DOMAIN frames' = 1 .. Top
      /\ \A k \in 1 .. Top : frames'[k].peak = frames[k].peak
      /\ \A j \in 1 .. n : widthCalls'[j].maxAllocated = widthCalls[j].maxAllocated
      /\ allocatedQubits' \in Nat /\ allocatedQubits' <= allocatedQubits
      /\ allocatedQubits' = Cardinality(DOMAIN held') /\ widthCalls' \in Seq(WidthRecords)
  <2>1. widthCalls' \in Seq(WidthRecords) /\ Len(widthCalls') = n
    BY DEF KeepsPeaks
  <2>2. DOMAIN widthCalls' = 1 .. n
    BY <2>1
  <2> QED
    BY <1>1, <2>1, <2>2 DEF KeepsPeaks
<1>3. \A k \in 1 .. Top : allocatedQubits' <= frames'[k].peak
  <2>1. \A k \in 1 .. Top : allocatedQubits <= frames[k].peak
    BY <1>1 DEF WidthInv
  <2> QED
    BY <1>1, <1>2, <2>1
<1>4. ASSUME NEW k \in 1 .. n
      PROVE  /\ \A j \in k .. n : widthCalls'[j].maxAllocated <= frames'[k].peak
             /\ \E j \in k .. n : widthCalls'[j].maxAllocated = frames'[k].peak
  <2>1. /\ \A j \in k .. n : widthCalls[j].maxAllocated <= frames[k].peak
        /\ \E j \in k .. n : widthCalls[j].maxAllocated = frames[k].peak
    BY <1>1 DEF WidthInv
  <2>2. k \in 1 .. Top /\ \A j \in k .. n : j \in 1 .. n
    BY <1>1
  <2> QED
    BY <1>2, <2>1, <2>2
<1> QED
  BY <1>2, <1>3, <1>4 DEF WidthInv

-----------------------------------------------------------------------------
(* The call records.                                                        *)

\* A sequence over any set is one over its elements.
LEMMA SequenceOfItsOwn ==
    ASSUME NEW S, NEW s \in Seq(S)
    PROVE  s \in Seq(Range(s))
BY DEF Range

\* The last records may change, but not the inputs that they are about.
LEMMA KeepingKeepsCalls ==
    ASSUME CallInv, Len(widthCalls') = Len(widthCalls), configuration' = configuration,
           Len(frames') = Len(frames),
           \A k \in DOMAIN frames : frames'[k].inputs = frames[k].inputs,
           StateInv,
           \/ depthCalls' = depthCalls
           \/ \E x : depthCalls' = [depthCalls EXCEPT ![Len(depthCalls)].released = x]
           \/ \E x : depthCalls' = [depthCalls EXCEPT ![Len(depthCalls)].returned = x]
    PROVE  CallInv'
<1> DEFINE n == Len(depthCalls)
<1>1. /\ n \in Nat /\ DOMAIN depthCalls = 1 .. n
      /\ depthCalls = [k \in 1 .. n |-> depthCalls[k]]
      /\ \A k \in 1 .. n : "inputs" \in DOMAIN depthCalls[k]
  BY DEF CallInv
<1>2. 0 < n /\ n <= Len(frames) /\ DOMAIN frames = 1 .. Len(frames) /\ Len(frames) \in Nat
  <2>1. frames \in Seq(FrameRecords) /\ Len(frames) > 0
    BY DEF StateInv, StackInv, WellFounded
  <2>2. configuration.CallStackDepthLimit \in Nat
    BY ConstantsAssumption DEF StateInv, TypeInv
  <2> QED
    BY <2>1, <2>2 DEF CallInv, Top
<1>3. /\ DOMAIN depthCalls' = 1 .. n /\ Len(depthCalls') = n
      /\ depthCalls' \in Seq(Range(depthCalls'))
      /\ \A k \in 1 .. n : /\ "inputs" \in DOMAIN depthCalls'[k]
                           /\ depthCalls'[k].inputs = depthCalls[k].inputs
  <2>1. CASE depthCalls' = depthCalls
    BY <1>1, <2>1 DEF CallInv
  <2>2. ASSUME NEW d, \/ \E x : d = [depthCalls[n] EXCEPT !.released = x]
                      \/ \E x : d = [depthCalls[n] EXCEPT !.returned = x],
               depthCalls' = [depthCalls EXCEPT ![n] = d]
        PROVE  /\ DOMAIN depthCalls' = 1 .. n /\ Len(depthCalls') = n
               /\ depthCalls' \in Seq(Range(depthCalls'))
               /\ \A k \in 1 .. n : /\ "inputs" \in DOMAIN depthCalls'[k]
                                    /\ depthCalls'[k].inputs = depthCalls[k].inputs
    <3>1. n \in 1 .. n
      BY <1>1, <1>2
    <3>2. "inputs" \in DOMAIN d /\ d.inputs = depthCalls[n].inputs
      BY <1>1, <2>2, <3>1
    <3>3. /\ DOMAIN depthCalls' = 1 .. n
          /\ \A k \in 1 .. n : depthCalls'[k] = IF k = n THEN d ELSE depthCalls[k]
          /\ depthCalls' = [k \in 1 .. n |-> depthCalls'[k]]
      BY <1>1, <2>2
    <3>4. depthCalls' \in Seq({depthCalls'[k] : k \in 1 .. n})
      BY <1>1, <3>3
    <3>5. Len(depthCalls') = n
      BY <1>1, <3>3, <3>4
    <3> HIDE DEF n
    <3> QED
      BY <1>1, <3>2, <3>3, <3>4, <3>5, SequenceOfItsOwn
  <2>3. ASSUME NEW x, depthCalls' = [depthCalls EXCEPT ![n].released = x]
        PROVE  depthCalls' = [depthCalls EXCEPT ![n] = [depthCalls[n] EXCEPT !.released = x]]
    BY <2>3
  <2>4. ASSUME NEW x, depthCalls' = [depthCalls EXCEPT ![n].returned = x]
        PROVE  depthCalls' = [depthCalls EXCEPT ![n] = [depthCalls[n] EXCEPT !.returned = x]]
    BY <2>4
  <2> HIDE DEF n
  <2> QED
    BY <2>1, <2>2, <2>3, <2>4 DEF n
<1>4. \A k \in 2 .. n : depthCalls'[k].inputs = frames'[k].inputs
  BY <1>1, <1>3, <1>2 DEF CallInv
<1> HIDE DEF n
<1>5. Top' = Top
  BY DEF Top
<1> QED
  BY <1>3, <1>4, <1>5 DEF CallInv, n

\* A call that begins has a record of its own, down to the limit.
LEMMA StartKeepsCalls ==
    ASSUME StateInv, CallInv, WidthInv, NEW inputs, OpensCall(inputs),
           IF Recorded(Top) THEN DepthStart(inputs) /\ WidthStart(Cardinality(inputs))
           ELSE UNCHANGED <<depthVars, widthVars>>
    PROVE  CallInv' /\ WidthInv'
<1> DEFINE n == Len(widthCalls)
           limit == configuration.CallStackDepthLimit
           f == Frame(inputs)
<1>1. /\ Top \in Nat /\ Top > 0 /\ DOMAIN frames = 1 .. Top /\ n \in 1 .. Top /\ DOMAIN widthCalls = 1 .. n
      /\ \A k \in 1 .. Top : frames[k].peak \in Nat
      /\ \A j \in 1 .. n : widthCalls[j].maxAllocated \in Nat
      /\ allocatedQubits \in Nat /\ limit \in Nat
  BY PeaksAreNumbers
<1>2. n = (IF Top <= limit THEN Top ELSE limit + 1) /\ Len(depthCalls) = n
  BY DEF CallInv
<1>3. /\ WellFounded(frames') /\ Top' = Top + 1 /\ DOMAIN frames' = 1 .. Top + 1
      /\ \A k \in 1 .. Top : frames'[k] = frames[k]
      /\ frames'[Top + 1] = f /\ f.peak = Cardinality(DOMAIN held) /\ f.inputs = inputs
      /\ held' = held /\ limit' = limit
  <2>1. /\ StateInv' /\ Len(frames') = Len(frames) + 1
        /\ \A k \in DOMAIN frames : frames'[k] = frames[k]
        /\ frames'[Len(frames) + 1] = Frame(inputs)
    BY CallKeepsState
  <2>2. Reach \subseteq QubitObjects /\ inputs \subseteq Reach
    BY ReachIsLive DEF OpensCall
  <2>3. f.peak = Cardinality(DOMAIN held) /\ f.inputs = inputs
    BY <2>2, FrameIsRecord
  <2>4. WellFounded(frames') /\ frames' \in Seq(FrameRecords)
    BY <2>1 DEF StateInv, StackInv, WellFounded
  <2>5. held' = held /\ limit' = limit
    BY DEF OpensCall, ObjectsStay
  <2>6. f = Frame(inputs)
    OBVIOUS
  <2> HIDE DEF f
  <2>7. Len(frames) = Top /\ Len(frames') = Top' /\ DOMAIN frames = 1 .. Top /\ DOMAIN frames' = 1 .. Top'
    BY <1>1, <2>4 DEF Top, WellFounded
  <2> QED
    BY <2>1, <2>3, <2>4, <2>5, <2>6, <2>7
<1>4. allocatedQubits = Cardinality(DOMAIN held) /\ \A k \in 1 .. Top : allocatedQubits <= frames[k].peak
  BY <1>1 DEF WidthInv
<1>5. CASE ~ Recorded(Top)
  <2>1. Top > limit /\ widthCalls' = widthCalls /\ depthCalls' = depthCalls /\ allocatedQubits' = allocatedQubits
    BY <1>1, <1>5 DEF Recorded, depthVars, widthVars
  <2>2. CallInv'
    BY <1>1, <1>2, <1>3, <2>1 DEF CallInv
  <2>3. \A k \in DOMAIN frames' : allocatedQubits' <= frames'[k].peak
    <3>1. ASSUME NEW k \in 1 .. Top + 1 PROVE allocatedQubits <= frames'[k].peak
      <4>1. CASE k = Top + 1
        BY <1>1, <1>3, <1>4, <4>1
      <4>2. CASE k # Top + 1
        BY <1>1, <1>3, <1>4, <4>2
      <4> QED
        BY <4>1, <4>2
    <3> QED
      BY <1>3, <2>1, <3>1
  <2>4. \A k \in DOMAIN widthCalls : k \in 1 .. Top /\ frames'[k] = frames[k]
    BY <1>1, <1>3
  <2>5. WidthInv'
    BY <1>3, <2>1, <2>3, <2>4 DEF WidthInv
  <2> QED
    BY <2>2, <2>5
<1>6. CASE Recorded(Top)
  <2> DEFINE r == WidthRecord(Cardinality(inputs), allocatedQubits)
             d == CallRecord(inputs, MinAvailableTime(inputs), MaxAvailableTime(inputs))
  <2>1. /\ Top <= limit /\ n = Top
        /\ widthCalls' = Append(widthCalls, r) /\ allocatedQubits' = allocatedQubits
        /\ depthCalls' = Append(depthCalls, d)
    BY <1>1, <1>2, <1>6 DEF Recorded, WidthStart, DepthStart
  <2>2. r \in WidthRecords /\ r.maxAllocated = allocatedQubits
    <3>1. Cardinality(inputs) \in Nat
      <4>1. IsFiniteSet(Reach) /\ inputs \in SUBSET Reach
        BY ReachIsLive DEF OpensCall
      <4> QED
        BY <4>1, FS_Subset, FS_CardinalityType
    <3> QED
      BY <1>1, <3>1 DEF WidthRecord, WidthRecords
  <2>3. "inputs" \in DOMAIN d /\ d.inputs = inputs
    BY DEF CallRecord
  <2> HIDE DEF r, d
  <2>4. /\ widthCalls' \in Seq(WidthRecords) /\ Len(widthCalls') = n + 1
        /\ \A j \in 1 .. n : widthCalls'[j] = widthCalls[j]
        /\ widthCalls'[n + 1] = r /\ DOMAIN widthCalls' = 1 .. n + 1
    <3>1. widthCalls \in Seq(WidthRecords)
      BY DEF WidthInv
    <3> QED
      BY <2>1, <2>2, <3>1, AppendProperties
  <2>5. /\ depthCalls' \in Seq(Range(depthCalls')) /\ Len(depthCalls') = n + 1
        /\ \A k \in 1 .. n : depthCalls'[k] = depthCalls[k]
        /\ depthCalls'[n + 1] = d
    <3>1. depthCalls \in Seq(Range(depthCalls)) /\ Len(depthCalls) = n
      BY <1>2 DEF CallInv
    <3> DEFINE S == Range(depthCalls) \cup {d}
    <3>2. depthCalls \in Seq(S) /\ d \in S
      BY <3>1
    <3> HIDE DEF S
    <3>3. depthCalls' \in Seq(S)
      BY <2>1, <3>2, AppendProperties
    <3>4. depthCalls' \in Seq(Range(depthCalls'))
      BY <3>3, SequenceOfItsOwn
    <3> QED
      BY <2>1, <3>1, <3>2, <3>4, AppendProperties
  <2>6. CallInv'
    <3>1. Len(widthCalls') = (IF Top' <= limit' THEN Top' ELSE limit' + 1) /\ Len(depthCalls') = Len(widthCalls')
      BY <1>1, <1>3, <2>1, <2>4, <2>5
    <3>2. \A k \in 1 .. n + 1 : "inputs" \in DOMAIN depthCalls'[k]
      BY <1>1, <1>2, <2>3, <2>5 DEF CallInv
    <3>3. ASSUME NEW k \in 2 .. n + 1
          PROVE  depthCalls'[k].inputs = frames'[k].inputs
      <4>1. CASE k = n + 1
        BY <1>3, <2>1, <2>3, <2>5, <4>1
      <4>2. CASE k # n + 1
        BY <1>1, <1>2, <1>3, <2>1, <2>5, <4>2 DEF CallInv
      <4> QED
        BY <4>1, <4>2
    <3> QED
      BY <2>5, <3>1, <3>2, <3>3 DEF CallInv
  <2>7. WidthInv'
    <3>1. ASSUME NEW k \in 1 .. Top + 1
          PROVE  allocatedQubits <= frames'[k].peak
      <4>1. CASE k = Top + 1
        BY <1>1, <1>3, <1>4, <4>1
      <4>2. CASE k # Top + 1
        BY <1>1, <1>3, <1>4, <4>2
      <4> QED
        BY <4>1, <4>2
    <3>2. ASSUME NEW k \in 1 .. n + 1
          PROVE  /\ \A j \in k .. n + 1 : widthCalls'[j].maxAllocated <= frames'[k].peak
                 /\ \E j \in k .. n + 1 : widthCalls'[j].maxAllocated = frames'[k].peak
      <4>1. CASE k = n + 1
        <5>1. n + 1 \in k .. n + 1 /\ \A j \in k .. n + 1 : j = n + 1
          BY <1>1, <4>1
        <5>2. widthCalls'[n + 1].maxAllocated = frames'[k].peak /\ frames'[k].peak \in Nat
          BY <1>1, <1>3, <1>4, <2>1, <2>2, <2>4, <4>1
        <5> QED
          BY <5>1, <5>2
      <4>2. CASE k # n + 1
        <5>1. /\ k \in 1 .. n /\ k \in 1 .. Top /\ frames'[k].peak = frames[k].peak
              /\ k .. n \subseteq k .. n + 1
          BY <1>1, <1>3, <2>1, <4>2
        <5>2. /\ \A j \in k .. n : widthCalls[j].maxAllocated <= frames[k].peak
              /\ \E j \in k .. n : widthCalls[j].maxAllocated = frames[k].peak
          BY <1>1, <5>1 DEF WidthInv
        <5>3. \A j \in k .. n : j \in 1 .. n /\ widthCalls'[j].maxAllocated = widthCalls[j].maxAllocated
          BY <1>1, <2>4, <5>1
        <5>4. \A j \in k .. n + 1 : j \in k .. n \/ j = n + 1
          BY <1>1, <5>1
        <5>5. widthCalls'[n + 1].maxAllocated <= frames'[k].peak
          BY <1>4, <2>2, <2>4, <5>1
        <5> QED
          BY <5>1, <5>2, <5>3, <5>4, <5>5
      <4> QED
        BY <4>1, <4>2
    <3> QED
      BY <1>3, <1>4, <2>1, <2>4, <3>1, <3>2 DEF WidthInv
  <2> QED
    BY <2>6, <2>7
<1> QED
  BY <1>5, <1>6

\* A call that ends leaves what it needed to its caller's record.
LEMMA EndKeepsCalls ==
    ASSUME StateInv, CallInv, WidthInv, ClosesCall,
           IF Recorded(Top - 1) THEN DepthEnd /\ WidthEnd
           ELSE UNCHANGED <<depthVars, widthVars>>
    PROVE  CallInv' /\ WidthInv'
<1> DEFINE n == Len(widthCalls)
           limit == configuration.CallStackDepthLimit
<1>1. /\ Top \in Nat /\ Top > 1 /\ DOMAIN frames = 1 .. Top /\ n \in 1 .. Top /\ DOMAIN widthCalls = 1 .. n
      /\ \A k \in 1 .. Top : frames[k].peak \in Nat
      /\ \A j \in 1 .. n : widthCalls[j].maxAllocated \in Nat
      /\ allocatedQubits \in Nat /\ limit \in Nat
  BY PeaksAreNumbers DEF ClosesCall
<1>2. n = (IF Top <= limit THEN Top ELSE limit + 1) /\ Len(depthCalls) = n
  BY DEF CallInv
<1>3. /\ Top' = Top - 1 /\ DOMAIN frames' = 1 .. Top - 1
      /\ \A k \in 1 .. Top - 1 : frames'[k] = frames[k]
      /\ held' = held /\ limit' = limit
  <2>1. /\ StateInv' /\ Len(frames') = Len(frames) - 1
        /\ \A k \in DOMAIN frames' : frames'[k] = frames[k]
    BY EndKeepsState
  <2>2. frames' \in Seq(FrameRecords)
    BY <2>1 DEF StateInv, StackInv, WellFounded
  <2> QED
    BY <1>1, <2>1, <2>2 DEF Top, ClosesCall, ObjectsStay
<1>4. allocatedQubits = Cardinality(DOMAIN held) /\ \A k \in 1 .. Top : allocatedQubits <= frames[k].peak
  BY <1>1 DEF WidthInv
<1>5. CASE ~ Recorded(Top - 1)
  <2>1. /\ Top - 1 > limit /\ widthCalls' = widthCalls /\ depthCalls' = depthCalls
        /\ allocatedQubits' = allocatedQubits
    BY <1>1, <1>5 DEF Recorded, depthVars, widthVars
  <2>2. CallInv'
    BY <1>1, <1>2, <1>3, <2>1 DEF CallInv
  <2>3. \A k \in DOMAIN frames' : allocatedQubits' <= frames'[k].peak
    BY <1>1, <1>3, <1>4, <2>1
  <2>4. \A k \in DOMAIN widthCalls : k \in 1 .. Top - 1 /\ frames'[k] = frames[k]
    BY <1>1, <1>2, <1>3, <2>1
  <2>5. WidthInv'
    BY <1>3, <2>1, <2>3, <2>4 DEF WidthInv
  <2> QED
    BY <2>2, <2>5
<1>6. CASE Recorded(Top - 1)
  <2>1. n = Top
    BY <1>1, <1>2, <1>6 DEF Recorded
  <2>2. PICK m \in Nat : m = n - 1
    <3>1. n - 1 \in Nat
      BY <1>1
    <3> QED
      BY <3>1
  <2>3. /\ m >= 1 /\ m + 1 = n /\ m \in 1 .. n /\ Top - 1 = m
        /\ widthCalls \in Seq(WidthRecords) /\ widthCalls # << >>
        /\ depthCalls \in Seq(Range(depthCalls)) /\ depthCalls # << >>
    BY <1>1, <1>2, <2>1, <2>2 DEF WidthInv, CallInv
  <2>4. /\ Front(widthCalls) \in Seq(WidthRecords) /\ Len(Front(widthCalls)) = m
        /\ \A j \in 1 .. m : Front(widthCalls)[j] = widthCalls[j]
    BY <2>2, <2>3, FrontMeaning
  <2>5. /\ Front(depthCalls) \in Seq(Range(depthCalls)) /\ Len(Front(depthCalls)) = m
        /\ \A j \in 1 .. m : Front(depthCalls)[j] = depthCalls[j]
    BY <1>2, <2>2, <2>3, FrontMeaning
  <2> DEFINE last == Max({widthCalls[m].maxAllocated, widthCalls[n].maxAllocated})
             r == [widthCalls[m] EXCEPT !.maxAllocated = last]
             d == ToCaller(depthCalls[m], depthCalls[n])
  <2>6. /\ allocatedQubits' = allocatedQubits
        /\ widthCalls' = [Front(widthCalls) EXCEPT ![m] = r]
        /\ depthCalls' = [Front(depthCalls) EXCEPT ![m] = d]
    <3>1. WidthEnd /\ DepthEnd
      BY <1>6
    <3>2. Front(widthCalls)[m] = widthCalls[m] /\ Front(depthCalls)[m] = depthCalls[m]
      BY <2>3, <2>4, <2>5
    <3>3. Len(depthCalls) = n /\ n - 1 = m
      BY <1>2, <2>2
    <3> QED
      BY <3>1, <3>2, <3>3 DEF WidthEnd, DepthEnd
  <2>7. /\ last = IF widthCalls[m].maxAllocated >= widthCalls[n].maxAllocated
                  THEN widthCalls[m].maxAllocated ELSE widthCalls[n].maxAllocated
        /\ last \in Nat
    <3>1. widthCalls[m].maxAllocated \in Nat /\ widthCalls[n].maxAllocated \in Nat
      BY <1>1, <2>3
    <3> QED
      BY <3>1, MaxOfTwo
  <2> HIDE DEF last
  <2>8. r \in WidthRecords /\ r.maxAllocated = last
    <3>1. widthCalls[m] \in WidthRecords
      BY <2>3
    <3> QED
      BY <2>7, <3>1 DEF WidthRecords
  <2>9. "inputs" \in DOMAIN d /\ d.inputs = depthCalls[m].inputs
    <3>1. "inputs" \in DOMAIN depthCalls[m]
      BY <1>2, <2>3 DEF CallInv
    <3> QED
      BY <3>1 DEF ToCaller
  <2> HIDE DEF r, d
  <2>10. /\ widthCalls' \in Seq(WidthRecords) /\ Len(widthCalls') = m /\ DOMAIN widthCalls' = 1 .. m
         /\ \A j \in 1 .. m : widthCalls'[j] = IF j = m THEN r ELSE widthCalls[j]
    BY <2>3, <2>4, <2>6, <2>8
  <2>11. /\ depthCalls' \in Seq(Range(depthCalls')) /\ Len(depthCalls') = m
         /\ \A j \in 1 .. m : depthCalls'[j] = IF j = m THEN d ELSE depthCalls[j]
    <3> DEFINE S == Range(depthCalls) \cup {d}
    <3>1. Front(depthCalls) \in Seq(S) /\ d \in S
      BY <2>5
    <3> HIDE DEF S
    <3>2. /\ depthCalls' \in Seq(S) /\ Len(depthCalls') = m
          /\ \A j \in 1 .. m : depthCalls'[j] = IF j = m THEN d ELSE depthCalls[j]
      BY <2>3, <2>5, <2>6, <3>1
    <3>3. depthCalls' \in Seq(Range(depthCalls'))
      BY <3>2, SequenceOfItsOwn
    <3> QED
      BY <3>2, <3>3
  <2>12. CallInv'
    <3>1. /\ Len(widthCalls') = (IF Top' <= limit' THEN Top' ELSE limit' + 1)
          /\ Len(depthCalls') = Len(widthCalls')
      BY <1>1, <1>2, <1>3, <1>6, <2>3, <2>10, <2>11 DEF Recorded
    <3>2. \A k \in 1 .. m : "inputs" \in DOMAIN depthCalls'[k]
      BY <1>2, <2>3, <2>9, <2>11 DEF CallInv
    <3>3. \A k \in 2 .. m : depthCalls'[k].inputs = depthCalls[k].inputs
      BY <2>3, <2>9, <2>11
    <3>4. \A k \in 2 .. m : depthCalls'[k].inputs = frames'[k].inputs
      <4> TAKE k \in 2 .. m
      <4>1. k \in 2 .. Len(depthCalls) /\ k \in DOMAIN frames'
        BY <1>2, <1>3, <2>3
      <4>2. depthCalls[k].inputs = frames[k].inputs
        BY <4>1 DEF CallInv
      <4> QED
        BY <1>3, <3>3, <4>1, <4>2
    <3> QED
      BY <2>11, <3>1, <3>2, <3>4 DEF CallInv
  <2>13. WidthInv'
    <3>1. ASSUME NEW k \in 1 .. m
          PROVE  /\ \A j \in k .. m : widthCalls'[j].maxAllocated <= frames'[k].peak
                 /\ \E j \in k .. m : widthCalls'[j].maxAllocated = frames'[k].peak
      <4>1. /\ k \in 1 .. n /\ k \in 1 .. Top /\ frames'[k].peak = frames[k].peak
            /\ m \in k .. n /\ n \in k .. n /\ m \in k .. m /\ frames[k].peak \in Nat
            /\ \A j \in k .. m : j \in k .. n /\ j \in 1 .. m
        BY <1>1, <1>3, <2>3
      <4>2. /\ \A j \in k .. n : widthCalls[j].maxAllocated <= frames[k].peak
            /\ \E j \in k .. n : widthCalls[j].maxAllocated = frames[k].peak
        BY <1>1, <4>1 DEF WidthInv
      <4>3. /\ last <= frames[k].peak
            /\ widthCalls[m].maxAllocated <= last /\ widthCalls[n].maxAllocated <= last
        BY <1>1, <2>3, <2>7, <4>1, <4>2
      <4>4. /\ \A j \in k .. m : j # m => widthCalls'[j].maxAllocated = widthCalls[j].maxAllocated
            /\ widthCalls'[m].maxAllocated = last
        BY <2>3, <2>8, <2>10, <4>1
      <4>5. \A j \in k .. m : widthCalls'[j].maxAllocated <= frames'[k].peak
        BY <4>1, <4>2, <4>3, <4>4
      <4>6. PICK j \in k .. n : widthCalls[j].maxAllocated = frames[k].peak
        BY <4>2
      <4>7. CASE j \in k .. m /\ j # m
        BY <4>1, <4>4, <4>5, <4>6, <4>7
      <4>8. CASE j = m \/ j = n
        <5>1. last = frames[k].peak
          BY <2>7, <4>1, <4>3, <4>6, <4>8
        <5> QED
          BY <4>1, <4>4, <4>5, <5>1
      <4>9. j \in k .. m \/ j = n
        BY <1>1, <2>3, <4>6
      <4> QED
        BY <4>7, <4>8, <4>9
    <3>2. \A k \in DOMAIN frames' : allocatedQubits' <= frames'[k].peak
      BY <1>1, <1>3, <1>4, <2>6
    <3> QED
      BY <1>3, <1>4, <2>6, <2>10, <3>1, <3>2 DEF WidthInv
  <2> QED
    BY <2>12, <2>13
<1> QED
  BY <1>5, <1>6

-----------------------------------------------------------------------------
(* The steps of the program.                                                *)

\* What the width counter is told when a block is opened.
WidthRises(w) ==
    /\ allocatedQubits' = w
    /\ widthCalls' \in Seq(WidthRecords) /\ Len(widthCalls') = Len(widthCalls)
    /\ \A j \in DOMAIN widthCalls : widthCalls'[j].maxAllocated =
            IF j = Len(widthCalls) THEN Max({widthCalls[j].maxAllocated, w})
            ELSE widthCalls[j].maxAllocated

LEMMA OpenStep ==
    ASSUME Inv, NEW kind, NEW ids, NEW lent, OpensBlock(kind, ids, lent),
           ConstraintAllocate(Created(ids)), depthCalls' = depthCalls,
           WidthRises(Cardinality(DOMAIN held'))
    PROVE  Inv'
<1> DEFINE new == Created(ids)
<1>1. /\ StateInv' /\ DOMAIN metrics' = DOMAIN metrics \cup new
      /\ DOMAIN metrics \cap new = {}
      /\ \A o \in new : metrics'[o] = NewTracingData
      /\ \A o \in DOMAIN metrics : metrics'[o] = metrics[o]
      /\ Len(frames') = Len(frames)
      /\ \A k \in DOMAIN frames : /\ frames'[k].inputs = frames[k].inputs
                                  /\ frames'[k].peak = Max({frames[k].peak, Cardinality(DOMAIN held')})
  BY OpeningKeepsState DEF Inv
<1>2. new \in SUBSET QubitObjects /\ metrics' = WithNew(new) /\ configuration' = configuration
  BY CreatedMeaning DEF OpensBlock, Inv, StateInv
<1>3. KnownInv'
  BY <1>1, <1>2, AllocateKeepsKnown DEF Inv
<1> HIDE DEF new
<1>4. TimeInv'
  <2>1. NewTracingData \in [start : Starts, end : Times] /\ Before(NewTracingData.start, NewTracingData.end)
    BY DEF NewTracingData, MinValue, Zero, Time, Starts, Times, Before
  <2>2. /\ metrics \in [DOMAIN metrics -> [start : Starts, end : Times]]
        /\ \A o \in DOMAIN metrics : Before(metrics[o].start, metrics[o].end)
    BY DEF Inv, TimeInv
  <2>3. metrics' = [o \in DOMAIN metrics \cup new |-> IF o \in new THEN NewTracingData ELSE metrics[o]]
    BY <1>2 DEF WithNew
  <2>4. metrics' \in [DOMAIN metrics' -> [start : Starts, end : Times]]
    BY <2>1, <2>2, <2>3
  <2>5. \A o \in DOMAIN metrics' : Before(metrics'[o].start, metrics'[o].end)
    BY <1>1, <2>1, <2>2
  <2> QED
    BY <2>4, <2>5 DEF TimeInv
<1>5. CallInv'
  BY <1>1, <1>2, KeepingKeepsCalls DEF Inv, WidthRises
<1>6. WidthInv'
  <2> DEFINE w == Cardinality(DOMAIN held')
  <2>1. w \in Nat
    BY <1>1, IdsAreFinite DEF StateInv, TypeInv
  <2>2. DOMAIN frames' = DOMAIN frames
    BY <1>1 DEF Inv, StateInv, StackInv, WellFounded
  <2>3. RaisesPeaks(w)
    BY <1>1, <2>1, <2>2 DEF RaisesPeaks, WidthRises
  <2> HIDE DEF w
  <2> QED
    BY <2>3, RaisingKeepsWidths DEF Inv
<1> QED
  BY <1>1, <1>3, <1>4, <1>5, <1>6 DEF Inv

\* What the width counter is told when a block ends.
WidthFalls ==
    /\ allocatedQubits' = Cardinality(DOMAIN held')
    /\ widthCalls' \in Seq(WidthRecords) /\ Len(widthCalls') = Len(widthCalls)
    /\ \A j \in DOMAIN widthCalls : widthCalls'[j].maxAllocated = widthCalls[j].maxAllocated

LEMMA CloseStep ==
    ASSUME Inv, NEW kind, ClosesBlock(kind),
           ConstraintDiscard(Last(frames[Top].blocks).objects), WidthFalls,
           \/ \E x : depthCalls' = [depthCalls EXCEPT ![Len(depthCalls)].released = x]
           \/ \E x : depthCalls' = [depthCalls EXCEPT ![Len(depthCalls)].returned = x]
    PROVE  Inv'
<1> DEFINE objects == Last(frames[Top].blocks).objects
<1>1. /\ StateInv' /\ DOMAIN metrics' = DOMAIN metrics \ objects
      /\ \A o \in DOMAIN metrics' : metrics'[o] = metrics[o]
      /\ Len(frames') = Len(frames)
      /\ \A k \in DOMAIN frames : /\ frames'[k].inputs = frames[k].inputs
                                  /\ frames'[k].peak = frames[k].peak
  BY ClosingKeepsState DEF Inv
<1>2. /\ configuration' = configuration
      /\ metrics' = [o \in DOMAIN metrics \ objects |-> metrics[o]]
  BY DEF ClosesBlock, Discarded
<1>3. KnownInv'
  <2>1. ConstraintDiscard(objects)
    OBVIOUS
  <2> HIDE DEF objects
  <2> QED
    BY <1>1, <2>1, DiscardKeepsKnown DEF Inv
<1> HIDE DEF objects
<1>4. TimeInv'
  BY <1>1, <1>2 DEF TimeInv, Inv
<1>5. CallInv'
  BY <1>1, <1>2, KeepingKeepsCalls DEF Inv, WidthFalls
<1>6. WidthInv'
  <2>1. DOMAIN frames' = DOMAIN frames
    BY <1>1 DEF Inv, StateInv, StackInv, WellFounded
  <2>2. DOMAIN held' \in SUBSET DOMAIN held
    BY DEF ClosesBlock, HeldLess
  <2>3. IsFiniteSet(DOMAIN held) /\ Cardinality(DOMAIN held) \in Nat
    BY IdsAreFinite DEF Inv, StateInv, TypeInv
  <2>4. Cardinality(DOMAIN held') <= Cardinality(DOMAIN held) /\ Cardinality(DOMAIN held') \in Nat
    BY <2>2, <2>3, FS_Subset, FS_CardinalityType
  <2>5. allocatedQubits = Cardinality(DOMAIN held)
    BY DEF Inv, WidthInv
  <2>6. KeepsPeaks
    BY <1>1, <2>1, <2>4, <2>5 DEF KeepsPeaks, WidthFalls
  <2> QED
    BY <2>6, KeepingKeepsWidths DEF Inv
<1> QED
  BY <1>1, <1>3, <1>4, <1>5, <1>6 DEF Inv

\* Another last record.
LEMMA LastRecord ==
    ASSUME StateInv, CallInv, WidthInv, NEW r \in WidthRecords,
           widthCalls' = [widthCalls EXCEPT ![Len(widthCalls)] = r]
    PROVE  /\ widthCalls' \in Seq(WidthRecords) /\ Len(widthCalls') = Len(widthCalls)
           /\ \A j \in DOMAIN widthCalls :
                widthCalls'[j] = IF j = Len(widthCalls) THEN r ELSE widthCalls[j]
<1>1. widthCalls \in Seq(WidthRecords) /\ Len(widthCalls) \in DOMAIN widthCalls
  BY PeaksAreNumbers DEF WidthInv
<1> QED
  BY <1>1

\* The last record when more qubits are in use.
LEMMA RisenRecord ==
    ASSUME StateInv, CallInv, WidthInv, NEW w \in Nat
    PROVE  LET last == widthCalls[Len(widthCalls)]
               r == [last EXCEPT !.maxAllocated = Max({@, w})] IN
           /\ last \in WidthRecords /\ r \in WidthRecords
           /\ r.maxAllocated = Max({last.maxAllocated, w})
<1> DEFINE last == widthCalls[Len(widthCalls)]
           most == Max({last.maxAllocated, w})
<1>1. last \in WidthRecords /\ last.maxAllocated \in Nat
  BY PeaksAreNumbers
<1>2. most \in Nat
  <2> HIDE DEF last
  <2> QED
    BY <1>1, MaxOfTwo
<1> HIDE DEF most
<1>3. [last EXCEPT !.maxAllocated = most] \in WidthRecords
  BY <1>1, <1>2 DEF WidthRecords
<1>4. [last EXCEPT !.maxAllocated = most].maxAllocated = most
  BY <1>1 DEF WidthRecords
<1> QED
  BY <1>1, <1>3, <1>4 DEF most

\* Ids that come into use are counted.
LEMMA MoreInUse ==
    ASSUME StateInv, WidthInv, NEW n \in Nat, NEW ids \in NewIds(n),
           DOMAIN held' = DOMAIN held \cup ids
    PROVE  /\ Cardinality(DOMAIN held') = allocatedQubits + n
           /\ Cardinality(DOMAIN held') \in Nat
<1>1. ids \cap DOMAIN held = {} /\ IsFiniteSet(ids) /\ Cardinality(ids) = n
  BY NewIdsMeaning DEF StateInv
<1>2. IsFiniteSet(DOMAIN held) /\ Cardinality(DOMAIN held) = allocatedQubits /\ allocatedQubits \in Nat
  BY IdsAreFinite DEF StateInv, TypeInv, WidthInv
<1>3. DOMAIN held \cap ids = {} /\ Cardinality({}) = 0
  BY <1>1, FS_EmptySet
<1>4. Cardinality(DOMAIN held \cup ids)
        = Cardinality(DOMAIN held) + Cardinality(ids) - Cardinality(DOMAIN held \cap ids)
  BY <1>1, <1>2, FS_Union
<1> QED
  BY <1>1, <1>2, <1>3, <1>4

\* Allocate opens a block of new ids.
LEMMA AllocateOpens ==
    ASSUME Inv, NEW n \in Nat, Allocate(n), configuration' = configuration
    PROVE  \E ids \in NewIds(n) :
            /\ OpensBlock("use", ids, 0) /\ DOMAIN held' = DOMAIN held \cup ids
            /\ DepthAllocate(Created(ids)) /\ WidthAllocate(n) /\ ConstraintAllocate(Created(ids))
<1>1. PICK ids \in NewIds(n) :
        /\ InOperation
        /\ held' = [id \in DOMAIN held \cup ids |-> IF id \in ids THEN 0 ELSE held[id]]
        /\ fresh' = Max({fresh} \cup {id + 1 : id \in ids})
        /\ frames' = Opened("use", Created(ids), 0, DOMAIN held')
        /\ wires' = Wired(Created(ids))
        /\ DepthAllocate(Created(ids))
        /\ WidthAllocate(n)
        /\ ConstraintAllocate(Created(ids))
        /\ failing' = failing
  BY DEF Allocate
<1>2. /\ ids \subseteq Nat /\ ids \cap DOMAIN held = {}
      /\ fresh' \in Nat /\ fresh' >= fresh /\ ids \subseteq 0 .. fresh' - 1
  BY <1>1, NewIdsMeaning DEF Inv, StateInv
<1>3. /\ held \in [DOMAIN held -> Nat] /\ ~ failing /\ Top > 1
      /\ DOMAIN held' = DOMAIN held \cup ids
  BY <1>1 DEF Inv, StateInv, TypeInv, InOperation
<1>4. \A o \in Reach : QubitId(o) \notin ids
  BY <1>2, ReachIsLive DEF Inv
<1>5. held' \in [DOMAIN held' -> Nat]
  BY <1>1, <1>3
<1>6. HeldMore(held, held', Block("use", Created(ids), 0))
  <2> DEFINE b == Block("use", Created(ids), 0)
  <2>1. b.kind = "use" /\ IdsOf(b.objects) = ids
    BY <1>2, CreatedMeaning DEF Block, Inv, StateInv
  <2> HIDE DEF b
  <2>2. HeldMore(held, held', b)
    BY <1>1, <1>2, <1>3, <2>1 DEF HeldMore
  <2> QED
    BY <2>2 DEF b
<1>7. OpensBlock("use", ids, 0)
  BY <1>1, <1>2, <1>3, <1>4, <1>5, <1>6 DEF OpensBlock, DepthAllocate, Kinds
<1> QED
  BY <1>1, <1>3, <1>7

LEMMA AllocateStep ==
    ASSUME Inv, NEW n \in Nat, Allocate(n), configuration' = configuration
    PROVE  Inv'
<1>1. PICK ids \in NewIds(n) :
            /\ OpensBlock("use", ids, 0) /\ DOMAIN held' = DOMAIN held \cup ids
            /\ DepthAllocate(Created(ids)) /\ WidthAllocate(n) /\ ConstraintAllocate(Created(ids))
  BY AllocateOpens
<1>2. Cardinality(DOMAIN held') = allocatedQubits + n /\ Cardinality(DOMAIN held') \in Nat
  BY <1>1, MoreInUse DEF Inv
<1>3. WidthRises(Cardinality(DOMAIN held'))
  <2> DEFINE w == Cardinality(DOMAIN held')
             last == widthCalls[Len(widthCalls)]
             r == [last EXCEPT !.maxAllocated = Max({@, w})]
  <2>1. allocatedQubits' = w /\ widthCalls' = [widthCalls EXCEPT ![Len(widthCalls)].maxAllocated = Max({@, w})]
    BY <1>1, <1>2 DEF WidthAllocate
  <2>2. w \in Nat
    BY <1>2
  <2> HIDE DEF w
  <2>3. r \in WidthRecords /\ r.maxAllocated = Max({last.maxAllocated, w})
    BY <2>2, RisenRecord DEF Inv
  <2>4. widthCalls' = [widthCalls EXCEPT ![Len(widthCalls)] = r]
    BY <2>1
  <2> HIDE DEF r
  <2>5. /\ widthCalls' \in Seq(WidthRecords) /\ Len(widthCalls') = Len(widthCalls)
        /\ \A j \in DOMAIN widthCalls :
                widthCalls'[j] = IF j = Len(widthCalls) THEN r ELSE widthCalls[j]
    BY <2>3, <2>4, LastRecord DEF Inv
  <2> QED
    BY <2>1, <2>3, <2>5 DEF WidthRises, w
<1>4. depthCalls' = depthCalls
  BY <1>1 DEF DepthAllocate
<1> QED
  BY <1>1, <1>3, <1>4, OpenStep

\* What opening a block with n ids does, of which those of lent are somebody else's.
LendsIds(n, lent, new) ==
    /\ Cardinality(lent) \in Nat /\ n - Cardinality(lent) \in Nat
    /\ new \in NewIds(n - Cardinality(lent)) /\ Cardinality(new) = n - Cardinality(lent)
    /\ OpensBlock("borrow", lent \cup new, Cardinality(lent)) /\ DOMAIN held' = DOMAIN held \cup new
    /\ DepthBorrow(Created(lent \cup new)) /\ WidthBorrow(n, Cardinality(new))
    /\ ConstraintAllocate(Created(lent \cup new))

\* Borrow opens a block of ids out of reach, new ones only if there are too few.
LEMMA BorrowOpens ==
    ASSUME Inv, NEW n \in Nat, Borrow(n), configuration' = configuration
    PROVE  \E lent, new : LendsIds(n, lent, new)
<1>1. PICK lent \in UNION {kSubset(k, Lendable) : k \in MayLend(n)} :
        \E new \in NewIds(n - Cardinality(lent)) :
            /\ InOperation
            /\ held' = [id \in DOMAIN held \cup new |->
                            CASE id \in new -> 1
                              [] id \in lent /\ held[id] > 0 -> held[id] + 1
                              [] OTHER -> held[id]]
            /\ fresh' = Max({fresh} \cup {id + 1 : id \in new})
            /\ frames' = Opened("borrow", Created(lent \cup new), Cardinality(lent), DOMAIN held')
            /\ wires' = Wired(Created(lent \cup new))
            /\ DepthBorrow(Created(lent \cup new))
            /\ WidthBorrow(n, Cardinality(new))
            /\ ConstraintAllocate(Created(lent \cup new))
            /\ failing' = failing
  BY DEF Borrow
<1>2. PICK new \in NewIds(n - Cardinality(lent)) :
            /\ InOperation
            /\ held' = [id \in DOMAIN held \cup new |->
                            CASE id \in new -> 1
                              [] id \in lent /\ held[id] > 0 -> held[id] + 1
                              [] OTHER -> held[id]]
            /\ fresh' = Max({fresh} \cup {id + 1 : id \in new})
            /\ frames' = Opened("borrow", Created(lent \cup new), Cardinality(lent), DOMAIN held')
            /\ wires' = Wired(Created(lent \cup new))
            /\ DepthBorrow(Created(lent \cup new))
            /\ WidthBorrow(n, Cardinality(new))
            /\ ConstraintAllocate(Created(lent \cup new))
            /\ failing' = failing
  BY <1>1
<1>3. /\ fresh \in Nat /\ DOMAIN held \subseteq 0 .. fresh - 1 /\ held \in [DOMAIN held -> Nat]
      /\ IsFiniteSet(DOMAIN held) /\ ~ failing /\ Top > 1
  BY <1>2, IdsAreFinite DEF Inv, StateInv, TypeInv, InOperation
<1>4. /\ lent \subseteq Lendable /\ Lendable \subseteq DOMAIN held /\ Cardinality(Lendable) \in Nat
      /\ Cardinality(lent) \in MayLend(n)
  <2>1. Lendable \in SUBSET DOMAIN held
    BY DEF Lendable
  <2>2. Cardinality(Lendable) \in Nat
    BY <1>3, <2>1, FS_Subset, FS_CardinalityType
  <2> QED
    BY <2>1, <2>2 DEF kSubset
<1>5. Cardinality(lent) \in Nat /\ Cardinality(lent) <= n
  <2> DEFINE c == Cardinality(Lendable)
  <2>1. \E x \in {n, c} : \A y \in {n, c} : x <= y
    <3>1. c \in Nat
      BY <1>4
    <3> HIDE DEF c
    <3> QED
      BY <3>1
  <2>2. Min({n, c}) \in {n, c} /\ \A y \in {n, c} : Min({n, c}) <= y
    BY <2>1 DEF Min
  <2> QED
    BY <1>4, <2>2 DEF MayLend
<1> DEFINE m == n - Cardinality(lent)
           ids == lent \cup new
<1>6. m \in Nat /\ new \in NewIds(m)
  BY <1>5
<1>7. /\ new \subseteq Nat /\ new \cap DOMAIN held = {} /\ IsFiniteSet(new) /\ Cardinality(new) = m
      /\ fresh' \in Nat /\ fresh' >= fresh /\ new \subseteq 0 .. fresh' - 1
  <2> HIDE DEF m
  <2> QED
    BY <1>2, <1>6, NewIdsMeaning DEF Inv, StateInv
<1>8. ids \in SUBSET Nat /\ ids \subseteq 0 .. fresh' - 1 /\ lent \subseteq DOMAIN held /\ lent \cap new = {}
  BY <1>3, <1>4, <1>7
<1>9. \A o \in Reach : QubitId(o) \notin ids
  <2>1. \A o \in Reach : QubitId(o) \notin lent
    BY <1>4 DEF Lendable
  <2>2. \A o \in Reach : QubitId(o) \notin new
    BY <1>7, ReachIsLive DEF Inv
  <2> QED
    BY <2>1, <2>2
<1>10. /\ DOMAIN held' = DOMAIN held \cup new /\ DOMAIN held' = DOMAIN held \cup ids
       /\ \A id \in new : held'[id] = 1
       /\ \A id \in DOMAIN held : held'[id] = IF id \in lent /\ held[id] > 0 THEN held[id] + 1 ELSE held[id]
  <2>1. DOMAIN held' = DOMAIN held \cup new
    BY <1>2
  <2>2. \A id \in new : held'[id] = 1
    BY <1>2, <1>8
  <2>3. ASSUME NEW id \in DOMAIN held
        PROVE  held'[id] = IF id \in lent /\ held[id] > 0 THEN held[id] + 1 ELSE held[id]
    <3>1. id \notin new /\ id \in DOMAIN held \cup new
      BY <1>7
    <3>2. held'[id] = CASE id \in new -> 1
                        [] id \in lent /\ held[id] > 0 -> held[id] + 1
                        [] OTHER -> held[id]
      BY <1>2, <3>1
    <3> QED
      BY <3>1, <3>2
  <2> QED
    BY <1>8, <2>1, <2>2, <2>3
<1>11. held' \in [DOMAIN held' -> Nat]
  <2>1. held' = [id \in DOMAIN held' |-> held'[id]]
    <3> DEFINE F(id) == CASE id \in new -> 1
                          [] id \in lent /\ held[id] > 0 -> held[id] + 1
                          [] OTHER -> held[id]
    <3>1. held' = [id \in DOMAIN held \cup new |-> F(id)]
      BY <1>2
    <3> HIDE DEF F
    <3> QED
      BY <3>1
  <2>2. \A id \in DOMAIN held' : held'[id] \in Nat
    BY <1>3, <1>10
  <2> QED
    BY <2>1, <2>2
<1> HIDE DEF ids
<1>12. HeldMore(held, held', Block("borrow", Created(ids), Cardinality(lent)))
  <2> DEFINE b == Block("borrow", Created(ids), Cardinality(lent))
  <2>1. b.kind = "borrow" /\ IdsOf(b.objects) = ids
    BY <1>8, CreatedMeaning DEF Block, Inv, StateInv
  <2>2. \A id \in DOMAIN held : id \in ids <=> id \in lent
    BY <1>7 DEF ids
  <2>3. \A id \in ids \ DOMAIN held : id \in new
    BY <1>8 DEF ids
  <2> HIDE DEF b
  <2>4. HeldMore(held, held', b)
    BY <1>3, <1>10, <2>1, <2>2, <2>3 DEF HeldMore
  <2> QED
    BY <2>4 DEF b
<1>13. OpensBlock("borrow", ids, Cardinality(lent))
  <2>1. /\ frames' = Opened("borrow", Created(ids), Cardinality(lent), DOMAIN held')
        /\ wires' = Wired(Created(ids)) /\ metrics' = WithNew(Created(ids))
    BY <1>2 DEF ids, DepthBorrow
  <2> QED
    BY <1>2, <1>3, <1>5, <1>7, <1>8, <1>9, <1>11, <1>12, <2>1 DEF OpensBlock, Kinds
<1> HIDE DEF m
<1>14. LendsIds(n, lent, new)
  <2>1. DepthBorrow(Created(ids)) /\ WidthBorrow(n, Cardinality(new)) /\ ConstraintAllocate(Created(ids))
    BY <1>2 DEF ids
  <2> QED
    BY <1>5, <1>6, <1>7, <1>10, <1>13, <2>1 DEF LendsIds, m, ids
<1> QED
  BY <1>14

LEMMA BorrowStep ==
    ASSUME Inv, NEW n \in Nat, Borrow(n), configuration' = configuration
    PROVE  Inv'
<1>1. PICK lent, new : LendsIds(n, lent, new)
  BY BorrowOpens
<1> DEFINE m == n - Cardinality(lent)
           ids == lent \cup new
<1>2. /\ Cardinality(lent) \in Nat /\ m \in Nat /\ new \in NewIds(m) /\ Cardinality(new) = m
      /\ OpensBlock("borrow", ids, Cardinality(lent)) /\ DOMAIN held' = DOMAIN held \cup new
      /\ DepthBorrow(Created(ids)) /\ WidthBorrow(n, Cardinality(new))
      /\ ConstraintAllocate(Created(ids))
  BY <1>1 DEF LendsIds
<1> HIDE DEF ids
<1>3. Cardinality(DOMAIN held') = allocatedQubits + m /\ Cardinality(DOMAIN held') \in Nat
  <2> HIDE DEF m
  <2> QED
    BY <1>2, MoreInUse DEF Inv
<1>4. WidthRises(Cardinality(DOMAIN held'))
  <2> DEFINE w == Cardinality(DOMAIN held')
             last == widthCalls[Len(widthCalls)]
             r == [last EXCEPT !.maxAllocated = Max({@, w})]
             r2 == Borrowed(r, Cardinality(lent))
  <2>1. /\ allocatedQubits' = w /\ n - Cardinality(new) = Cardinality(lent)
        /\ widthCalls' = [widthCalls EXCEPT ![Len(widthCalls)] =
                Borrowed([@ EXCEPT !.maxAllocated = Max({last.maxAllocated, w})], Cardinality(lent))]
    <3>1. w = allocatedQubits + Cardinality(new) /\ n - Cardinality(new) = Cardinality(lent)
      BY <1>2, <1>3
    <3>2. WidthBorrow(n, Cardinality(new))
      BY <1>2
    <3> QED
      BY <3>1, <3>2 DEF WidthBorrow
  <2>2. w \in Nat
    BY <1>3
  <2> HIDE DEF w
  <2>3. last \in WidthRecords /\ r \in WidthRecords /\ r.maxAllocated = Max({last.maxAllocated, w})
    BY <2>2, RisenRecord DEF Inv
  <2>4. widthCalls' = [widthCalls EXCEPT ![Len(widthCalls)] = r2]
    BY <2>1
  <2> HIDE DEF r
  <2>5. r2 \in WidthRecords /\ r2.maxAllocated = r.maxAllocated
    <3> DEFINE c == r.currentBorrow + Cardinality(lent)
               most == Max({r.maxBorrowed, c})
    <3>1. c \in Int /\ r.maxBorrowed \in Nat
      BY <1>2, <2>3 DEF WidthRecords
    <3>2. most \in Nat
      <4> HIDE DEF c
      <4> QED
        BY <3>1, MaxOfTwo
    <3>3. r2 = [r EXCEPT !.currentBorrow = c, !.maxBorrowed = most]
      BY DEF Borrowed
    <3> HIDE DEF c, most, r2
    <3> QED
      BY <2>3, <3>1, <3>2, <3>3 DEF WidthRecords
  <2> HIDE DEF r2
  <2>6. /\ widthCalls' \in Seq(WidthRecords) /\ Len(widthCalls') = Len(widthCalls)
        /\ \A j \in DOMAIN widthCalls :
                widthCalls'[j] = IF j = Len(widthCalls) THEN r2 ELSE widthCalls[j]
    BY <2>4, <2>5, LastRecord DEF Inv
  <2> QED
    BY <2>1, <2>3, <2>5, <2>6 DEF WidthRises, w
<1>5. depthCalls' = depthCalls
  BY <1>2 DEF DepthBorrow
<1> QED
  BY <1>2, <1>4, <1>5, OpenStep

\* The last block has live objects, one for each of its ids, which are in use.
LEMMA LastBlockMeaning ==
    ASSUME StateInv, frames[Top].blocks # << >>
    PROVE  LET objects == Last(frames[Top].blocks).objects IN
           /\ objects \subseteq DOMAIN metrics /\ IdsOf(objects) \subseteq DOMAIN held
           /\ IsFiniteSet(objects) /\ Cardinality(objects) \in Nat
           /\ Cardinality(IdsOf(objects)) = Cardinality(objects)
<1> DEFINE b == Last(frames[Top].blocks)
           objects == b.objects
<1>1. ObjectInv /\ StackSound(frames, held, DOMAIN metrics) /\ WellFounded(frames)
  BY StackInvMeaning DEF StateInv, StackSound
<1>2. LastPlace \in Places(frames) /\ BlockAt(frames, LastPlace) = b
  <2> DEFINE s2 == Closed
  <2>1. s2 = Closed
    OBVIOUS
  <2> HIDE DEF s2
  <2> QED
    BY <1>1, <2>1, ClosedShrinks
<1>3. ObjectsAt(frames, LastPlace) = objects
  BY <1>2 DEF ObjectsAt
<1> HIDE DEF b, objects
<1>4. objects \subseteq DOMAIN metrics /\ IdsOf(objects) \subseteq DOMAIN held
  BY <1>1, <1>2, <1>3 DEF StackSound, BlocksHold, IdsOf
<1>5. \A o \in objects, r \in objects : QubitId(o) = QubitId(r) => o = r
  BY <1>1, <1>2, <1>3 DEF StackSound, BlocksDiffer
<1>6. IsFiniteSet(objects) /\ Cardinality(objects) \in Nat
  BY <1>1, <1>4, FS_Subset, FS_CardinalityType DEF ObjectInv
<1>7. Cardinality(IdsOf(objects)) = Cardinality(objects)
  <2> DEFINE f == [o \in objects |-> QubitId(o)]
  <2>1. f \in Bijection(objects, IdsOf(objects))
    BY <1>5 DEF Bijection, Injection, Surjection, IsInjective, IdsOf
  <2>2. ExistsBijection(objects, IdsOf(objects))
    BY <2>1 DEF ExistsBijection
  <2> QED
    BY <1>6, <2>2, FS_Bijection
<1> QED
  BY <1>4, <1>6, <1>7 DEF b, objects

\* Ids that are given up are not counted any more.
LEMMA FewerInUse ==
    ASSUME StateInv, WidthInv, NEW gone \in SUBSET DOMAIN held,
           DOMAIN held' = DOMAIN held \ gone
    PROVE  Cardinality(DOMAIN held') = allocatedQubits - Cardinality(gone)
<1>1. IsFiniteSet(DOMAIN held) /\ Cardinality(DOMAIN held) = allocatedQubits
  BY IdsAreFinite DEF StateInv, TypeInv, WidthInv
<1>2. DOMAIN held \cap gone = gone
  OBVIOUS
<1>3. Cardinality(DOMAIN held \ gone) = Cardinality(DOMAIN held) - Cardinality(DOMAIN held \cap gone)
  BY <1>1, FS_Difference
<1> QED
  BY <1>1, <1>2, <1>3

LEMMA ReleaseCloses ==
    ASSUME Inv, Release, configuration' = configuration
    PROVE  ClosesBlock("use")
<1> DEFINE b == Last(frames[Top].blocks)
           objects == b.objects
<1>1. /\ HasBlock("use") /\ b.kind = "use" /\ frames[Top].blocks # << >>
      /\ held' = [id \in DOMAIN held \ IdsOf(objects) |-> held[id]]
      /\ DepthRelease(objects) /\ WidthRelease(Cardinality(objects)) /\ ConstraintDiscard(objects)
      /\ frames' = Closed /\ fresh' = fresh /\ failing' = failing /\ wires' = wires
  BY DEF Release, HasBlock, IdsOf
<1>2. held \in [DOMAIN held -> Nat]
  BY DEF Inv, StateInv, TypeInv
<1>3. /\ IdsOf(objects) \subseteq DOMAIN held
      /\ Cardinality(objects) \in Nat /\ Cardinality(IdsOf(objects)) = Cardinality(objects)
  BY <1>1, LastBlockMeaning DEF Inv
<1>4. HeldLess(held, held', b)
  <2>1. GivenUp(held, b) = IdsOf(objects)
    BY <1>1 DEF GivenUp
  <2> HIDE DEF b
  <2> QED
    BY <1>1, <1>2, <2>1 DEF HeldLess
<1>5. ClosesBlock("use")
  <2>1. held' \in [DOMAIN held' -> Nat]
    BY <1>1, <1>2
  <2>2. metrics' = Discarded(objects)
    BY <1>1 DEF DepthRelease
  <2> QED
    BY <1>1, <1>4, <2>1, <2>2 DEF ClosesBlock
<1> QED
  BY <1>5

LEMMA ReleaseStep ==
    ASSUME Inv, Release, configuration' = configuration
    PROVE  Inv'
<1> DEFINE b == Last(frames[Top].blocks)
           objects == b.objects
<1>1. /\ HasBlock("use") /\ b.kind = "use" /\ frames[Top].blocks # << >>
      /\ held' = [id \in DOMAIN held \ IdsOf(objects) |-> held[id]]
      /\ DepthRelease(objects) /\ WidthRelease(Cardinality(objects)) /\ ConstraintDiscard(objects)
      /\ frames' = Closed /\ fresh' = fresh /\ failing' = failing /\ wires' = wires
  BY DEF Release, HasBlock, IdsOf
<1>2. held \in [DOMAIN held -> Nat]
  BY DEF Inv, StateInv, TypeInv
<1>3. /\ IdsOf(objects) \subseteq DOMAIN held
      /\ Cardinality(objects) \in Nat /\ Cardinality(IdsOf(objects)) = Cardinality(objects)
  BY <1>1, LastBlockMeaning DEF Inv
<1>4. ClosesBlock("use")
  BY ReleaseCloses
<1> HIDE DEF b
<1>5. WidthFalls
  <2>1. Cardinality(DOMAIN held') = allocatedQubits - Cardinality(objects)
    <3> HIDE DEF objects
    <3>1. DOMAIN held' = DOMAIN held \ IdsOf(objects)
      BY <1>1
    <3> QED
      BY <1>3, <3>1, FewerInUse DEF Inv
  <2>2. allocatedQubits' = allocatedQubits - Cardinality(objects) /\ widthCalls' = widthCalls
    BY <1>1 DEF WidthRelease
  <2> QED
    BY <2>1, <2>2 DEF WidthFalls, Inv, WidthInv
<1>6. \E x : depthCalls' = [depthCalls EXCEPT ![Len(depthCalls)].released = x]
  BY <1>1 DEF DepthRelease
<1> QED
  BY <1>1, <1>4, <1>5, <1>6, CloseStep DEF b

LEMMA ReturnCloses ==
    ASSUME Inv, Return, configuration' = configuration
    PROVE  ClosesBlock("borrow")
<1> DEFINE b == Last(frames[Top].blocks)
           objects == b.objects
           released == {id \in IdsOf(objects) : held[id] = 1}
<1>1. /\ HasBlock("borrow") /\ b.kind = "borrow" /\ frames[Top].blocks # << >>
      /\ held' = [id \in DOMAIN held \ released |->
                        IF id \in IdsOf(objects) /\ held[id] > 0 THEN held[id] - 1 ELSE held[id]]
      /\ DepthReturn(objects) /\ WidthReturn(Cardinality(objects), Cardinality(released))
      /\ ConstraintDiscard(objects)
      /\ frames' = Closed /\ fresh' = fresh /\ failing' = failing /\ wires' = wires
  BY DEF Return, HasBlock, IdsOf
<1>2. held \in [DOMAIN held -> Nat]
  BY DEF Inv, StateInv, TypeInv
<1>3. /\ IdsOf(objects) \subseteq DOMAIN held
      /\ Cardinality(objects) \in Nat /\ Cardinality(IdsOf(objects)) = Cardinality(objects)
  BY <1>1, LastBlockMeaning DEF Inv
<1>4. HeldLess(held, held', b)
  <2>1. GivenUp(held, b) = released
    BY <1>1 DEF GivenUp
  <2> HIDE DEF b, released
  <2> QED
    BY <1>1, <1>2, <2>1 DEF HeldLess
<1>5. ClosesBlock("borrow")
  <2>1. held' \in [DOMAIN held' -> Nat]
    <3>1. \A id \in DOMAIN held \ released :
            (IF id \in IdsOf(objects) /\ held[id] > 0 THEN held[id] - 1 ELSE held[id]) \in Nat
      BY <1>2
    <3> HIDE DEF b, objects, released
    <3> QED
      BY <1>1, <3>1
  <2>2. metrics' = Discarded(objects)
    BY <1>1 DEF DepthReturn
  <2> QED
    BY <1>1, <1>4, <2>1, <2>2 DEF ClosesBlock
<1> QED
  BY <1>5

LEMMA ReturnStep ==
    ASSUME Inv, Return, configuration' = configuration
    PROVE  Inv'
<1> DEFINE b == Last(frames[Top].blocks)
           objects == b.objects
           released == {id \in IdsOf(objects) : held[id] = 1}
<1>1. /\ HasBlock("borrow") /\ b.kind = "borrow" /\ frames[Top].blocks # << >>
      /\ held' = [id \in DOMAIN held \ released |->
                        IF id \in IdsOf(objects) /\ held[id] > 0 THEN held[id] - 1 ELSE held[id]]
      /\ DepthReturn(objects) /\ WidthReturn(Cardinality(objects), Cardinality(released))
      /\ ConstraintDiscard(objects)
      /\ frames' = Closed /\ fresh' = fresh /\ failing' = failing /\ wires' = wires
  BY DEF Return, HasBlock, IdsOf
<1>2. held \in [DOMAIN held -> Nat]
  BY DEF Inv, StateInv, TypeInv
<1>3. /\ IdsOf(objects) \subseteq DOMAIN held
      /\ Cardinality(objects) \in Nat /\ Cardinality(IdsOf(objects)) = Cardinality(objects)
  BY <1>1, LastBlockMeaning DEF Inv
<1>4. ClosesBlock("borrow")
  BY ReturnCloses
<1> HIDE DEF b
<1>5. released \in SUBSET DOMAIN held /\ Cardinality(released) \in Nat
  <2>1. released \in SUBSET DOMAIN held
    BY <1>3
  <2>2. IsFiniteSet(DOMAIN held)
    BY IdsAreFinite DEF Inv, StateInv, TypeInv
  <2> HIDE DEF released
  <2> QED
    BY <2>1, <2>2, FS_Subset, FS_CardinalityType
<1> HIDE DEF released
<1>6. WidthFalls
  <2>1. Cardinality(DOMAIN held') = allocatedQubits - Cardinality(released)
    <3>1. DOMAIN held' = DOMAIN held \ released
      BY <1>1
    <3> QED
      BY <1>5, <3>1, FewerInUse DEF Inv
  <2> DEFINE last == widthCalls[Len(widthCalls)]
             r == [last EXCEPT !.currentBorrow = @ - (Cardinality(objects) - Cardinality(released))]
  <2>2. /\ allocatedQubits' = allocatedQubits - Cardinality(released)
        /\ widthCalls' = [widthCalls EXCEPT ![Len(widthCalls)] = r]
    BY <1>1 DEF WidthReturn
  <2>3. last \in WidthRecords
    BY PeaksAreNumbers DEF Inv
  <2> HIDE DEF last
  <2>4. r \in WidthRecords /\ r.maxAllocated = last.maxAllocated
    <3>1. last.currentBorrow - (Cardinality(objects) - Cardinality(released)) \in Int
      BY <1>3, <1>5, <2>3 DEF WidthRecords
    <3> QED
      BY <2>3, <3>1 DEF WidthRecords
  <2> HIDE DEF r
  <2>5. /\ widthCalls' \in Seq(WidthRecords) /\ Len(widthCalls') = Len(widthCalls)
        /\ \A j \in DOMAIN widthCalls :
                widthCalls'[j] = IF j = Len(widthCalls) THEN r ELSE widthCalls[j]
    BY <2>2, <2>4, LastRecord DEF Inv
  <2> QED
    BY <2>1, <2>2, <2>4, <2>5 DEF WidthFalls, last
<1>7. \E x : depthCalls' = [depthCalls EXCEPT ![Len(depthCalls)].returned = x]
  BY <1>1 DEF DepthReturn
<1> QED
  BY <1>1, <1>4, <1>6, <1>7, CloseStep DEF b

\* What an observable is.
LEMMA ObservableMeaning ==
    ASSUME StateInv, NEW o \in Observables
    PROVE  /\ o[1] \in Seq(QubitObjects) /\ Len(o[1]) > 0 /\ Range(o[1]) \subseteq Reach
           /\ o[2] \in Seq({"Z"} \cup UNION {c.Paulis : c \in Configurations}) /\ Len(o[2]) = Len(o[1])
           /\ 1 \in DOMAIN o[1] /\ DOMAIN o[1] = 1 .. Len(o[1])
           /\ \A i \in DOMAIN o[1], j \in DOMAIN o[1] : o[1][i] = o[1][j] => i = j
<1> DEFINE P == {"Z"} \cup UNION {c.Paulis : c \in Configurations}
<1>1. PICK n \in {1, 2} : o \in [1 .. n -> Reach] \X [1 .. n -> configuration.Paulis]
  BY DEF Observables
<1>2. IsInjective(o[1])
  BY DEF Observables
<1>3. Reach \subseteq QubitObjects
  BY ReachIsLive
<1>4. configuration.Paulis \subseteq P
  BY DEF StateInv, TypeInv
<1> HIDE DEF P
<1>5. o[1] \in [1 .. n -> Reach] /\ o[2] \in [1 .. n -> P]
  BY <1>1, <1>4
<1>6. n \in Nat /\ n > 0
  OBVIOUS
<1>7. o[1] \in Seq(QubitObjects) /\ Len(o[1]) = n
  <2>1. o[1] \in [1 .. n -> QubitObjects]
    BY <1>3, <1>5
  <2> QED
    BY <1>6, <2>1
<1>8. o[2] \in Seq(P) /\ Len(o[2]) = n
  BY <1>5, <1>6
<1>9. Range(o[1]) \subseteq Reach
  BY <1>5 DEF Range
<1>10. \A i \in DOMAIN o[1], j \in DOMAIN o[1] : o[1][i] = o[1][j] => i = j
  BY <1>2 DEF IsInjective
<1> QED
  BY <1>5, <1>6, <1>7, <1>8, <1>9, <1>10 DEF P

\* A constraint about an observable can be set.
LEMMA ObservableIsSettable ==
    ASSUME Inv, NEW o \in Observables, NEW outcomes \in SUBSET {0, 1}
    PROVE  Settable(MeasurementConstraint(o[1], o[2], outcomes))
<1> DEFINE c == MeasurementConstraint(o[1], o[2], outcomes)
<1>1. /\ o[1] \in Seq(QubitObjects) /\ Len(o[1]) > 0 /\ Range(o[1]) \subseteq Reach
      /\ o[2] \in Seq({"Z"} \cup UNION {x.Paulis : x \in Configurations}) /\ Len(o[2]) = Len(o[1])
      /\ \A i \in DOMAIN o[1], j \in DOMAIN o[1] : o[1][i] = o[1][j] => i = j
  BY ObservableMeaning DEF Inv
<1>2. c.qubits = o[1] /\ c.observable = o[2] /\ c \in Constraints
  BY <1>1 DEF MeasurementConstraint, Constraints
<1>3. Reach \subseteq DOMAIN constraint
  BY ReachIsLive, KnownMeaning DEF Inv
<1>4. \A i \in DOMAIN o[1] : o[1][i] \in DOMAIN constraint
  BY <1>1, <1>3 DEF Range
<1> HIDE DEF c
<1>5. Settable(c)
  BY <1>1, <1>2, <1>4 DEF Settable
<1> QED
  BY <1>5 DEF c

\* A step that leaves calls and widths alone.
CallsStay == UNCHANGED <<configuration, depthCalls, widthVars, frames, held>>

LEMMA StayingKeepsCalls ==
    ASSUME CallInv, WidthInv, CallsStay
    PROVE  CallInv' /\ WidthInv'
<1>1. /\ configuration' = configuration /\ depthCalls' = depthCalls /\ widthCalls' = widthCalls
      /\ allocatedQubits' = allocatedQubits /\ frames' = frames /\ held' = held
  BY DEF CallsStay, widthVars
<1>2. CallInv'
  BY <1>1 DEF CallInv, Top
<1>3. WidthInv'
  BY <1>1 DEF WidthInv
<1> QED
  BY <1>2, <1>3

\* A gate or a measurement, whatever becomes of the constraints.
LEMMA PrimitiveStep ==
    ASSUME Inv, NEW n, NEW objects \in kSubset(n, Reach), NEW time \in Nat,
           DoPrimitiveOperation(objects, time), configuration' = configuration
    PROVE  /\ StateInv' /\ TimeInv' /\ CallInv' /\ WidthInv'
           /\ DOMAIN metrics' = DOMAIN metrics
<1>1. /\ InOperation /\ wires' = WithGate({Wire(o) : o \in objects}, time)
      /\ DepthGate(objects, time)
      /\ UNCHANGED <<widthVars, frames, held, fresh, failing, calls>>
  BY DEF DoPrimitiveOperation
<1>2. objects \in SUBSET Reach
  BY DEF kSubset
<1>3. objects \in SUBSET DOMAIN metrics /\ IsFiniteSet(objects)
  BY <1>2, ReachIsLive, FS_Subset DEF Inv
<1>4. TimeInv' /\ DOMAIN metrics' = DOMAIN metrics
  BY <1>1, <1>3, GateKeepsTimes DEF Inv
<1>5. RunsGate(objects, time)
  BY <1>1, <1>2, <1>4 DEF RunsGate
<1>6. StateInv'
  BY <1>5, GateKeepsState DEF Inv
<1>7. CallInv' /\ WidthInv'
  <2>1. depthCalls' = depthCalls
    BY <1>1 DEF DepthGate
  <2>2. CallsStay
    BY <1>1, <2>1 DEF CallsStay
  <2> QED
    BY <2>2, StayingKeepsCalls DEF Inv
<1> QED
  BY <1>4, <1>6, <1>7

LEMMA GateStep ==
    ASSUME Inv, Gate, configuration' = configuration
    PROVE  Inv'
<1>1. PICK kind \in configuration.GateTimes : \E objects \in kSubset(kind[1], Reach) :
        DoPrimitiveOperation(objects, kind[2]) /\ OnUseQubit(objects)
  BY DEF Gate
<1>2. PICK objects \in kSubset(kind[1], Reach) :
        DoPrimitiveOperation(objects, kind[2]) /\ OnUseQubit(objects)
  BY <1>1
<1>3. kind[2] \in Nat
  <2>1. configuration \in Configurations
    BY DEF Inv, StateInv, TypeInv
  <2> QED
    BY <2>1, ConstantsAssumption
<1>4. StateInv' /\ TimeInv' /\ CallInv' /\ WidthInv' /\ DOMAIN metrics' = DOMAIN metrics
  BY <1>2, <1>3, PrimitiveStep
<1>5. KnownInv'
  BY <1>2, <1>4, UseKeepsKnown DEF Inv
<1> QED
  BY <1>4, <1>5 DEF Inv

\* What is known does not depend on anything but the live qubits and the constraints.
LEMMA StayingKeepsKnown ==
    ASSUME KnownInv, UNCHANGED constraintVars, DOMAIN metrics' = DOMAIN metrics
    PROVE  KnownInv'
<1>1. constraint' = constraint /\ facts' = facts
  BY DEF constraintVars
<1>2. ConstraintInv'
  BY <1>1 DEF KnownInv, ConstraintInv, KnownOf
<1>3. FactInv'
  BY <1>1 DEF KnownInv, FactInv, KnownOf, IsFact, FactRecords, Constraints, QubitObjects
<1> QED
  BY <1>2, <1>3 DEF KnownInv

LEMMA MeasureStep ==
    ASSUME Inv, Measure, configuration' = configuration
    PROVE  Inv'
<1>1. PICK n \in {1, 2} : \E objects \in kSubset(n, Reach) :
        DoPrimitiveOperation(objects, MeasureTime) /\ OnMeasure(objects)
  BY DEF Measure
<1>2. PICK objects \in kSubset(n, Reach) :
        DoPrimitiveOperation(objects, MeasureTime) /\ OnMeasure(objects)
  BY <1>1
<1>3. MeasureTime \in Nat
  BY ConstantsAssumption
<1>4. StateInv' /\ TimeInv' /\ CallInv' /\ WidthInv' /\ DOMAIN metrics' = DOMAIN metrics
  BY <1>2, <1>3, PrimitiveStep
<1>5. KnownInv'
  BY <1>2, <1>4, MeasureKeepsKnown DEF Inv
<1> QED
  BY <1>4, <1>5 DEF Inv

\* An assertion about an observable.
LEMMA SetStep ==
    ASSUME Inv, NEW o \in Observables, NEW outcomes \in SUBSET {0, 1},
           SetConstraint(MeasurementConstraint(o[1], o[2], outcomes)),
           UNCHANGED <<configuration, depthVars, widthVars, frames, held, fresh, failing, wires>>
    PROVE  Inv'
<1>1. /\ configuration' = configuration /\ metrics' = metrics /\ depthCalls' = depthCalls
      /\ frames' = frames /\ held' = held /\ fresh' = fresh /\ failing' = failing /\ wires' = wires
      /\ UNCHANGED <<configuration, depthCalls, widthVars, frames, held>>
  BY DEF depthVars
<1>2. StateInv'
  <2>1. ObjectInv'
    BY <1>1, StayingKeepsObjects DEF ObjectsStay, Inv, StateInv
  <2>2. TypeInv'
    BY <1>1 DEF TypeInv, Top, Inv, StateInv
  <2>3. StackInv'
    BY <1>1 DEF StackInv, Inv, StateInv
  <2> QED
    BY <2>1, <2>2, <2>3 DEF StateInv
<1>3. TimeInv'
  BY <1>1 DEF TimeInv, Inv
<1>4. CallInv' /\ WidthInv'
  BY <1>1, StayingKeepsCalls DEF CallsStay, Inv
<1>5. KnownInv'
  <2> DEFINE c == MeasurementConstraint(o[1], o[2], outcomes)
  <2>1. Settable(c)
    BY ObservableIsSettable
  <2>2. SetConstraint(c)
    OBVIOUS
  <2> HIDE DEF c
  <2> QED
    BY <1>1, <2>1, <2>2, SetKeepsKnown DEF Inv
<1> QED
  BY <1>2, <1>3, <1>4, <1>5 DEF Inv

LEMMA AssertStep ==
    ASSUME Inv, AssertProb, configuration' = configuration
    PROVE  Inv'
<1>1. PICK o \in Observables, result \in {0, 1}, certain \in BOOLEAN :
        /\ SetConstraint(AssertMeasurement(o[1], o[2], result, certain))
        /\ UNCHANGED <<depthVars, widthVars, frames, held, fresh, failing, calls, wires>>
  BY DEF AssertProb
<1>2. PICK outcomes \in SUBSET {0, 1} :
        AssertMeasurement(o[1], o[2], result, certain) = MeasurementConstraint(o[1], o[2], outcomes)
  <2>1. CASE certain
    BY <2>1 DEF AssertMeasurement
  <2>2. CASE ~ certain
    BY <2>2 DEF AssertMeasurement
  <2> QED
    BY <2>1, <2>2
<1>3. UNCHANGED <<configuration, depthVars, widthVars, frames, held, fresh, failing, wires>>
  BY <1>1
<1>4. SetConstraint(MeasurementConstraint(o[1], o[2], outcomes))
  BY <1>1, <1>2
<1> QED
  BY <1>3, <1>4, SetStep

LEMMA ForceStep ==
    ASSUME Inv, ForceMeasure, configuration' = configuration
    PROVE  Inv'
<1>1. PICK o \in Observables, result \in {0, 1} :
        /\ SetConstraint(ForceMeasurement(o[1], o[2], result))
        /\ UNCHANGED <<depthVars, widthVars, frames, held, fresh, failing, calls, wires>>
  BY DEF ForceMeasure
<1>2. {result} \in SUBSET {0, 1}
  OBVIOUS
<1>3. UNCHANGED <<configuration, depthVars, widthVars, frames, held, fresh, failing, wires>>
  BY <1>1
<1>4. SetConstraint(MeasurementConstraint(o[1], o[2], {result}))
  BY <1>1 DEF ForceMeasurement
<1> QED
  BY <1>2, <1>3, <1>4, SetStep

LEMMA StartStep ==
    ASSUME Inv, OnOperationStart, configuration' = configuration
    PROVE  Inv'
<1>1. PICK inputs \in SUBSET Reach :
        /\ ~ failing /\ frames' = Append(frames, Frame(inputs))
        /\ IF Recorded(Top) THEN DepthStart(inputs) /\ WidthStart(Cardinality(inputs))
           ELSE UNCHANGED <<depthVars, widthVars>>
        /\ UNCHANGED <<constraintVars, held, fresh, failing, wires>>
  BY DEF OnOperationStart
<1>2. metrics' = metrics
  BY <1>1 DEF DepthStart, depthVars
<1>3. OpensCall(inputs)
  BY <1>1, <1>2 DEF OpensCall, ObjectsStay
<1>4. StateInv'
  BY <1>3, CallKeepsState DEF Inv
<1>5. CallInv' /\ WidthInv'
  BY <1>1, <1>3, StartKeepsCalls DEF Inv
<1>6. TimeInv'
  BY <1>2 DEF TimeInv, Inv
<1>7. KnownInv'
  BY <1>1, <1>2, StayingKeepsKnown DEF Inv
<1> QED
  BY <1>4, <1>5, <1>6, <1>7 DEF Inv

\* A call that ends, at its end or with an exception.
LEMMA EndStep ==
    ASSUME Inv, ClosesCall, EndOfCall
    PROVE  Inv'
<1>1. /\ IF Recorded(Top - 1) THEN DepthEnd /\ WidthEnd ELSE UNCHANGED <<depthVars, widthVars>>
      /\ UNCHANGED constraintVars
  BY DEF EndOfCall
<1>2. metrics' = metrics
  BY DEF ClosesCall, ObjectsStay
<1>3. StateInv'
  BY EndKeepsState DEF Inv
<1>4. CallInv' /\ WidthInv'
  BY <1>1, EndKeepsCalls DEF Inv
<1>5. TimeInv'
  BY <1>2 DEF TimeInv, Inv
<1>6. KnownInv'
  BY <1>1, <1>2, StayingKeepsKnown DEF Inv
<1> QED
  BY <1>3, <1>4, <1>5, <1>6 DEF Inv

LEMMA EndKeepsObjects ==
    ASSUME EndOfCall, configuration' = configuration
    PROVE  ObjectsStay /\ held' = held /\ frames' = Front(frames)
<1>1. metrics' = metrics
  BY DEF EndOfCall, DepthEnd, depthVars
<1> QED
  BY <1>1 DEF EndOfCall, ObjectsStay

LEMMA OperationEndCloses ==
    ASSUME Inv, OnOperationEnd, configuration' = configuration
    PROVE  EndOfCall /\ ClosesCall
<1>1. EndOfCall /\ ~ failing /\ Top > 1 /\ frames[Top].blocks = << >> /\ failing' = failing
  BY DEF OnOperationEnd, InOperation
<1>2. failing' = FALSE
  BY <1>1 DEF Inv, StateInv, TypeInv
<1>3. ClosesCall
  BY <1>1, <1>2, EndKeepsObjects DEF ClosesCall
<1> QED
  BY <1>1, <1>3

LEMMA OperationEndStep ==
    ASSUME Inv, OnOperationEnd, configuration' = configuration
    PROVE  Inv'
BY OperationEndCloses, EndStep

LEMMA UnwindCloses ==
    ASSUME Inv, Unwind, configuration' = configuration
    PROVE  EndOfCall /\ ClosesCall
<1>1. EndOfCall /\ failing /\ failing' = (Top > 2)
  BY DEF Unwind
<1>2. Top > 1
  BY <1>1 DEF Inv, StateInv, TypeInv
<1>3. failing' \in BOOLEAN /\ (failing' <=> Top > 2)
  <2>1. CASE Top > 2
    <3>1. (Top > 2) = TRUE
      BY <2>1
    <3>2. failing' = TRUE
      BY <1>1, <3>1
    <3> QED
      BY <2>1, <3>2
  <2>2. CASE ~ (Top > 2)
    <3>1. (Top > 2) = FALSE
      BY <2>2
    <3>2. failing' = FALSE
      BY <1>1, <3>1
    <3> QED
      BY <2>2, <3>2
  <2> QED
    BY <2>1, <2>2
<1>4. ClosesCall
  BY <1>1, <1>2, <1>3, EndKeepsObjects DEF ClosesCall
<1> QED
  BY <1>1, <1>4

LEMMA UnwindStep ==
    ASSUME Inv, Unwind, configuration' = configuration
    PROVE  Inv'
BY UnwindCloses, EndStep

LEMMA FailStep ==
    ASSUME Inv, OnFail, configuration' = configuration
    PROVE  Inv'
<1>1. /\ Top > 1 /\ failing' = TRUE
      /\ UNCHANGED <<depthVars, widthVars, constraintVars, frames, held, fresh, calls, wires>>
  BY DEF OnFail, InOperation
<1>2. /\ configuration' = configuration /\ metrics' = metrics /\ depthCalls' = depthCalls
      /\ frames' = frames /\ held' = held /\ fresh' = fresh /\ wires' = wires
      /\ UNCHANGED <<configuration, depthCalls, widthVars, frames, held>>
  BY <1>1 DEF depthVars
<1>3. StateInv'
  <2>1. ObjectInv'
    BY <1>2, StayingKeepsObjects DEF ObjectsStay, Inv, StateInv
  <2>2. TypeInv'
    BY <1>1, <1>2 DEF TypeInv, Top, Inv, StateInv
  <2>3. StackInv'
    BY <1>1, <1>2 DEF StackInv, Inv, StateInv
  <2> QED
    BY <2>1, <2>2, <2>3 DEF StateInv
<1>4. TimeInv'
  BY <1>2 DEF TimeInv, Inv
<1>5. CallInv' /\ WidthInv'
  BY <1>2, StayingKeepsCalls DEF CallsStay, Inv
<1>6. KnownInv'
  BY <1>1, <1>2, StayingKeepsKnown DEF Inv
<1> QED
  BY <1>3, <1>4, <1>5, <1>6 DEF Inv

\* Nothing changes.
LEMMA StutterStep ==
    ASSUME Inv, UNCHANGED vars
    PROVE  Inv'
<1>1. /\ configuration' = configuration /\ metrics' = metrics /\ depthCalls' = depthCalls
      /\ frames' = frames /\ held' = held /\ fresh' = fresh /\ failing' = failing /\ wires' = wires
      /\ UNCHANGED <<configuration, depthCalls, widthVars, frames, held>>
      /\ UNCHANGED constraintVars
  BY DEF depthVars, vars
<1>2. StateInv'
  <2>1. ObjectInv'
    BY <1>1, StayingKeepsObjects DEF ObjectsStay, Inv, StateInv
  <2>2. TypeInv'
    BY <1>1 DEF TypeInv, Top, Inv, StateInv
  <2>3. StackInv'
    BY <1>1 DEF StackInv, Inv, StateInv
  <2> QED
    BY <2>1, <2>2, <2>3 DEF StateInv
<1>3. TimeInv'
  BY <1>1 DEF TimeInv, Inv
<1>4. CallInv' /\ WidthInv'
  BY <1>1, StayingKeepsCalls DEF CallsStay, Inv
<1>5. KnownInv'
  BY <1>1, StayingKeepsKnown DEF Inv
<1> QED
  BY <1>2, <1>3, <1>4, <1>5 DEF Inv

-----------------------------------------------------------------------------
(* The invariant.                                                           *)

LEMMA InitIsSound ==
    ASSUME Init
    PROVE  Inv
<1> DEFINE host == [inputs |-> {}, blocks |-> << >>, peak |-> 0, before |-> {}]
<1>1. /\ configuration \in Configurations
      /\ metrics = << >> /\ wires = << >> /\ held = << >> /\ fresh = 0 /\ failing = FALSE
      /\ constraint = << >> /\ facts = {}
      /\ frames = <<host>> /\ allocatedQubits = 0 /\ widthCalls = <<WidthRecord(0, 0)>>
      /\ Len(depthCalls) = 1 /\ depthCalls \in Seq({depthCalls[1]})
      /\ "inputs" \in DOMAIN depthCalls[1]
  BY DEF Init, DepthInit, WidthInit, ConstraintInit
<1>2. /\ DOMAIN metrics = {} /\ DOMAIN wires = {} /\ DOMAIN held = {} /\ DOMAIN constraint = {}
      /\ Top = 1 /\ DOMAIN frames = {1} /\ frames[1] = host
  BY <1>1 DEF Top
<1>3. configuration.CallStackDepthLimit \in Nat
  BY <1>1, ConstantsAssumption
<1>4. Places(frames) = {}
  BY <1>2 DEF Places
<1>5. TypeInv
  <2>1. held \in [DOMAIN held -> Nat] /\ DOMAIN held \subseteq 0 .. fresh - 1
    BY <1>1, <1>2
  <2>2. fresh \in Nat /\ failing \in BOOLEAN /\ ~ failing
    BY <1>1
  <2> QED
    BY <1>1, <2>1, <2>2 DEF TypeInv
<1>6. ObjectInv
  <2>1. IsFiniteSet({})
    BY FS_EmptySet
  <2>2. NoGaps(Numbered)
    BY <1>2 DEF NoGaps, Numbered
  <2>3. wires \in [DOMAIN wires -> Seq(GateRecords)]
    BY <1>1
  <2> QED
    BY <1>2, <2>1, <2>2, <2>3 DEF ObjectInv
<1>7. StackInv
  <2>1. WellFounded(frames)
    <3>1. host \in FrameRecords
      BY DEF FrameRecords
    <3>2. frames \in Seq(FrameRecords) /\ Len(frames) = 1
      BY <1>1, <3>1
    <3> QED
      BY <1>2, <3>2 DEF WellFounded
  <2>2. BlocksHold(frames, held, DOMAIN metrics) /\ BlocksDiffer(frames)
    BY <1>4 DEF BlocksHold, BlocksDiffer
  <2>3. InputsAreLent(frames)
    <3>1. \A k \in DOMAIN frames : frames[k].inputs = {} /\ Reached(frames, k) = {}
      BY <1>2, <1>4 DEF Reached
    <3> QED
      BY <3>1 DEF InputsAreLent
  <2>4. LoansCounted(frames, held)
    BY <1>2 DEF LoansCounted
  <2>5. AboveIsOpen(frames, DOMAIN metrics)
    BY <1>4 DEF AboveIsOpen
  <2> QED
    BY <2>1, <2>2, <2>3, <2>4, <2>5 DEF StackInv
<1>8. TimeInv
  BY <1>1, <1>2 DEF TimeInv
<1>9. CallInv
  <2>1. Len(widthCalls) = 1
    BY <1>1
  <2>2. depthCalls \in Seq(Range(depthCalls))
    BY <1>1, SequenceOfItsOwn
  <2> QED
    BY <1>1, <1>2, <1>3, <2>1, <2>2 DEF CallInv
<1>10. WidthInv
  <2>1. Cardinality({}) = 0
    BY FS_EmptySet
  <2>2. /\ WidthRecord(0, 0) \in WidthRecords /\ WidthRecord(0, 0).maxAllocated = 0
    BY DEF WidthRecord, WidthRecords
  <2>3. widthCalls \in Seq(WidthRecords) /\ Len(widthCalls) = 1 /\ widthCalls[1].maxAllocated = 0
    BY <1>1, <2>2
  <2> QED
    BY <1>1, <1>2, <2>1, <2>3 DEF WidthInv
<1>11. KnownInv
  BY <1>1, <1>2 DEF KnownInv, ConstraintInv, FactInv
<1> QED
  BY <1>5, <1>6, <1>7, <1>8, <1>9, <1>10, <1>11 DEF Inv, StateInv

LEMMA StepIsSound ==
    ASSUME Inv, [Next]_vars
    PROVE  Inv'
<1>1. CASE UNCHANGED vars
  BY <1>1, StutterStep
<1>2. ASSUME configuration' = configuration, NEW n \in 1 .. configuration.MaxRequest, Allocate(n)
      PROVE  Inv'
  <2>1. n \in Nat
    OBVIOUS
  <2> QED
    BY <1>2, <2>1, AllocateStep
<1>3. ASSUME configuration' = configuration, NEW n \in 1 .. configuration.MaxBorrow, Borrow(n)
      PROVE  Inv'
  <2>1. n \in Nat
    OBVIOUS
  <2> QED
    BY <1>3, <2>1, BorrowStep
<1>4. ASSUME configuration' = configuration, Release
      PROVE  Inv'
  BY <1>4, ReleaseStep
<1>5. ASSUME configuration' = configuration, Return
      PROVE  Inv'
  BY <1>5, ReturnStep
<1>6. ASSUME configuration' = configuration, Gate
      PROVE  Inv'
  BY <1>6, GateStep
<1>7. ASSUME configuration' = configuration, Measure
      PROVE  Inv'
  BY <1>7, MeasureStep
<1>8. ASSUME configuration' = configuration, AssertProb
      PROVE  Inv'
  BY <1>8, AssertStep
<1>9. ASSUME configuration' = configuration, ForceMeasure
      PROVE  Inv'
  BY <1>9, ForceStep
<1>10. ASSUME configuration' = configuration, OnOperationStart
       PROVE  Inv'
  BY <1>10, StartStep
<1>11. ASSUME configuration' = configuration, OnOperationEnd
       PROVE  Inv'
  BY <1>11, OperationEndStep
<1>12. ASSUME configuration' = configuration, OnFail
       PROVE  Inv'
  BY <1>12, FailStep
<1>13. ASSUME configuration' = configuration, Unwind
       PROVE  Inv'
  BY <1>13, UnwindStep
<1> QED
  BY <1>1, <1>2, <1>3, <1>4, <1>5, <1>6, <1>7, <1>8, <1>9, <1>10, <1>11, <1>12, <1>13 DEF Next

\* The blocks of the open operations share ids only as borrowing allows, the listeners
\* have a record for every call they are told of, with the peak of its qubits in one of the records
\* from there on, and every constraint is from an assertion, which no qubit lost that has it: after any sequence of
\* calls on the simulator that a compiled program can make, with failures.
THEOREM TracerInvariance == Spec => []Inv
<1>1. Init => Inv
  BY InitIsSound
<1>2. Inv /\ [Next]_vars => Inv'
  BY StepIsSound
<1> QED
  BY <1>1, <1>2, PTL DEF Spec

LEMMA MinOfTwo ==
    ASSUME NEW a \in Int, NEW b \in Int
    PROVE  Min({a, b}) = IF a <= b THEN a ELSE b
<1> DEFINE m == IF a <= b THEN a ELSE b
<1>1. m \in {a, b} /\ \A y \in {a, b} : m <= y
  OBVIOUS
<1>2. \A x \in {a, b} : (\A y \in {a, b} : x <= y) => x = m
  OBVIOUS
<1> HIDE DEF m
<1>3. Min({a, b}) = CHOOSE x \in {a, b} : \A y \in {a, b} : x <= y
  BY DEF Min
<1>4. Min({a, b}) = m
  BY <1>1, <1>2, <1>3
<1> QED
  BY <1>4 DEF m

\* Every live qubit has its times and its constraint, a qubit's busy time is in order and
\* not before the beginning, a call has one record in each counter down to the depth limit,
\* and no operation has two objects for a qubit.
THEOREM TypesAreRight == Spec => []TypeOK
<1>1. Inv => TypeOK
  <2> SUFFICES ASSUME Inv PROVE TypeOK
    OBVIOUS
  <2>1. TypeInv /\ ObjectInv /\ StackInv /\ TimeInv /\ CallInv /\ KnownInv
    BY DEF Inv, StateInv
  <2>2. DOMAIN metrics = DOMAIN constraint
    BY <2>1, KnownMeaning
  <2>3. ASSUME NEW o \in DOMAIN metrics
        PROVE  /\ QubitId(o) < fresh /\ Wire(o) \in DOMAIN wires
               /\ AtMost(Zero, metrics[o].end) /\ Before(metrics[o].start, metrics[o].end)
    <3>1. QubitId(o) < fresh /\ Wire(o) \in DOMAIN wires /\ Before(metrics[o].start, metrics[o].end)
      BY <2>1 DEF ObjectInv, TimeInv
    <3>2. metrics[o].end \in Times
      BY <2>1 DEF TimeInv
    <3>3. AtMost(Zero, metrics[o].end)
      BY <3>2 DEF AtMost, Before, Zero, Time, Times
    <3> QED
      BY <3>1, <3>3
  <2>4. DOMAIN held \subseteq 0 .. fresh - 1
    BY <2>1 DEF TypeInv
  <2>5. /\ Len(depthCalls) = Len(widthCalls)
        /\ Len(depthCalls) = Min({Top, configuration.CallStackDepthLimit + 1})
    <3>1. Top \in Nat /\ configuration.CallStackDepthLimit \in Nat
      BY PeaksAreNumbers DEF Inv
    <3>2. Min({Top, configuration.CallStackDepthLimit + 1}) =
            IF Top <= configuration.CallStackDepthLimit + 1 THEN Top
            ELSE configuration.CallStackDepthLimit + 1
      BY <3>1, MinOfTwo
    <3> QED
      BY <2>1, <3>1, <3>2 DEF CallInv
  <2>6. \A k \in 2 .. Len(depthCalls) : depthCalls[k].inputs = frames[k].inputs
    BY <2>1 DEF CallInv
  <2>7. \A o, p \in Reach : QubitId(o) = QubitId(p) => o = p
    <3>1. WellFounded(frames) /\ InputsAreLent(frames)
      BY <2>1 DEF StackInv
    <3>2. Top \in DOMAIN frames
      BY PeaksAreNumbers DEF Inv
    <3>3. Reach = Reached(frames, Top)
      BY <3>1, ReachIsReached
    <3> QED
      BY <3>1, <3>2, <3>3 DEF InputsAreLent
  <2> QED
    BY <2>2, <2>3, <2>4, <2>5, <2>6, <2>7 DEF TypeOK
<1> QED
  BY <1>1, TracerInvariance, PTL

\* What the width counter says of an open call and its callees is the largest number of
\* qubits in use since the call began, for any nesting, depth limit and order of releases.
THEOREM WidthsCoverCalls == Spec => []WidthCoversNesting
<1>1. Inv => WidthCoversNesting
  <2> SUFFICES ASSUME Inv PROVE WidthCoversNesting
    OBVIOUS
  <2>1. allocatedQubits = Cardinality(DOMAIN held)
    BY DEF Inv, WidthInv
  <2>2. ASSUME NEW k \in DOMAIN widthCalls
        PROVE  frames[k].peak = Max({widthCalls[j].maxAllocated : j \in k .. Len(widthCalls)})
    <3> DEFINE S == {widthCalls[j].maxAllocated : j \in k .. Len(widthCalls)}
               peak == frames[k].peak
    <3>1. /\ \A j \in k .. Len(widthCalls) : widthCalls[j].maxAllocated <= peak
          /\ \E j \in k .. Len(widthCalls) : widthCalls[j].maxAllocated = peak
      BY DEF Inv, WidthInv
    <3>2. /\ k \in Nat /\ k > 0 /\ Len(widthCalls) \in Nat /\ k \in DOMAIN frames
          /\ DOMAIN widthCalls = 1 .. Len(widthCalls)
      BY PeaksAreNumbers DEF Inv
    <3>3. peak \in Nat /\ \A j \in k .. Len(widthCalls) : widthCalls[j].maxAllocated \in Nat
      BY <3>2, PeaksAreNumbers DEF Inv
    <3>4. peak \in S /\ \A y \in S : y \in Nat /\ y <= peak
      BY <3>1, <3>3
    <3> HIDE DEF S, peak
    <3>5. \A x \in S : (\A y \in S : x >= y) => x = peak
      BY <3>3, <3>4
    <3>6. \A y \in S : peak >= y
      BY <3>3, <3>4
    <3>7. Max(S) = CHOOSE x \in S : \A y \in S : x >= y
      BY DEF Max
    <3>8. Max(S) = peak
      BY <3>4, <3>5, <3>6, <3>7
    <3> QED
      BY <3>8 DEF S, peak
  <2> QED
    BY <2>1, <2>2 DEF WidthCoversNesting
<1> QED
  BY <1>1, TracerInvariance, PTL

\* The fact that a constraint is from says something of just the qubits that have it, each with
\* the Pauli of its position.
LEMMA FactMeaning ==
    ASSUME KnownInv, NEW f \in facts, NEW o \in f.on
    PROVE  /\ constraint[o].of = f.of /\ f.of # None
           /\ \A j \in DOMAIN f.of.qubits : f.of.qubits[j] = o => QubitPauli(o) = f.of.observable[j]
           /\ \E j \in DOMAIN f.of.qubits : f.of.qubits[j] = o /\ QubitPauli(o) = f.of.observable[j]
<1>1. IsFact(f) /\ o \in DOMAIN constraint /\ constraint[o].of = f.of
  BY KnownMeaning
<1>2. f.of # None
  BY <1>1, ConstantsAssumption DEF IsFact, FactRecords
<1>3. /\ constraint[o].position \in DOMAIN f.of.qubits /\ f.of.qubits[constraint[o].position] = o
      /\ QubitPauli(o) = f.of.observable[constraint[o].position]
  BY <1>1, <1>2, KnownMeaning DEF QubitPauli
<1>4. \A j \in DOMAIN f.of.qubits : f.of.qubits[j] = o => j = constraint[o].position
  BY <1>1, <1>3 DEF IsFact
<1> QED
  BY <1>1, <1>2, <1>3, <1>4

\* A fact that is about what is measured answers it.
LEMMA FactsAnswer ==
    ASSUME KnownInv, NEW f \in facts, NEW observable, NEW qubits, 1 \in DOMAIN qubits,
           Concerns(f, observable, qubits)
    PROVE  Answers(observable, qubits) = f.of.outcomes
<1>1. \A i \in DOMAIN qubits :
        /\ qubits[i] \in f.on
        /\ \E j \in DOMAIN f.of.qubits : f.of.qubits[j] = qubits[i] /\ f.of.observable[j] = observable[i]
  BY DEF Concerns
<1>2. \A i \in DOMAIN qubits : /\ constraint[qubits[i]].of = f.of /\ f.of # None
                             /\ QubitPauli(qubits[i]) = observable[i]
  BY <1>1, FactMeaning
<1>3. Agree(observable, qubits)
  BY <1>2 DEF Agree
<1> QED
  BY <1>2, <1>3 DEF Answers

\* An answer is from a fact about what is measured.
LEMMA AnswersHaveFacts ==
    ASSUME KnownInv, NEW observable, NEW qubits, 1 \in DOMAIN qubits,
           Range(qubits) \subseteq DOMAIN constraint, Answers(observable, qubits) # None
    PROVE  \E f \in facts : Concerns(f, observable, qubits)
<1>1. \A i \in DOMAIN qubits : /\ qubits[i] \in DOMAIN constraint
                             /\ constraint[qubits[i]].of # None
                             /\ constraint[qubits[i]].of = constraint[qubits[1]].of
                             /\ QubitPauli(qubits[i]) = observable[i]
  BY DEF Answers, Agree, Range
<1>2. PICK f \in facts : qubits[1] \in f.on
  BY <1>1, KnownMeaning
<1>3. ASSUME NEW i \in DOMAIN qubits
      PROVE  /\ qubits[i] \in f.on
             /\ \E j \in DOMAIN f.of.qubits :
                    f.of.qubits[j] = qubits[i] /\ f.of.observable[j] = observable[i]
  <2>1. PICK g \in facts : qubits[i] \in g.on
    BY <1>1, KnownMeaning
  <2>2. g.of = f.of
    BY <1>1, <1>2, <2>1, FactMeaning
  <2>3. g = f
    BY <2>2, KnownMeaning
  <2>4. PICK j \in DOMAIN f.of.qubits :
            f.of.qubits[j] = qubits[i] /\ QubitPauli(qubits[i]) = f.of.observable[j]
    BY <2>1, <2>3, FactMeaning
  <2> QED
    BY <1>1, <2>1, <2>3, <2>4
<1> QED
  BY <1>3 DEF Concerns

\* The measurement of all that an assertion is about is answered from it until a qubit of it
\* is touched, measured, released or asserted about again; and whatever is measured, an
\* answer comes from one assertion that was made of every measured qubit, with the Pauli
\* that is measured, and that no gate, newer assertion or release took from any of them.
THEOREM OutcomesFollow == Spec => []AnswersAreAsserted
<1>1. Inv => AnswersAreAsserted
  <2> SUFFICES ASSUME Inv, NEW o \in Observables
               PROVE  /\ \A f \in facts : Concerns(f, o[2], o[1]) => Answers(o[2], o[1]) = f.of.outcomes
                      /\ Answers(o[2], o[1]) # None => \E f \in facts : Concerns(f, o[2], o[1])
    BY DEF AnswersAreAsserted
  <2>1. KnownInv
    BY DEF Inv
  <2>2. 1 \in DOMAIN o[1] /\ Range(o[1]) \subseteq Reach
    BY ObservableMeaning DEF Inv
  <2>3. Reach \subseteq DOMAIN constraint
    BY <2>1, ReachIsLive, KnownMeaning DEF Inv
  <2>4. ASSUME NEW f \in facts, Concerns(f, o[2], o[1])
        PROVE  Answers(o[2], o[1]) = f.of.outcomes
    BY <2>1, <2>2, <2>4, FactsAnswer
  <2>5. ASSUME Answers(o[2], o[1]) # None
        PROVE  \E f \in facts : Concerns(f, o[2], o[1])
    BY <2>1, <2>2, <2>3, <2>5, AnswersHaveFacts
  <2> QED
    BY <2>4, <2>5
<1> QED
  BY <1>1, TracerInvariance, PTL

-----------------------------------------------------------------------------
(* The lanes.                                                               *)

BusyRecords == [object : QubitObjects, start : Starts, end : Times]

\* s lists the ids that the function at has at t, every one once.
Lists(s, at, t) ==
    /\ s \in Seq(DOMAIN at) /\ Len(s) > 0
    /\ \A i, j \in DOMAIN s : s[i] = s[j] => i = j
    /\ \A id \in DOMAIN at : at[id] = t <=> \E i \in DOMAIN s : s[i] = id

\* The pool has the ids of the function at, every one once and at its time.
PoolOf(pool, at) ==
    /\ DOMAIN pool = {at[id] : id \in DOMAIN at}
    /\ \A t \in DOMAIN pool : Lists(pool[t], at, t)

\* s2 is s with x as its second element.
LEMMA InsertSecond ==
    ASSUME NEW S, NEW s \in Seq(S), Len(s) > 0, NEW x
    PROVE  LET s2 == <<Head(s), x>> \o Tail(s) IN
           /\ s2 \in Seq(S \cup {x}) /\ Len(s2) = Len(s) + 1
           /\ s2[1] = s[1] /\ s2[2] = x
           /\ \A i \in 3 .. Len(s) + 1 : s2[i] = s[i - 1]
<1> DEFINE t == Tail(s)
           u == <<Head(s), x>>
<1>1. t \in Seq(S) /\ Len(t) = Len(s) - 1 /\ \A i \in 1 .. Len(t) : t[i] = s[i + 1]
  OBVIOUS
<1>2. u \in Seq(S \cup {x}) /\ Len(u) = 2 /\ u[1] = s[1] /\ u[2] = x
  OBVIOUS
<1> HIDE DEF t, u
<1>3. t \in Seq(S \cup {x})
  BY <1>1
<1>4. /\ u \o t \in Seq(S \cup {x}) /\ Len(u \o t) = Len(u) + Len(t)
      /\ \A i \in 1 .. Len(u) + Len(t) : (u \o t)[i] = IF i <= Len(u) THEN u[i] ELSE t[i - Len(u)]
  BY <1>2, <1>3, ConcatProperties
<1>5. \A i \in 3 .. Len(s) + 1 : (u \o t)[i] = s[i - 1]
  <2> TAKE i \in 3 .. Len(s) + 1
  <2>1. i \in 1 .. Len(u) + Len(t) /\ ~ i <= Len(u) /\ i - 2 \in 1 .. Len(t)
    BY <1>1, <1>2
  <2>2. (u \o t)[i] = t[i - 2]
    BY <1>2, <1>4, <2>1
  <2>3. t[i - 2] = s[(i - 2) + 1]
    BY <1>1, <2>1
  <2> QED
    BY <2>2, <2>3
<1>6. (u \o t)[1] = s[1] /\ (u \o t)[2] = x /\ Len(u \o t) = Len(s) + 1
  BY <1>1, <1>2, <1>4
<1> QED
  BY <1>4, <1>5, <1>6 DEF t, u

\* s2 is s without its second element.
LEMMA RemoveSecond ==
    ASSUME NEW S, NEW s \in Seq(S), Len(s) > 1
    PROVE  LET s2 == <<Head(s)>> \o SubSeq(s, 3, Len(s)) IN
           /\ s2 \in Seq(S) /\ Len(s2) = Len(s) - 1
           /\ s2[1] = s[1]
           /\ \A i \in 2 .. Len(s) - 1 : s2[i] = s[i + 1]
<1> DEFINE t == SubSeq(s, 3, Len(s))
           u == <<Head(s)>>
<1>1. t \in Seq(S) /\ Len(t) = Len(s) - 2 /\ \A i \in 1 .. Len(t) : t[i] = s[i + 2]
  <2>1. Len(s) \in Nat /\ \A i \in 3 .. Len(s) : s[i] \in S
    OBVIOUS
  <2>2. /\ t \in Seq(S) /\ Len(t) = IF 3 <= Len(s) THEN Len(s) - 3 + 1 ELSE 0
        /\ \A i \in 1 .. Len(s) - 3 + 1 : t[i] = s[3 + i - 1]
    BY <2>1, SubSeqProperties
  <2> HIDE DEF t
  <2>3. Len(t) = Len(s) - 2
    <3>1. PICK n \in Nat : n = Len(s)
      BY <2>1
    <3>2. Len(t) = IF 3 <= n THEN n - 3 + 1 ELSE 0
      BY <2>2, <3>1
    <3>3. n > 1
      BY <3>1
    <3>4. Len(t) = n - 2
      BY <3>2, <3>3
    <3> QED
      BY <3>1, <3>4
  <2>4. \A i \in 1 .. Len(s) - 2 : t[i] = s[i + 2]
    <3> TAKE i \in 1 .. Len(s) - 2
    <3>1. i \in 1 .. Len(s) - 3 + 1 /\ 3 + i - 1 = i + 2
      BY <2>1
    <3> QED
      BY <2>2, <3>1
  <2> QED
    BY <2>2, <2>3, <2>4
<1>2. u \in Seq(S) /\ Len(u) = 1 /\ u[1] = s[1]
  OBVIOUS
<1> HIDE DEF t, u
<1>3. /\ u \o t \in Seq(S) /\ Len(u \o t) = Len(u) + Len(t)
      /\ \A i \in 1 .. Len(u) + Len(t) : (u \o t)[i] = IF i <= Len(u) THEN u[i] ELSE t[i - Len(u)]
  BY <1>1, <1>2, ConcatProperties
<1>4. \A i \in 2 .. Len(s) - 1 : (u \o t)[i] = s[i + 1]
  <2> TAKE i \in 2 .. Len(s) - 1
  <2>1. i \in 1 .. Len(u) + Len(t) /\ ~ i <= Len(u) /\ i - 1 \in 1 .. Len(t)
    BY <1>1, <1>2
  <2>2. (u \o t)[i] = t[i - 1]
    BY <1>2, <1>3, <2>1
  <2>3. t[i - 1] = s[(i - 1) + 2]
    BY <1>1, <2>1
  <2> QED
    BY <2>2, <2>3
<1>5. (u \o t)[1] = s[1] /\ Len(u \o t) = Len(s) - 1
  BY <1>1, <1>2, <1>3
<1> QED
  BY <1>3, <1>4, <1>5 DEF t, u

\* What a list becomes when it gets an id that has its time.
LEMMA ListGrows ==
    ASSUME NEW s, NEW at, NEW t, Lists(s, at, t), NEW id, id \notin DOMAIN at,
           NEW at2, DOMAIN at2 = DOMAIN at \cup {id}, at2[id] = t,
           \A x \in DOMAIN at : at2[x] = at[x]
    PROVE  Lists(<<Head(s), id>> \o Tail(s), at2, t)
<1> DEFINE s2 == <<Head(s), id>> \o Tail(s)
<1>1. s \in Seq(DOMAIN at) /\ Len(s) > 0 /\ Len(s) \in Nat /\ DOMAIN s = 1 .. Len(s)
  BY DEF Lists
<1>2. /\ s2 \in Seq(DOMAIN at2) /\ Len(s2) = Len(s) + 1
      /\ s2[1] = s[1] /\ s2[2] = id
      /\ \A i \in 3 .. Len(s) + 1 : s2[i] = s[i - 1]
  BY <1>1, InsertSecond
<1> HIDE DEF s2
<1>3. DOMAIN s2 = 1 .. Len(s) + 1
  BY <1>2
<1>4. \A i \in 1 .. Len(s) : s[i] \in DOMAIN at
  BY <1>1
\* Where the elements of s2 come from.
<1> DEFINE from(i) == IF i = 1 THEN 1 ELSE i - 1
<1>5. \A i \in DOMAIN s2 : i # 2 => from(i) \in 1 .. Len(s) /\ s2[i] = s[from(i)]
  BY <1>1, <1>2, <1>3
<1>6. \A i, j \in DOMAIN s2 : i # 2 /\ j # 2 /\ from(i) = from(j) => i = j
  BY <1>3
<1> HIDE DEF from
<1>7. \A i, j \in DOMAIN s2 : s2[i] = s2[j] => i = j
  <2> SUFFICES ASSUME NEW i \in DOMAIN s2, NEW j \in DOMAIN s2, s2[i] = s2[j]
               PROVE  i = j
    OBVIOUS
  <2>1. CASE i # 2 /\ j # 2
    <3>1. from(i) = from(j)
      BY <1>1, <1>5, <2>1 DEF Lists
    <3> QED
      BY <1>6, <2>1, <3>1
  <2>2. CASE i = 2 /\ j # 2
    BY <1>2, <1>4, <1>5, <2>2
  <2>3. CASE i # 2 /\ j = 2
    BY <1>2, <1>4, <1>5, <2>3
  <2> QED
    BY <2>1, <2>2, <2>3
<1>8. ASSUME NEW x \in DOMAIN at2
      PROVE  at2[x] = t <=> \E i \in DOMAIN s2 : s2[i] = x
  <2>1. 2 \in DOMAIN s2
    BY <1>1, <1>3
  <2>2. CASE x = id
    BY <1>2, <2>1, <2>2
  <2>3. CASE x # id
    <3>1. x \in DOMAIN at /\ at2[x] = at[x]
      BY <2>3
    <3>2. at[x] = t <=> \E i \in DOMAIN s : s[i] = x
      BY <3>1 DEF Lists
    <3>3. ASSUME NEW i \in DOMAIN s, s[i] = x
          PROVE  \E j \in DOMAIN s2 : s2[j] = x
      <4>1. CASE i = 1
        <5>1. 1 \in DOMAIN s2 /\ s2[1] = x
          BY <1>2, <1>3, <3>3, <4>1, <1>1
        <5> QED
          BY <5>1
      <4>2. CASE i # 1
        <5>1. i + 1 \in 3 .. Len(s) + 1 /\ i + 1 \in DOMAIN s2 /\ (i + 1) - 1 = i
          BY <1>1, <1>3, <4>2
        <5>2. s2[i + 1] = x
          BY <1>2, <3>3, <5>1
        <5> QED
          BY <5>1, <5>2
      <4> QED
        BY <4>1, <4>2
    <3>4. ASSUME NEW j \in DOMAIN s2, s2[j] = x
          PROVE  \E i \in DOMAIN s : s[i] = x
      <4>1. j # 2
        BY <1>2, <2>3, <3>4
      <4> QED
        BY <1>1, <1>5, <3>4, <4>1
    <3> QED
      BY <3>1, <3>2, <3>3, <3>4
  <2> QED
    BY <2>2, <2>3
<1>9. Lists(s2, at2, t)
  BY <1>1, <1>2, <1>7, <1>8 DEF Lists
<1> QED
  BY <1>9 DEF s2

\* What a list becomes when its second id is taken.
LEMMA ListShrinks ==
    ASSUME NEW s, NEW at, NEW t, Lists(s, at, t), Len(s) > 1,
           NEW at2, DOMAIN at2 = DOMAIN at \ {s[2]}, \A x \in DOMAIN at2 : at2[x] = at[x]
    PROVE  Lists(<<Head(s)>> \o SubSeq(s, 3, Len(s)), at2, t)
<1> DEFINE s2 == <<Head(s)>> \o SubSeq(s, 3, Len(s))
<1>1. s \in Seq(DOMAIN at) /\ Len(s) > 1 /\ Len(s) \in Nat /\ DOMAIN s = 1 .. Len(s)
  <2>1. s \in Seq(DOMAIN at) /\ Len(s) > 0
    BY DEF Lists
  <2> HIDE DEF s2
  <2> QED
    BY <2>1
<1>2. /\ s2 \in Seq(DOMAIN at) /\ Len(s2) = Len(s) - 1
      /\ s2[1] = s[1]
      /\ \A i \in 2 .. Len(s) - 1 : s2[i] = s[i + 1]
  BY <1>1, RemoveSecond
<1> HIDE DEF s2
<1>3. DOMAIN s2 = 1 .. Len(s) - 1 /\ s2 \in [1 .. Len(s) - 1 -> DOMAIN at]
  BY <1>2
<1> DEFINE from(i) == IF i = 1 THEN 1 ELSE i + 1
<1>4. \A i \in DOMAIN s2 : from(i) \in 1 .. Len(s) /\ s2[i] = s[from(i)] /\ from(i) # 2
  BY <1>1, <1>2, <1>3
<1>5. \A i, j \in DOMAIN s2 : from(i) = from(j) => i = j
  BY <1>3
<1> HIDE DEF from
<1>6. \A i, j \in DOMAIN s : s[i] = s[j] => i = j
  BY DEF Lists
<1>7. \A i, j \in DOMAIN s2 : s2[i] = s2[j] => i = j
  BY <1>1, <1>4, <1>5, <1>6
<1>8. \A i \in DOMAIN s2 : s2[i] \in DOMAIN at2
  <2> TAKE i \in DOMAIN s2
  <2>1. s[from(i)] # s[2]
    BY <1>1, <1>4, <1>6
  <2> QED
    BY <1>3, <1>4, <2>1
<1>9. s2 \in Seq(DOMAIN at2)
  <2>1. s2 \in [1 .. Len(s) - 1 -> DOMAIN at2]
    BY <1>3, <1>8
  <2> QED
    BY <1>1, <2>1
<1>10. ASSUME NEW x \in DOMAIN at2
       PROVE  at2[x] = t <=> \E i \in DOMAIN s2 : s2[i] = x
  <2>1. x \in DOMAIN at /\ x # s[2] /\ at2[x] = at[x]
    OBVIOUS
  <2>2. at[x] = t <=> \E i \in DOMAIN s : s[i] = x
    BY <2>1 DEF Lists
  <2>3. ASSUME NEW i \in DOMAIN s, s[i] = x
        PROVE  \E j \in DOMAIN s2 : s2[j] = x
    <3>1. i # 2
      BY <2>1, <2>3
    <3>2. CASE i = 1
      <4>1. 1 \in DOMAIN s2 /\ s2[1] = x
        BY <1>1, <1>2, <1>3, <2>3, <3>2
      <4> QED
        BY <4>1
    <3>3. CASE i # 1
      <4>1. i - 1 \in 2 .. Len(s) - 1 /\ i - 1 \in DOMAIN s2 /\ (i - 1) + 1 = i
        BY <1>1, <1>3, <3>1, <3>3
      <4>2. s2[i - 1] = x
        BY <1>2, <2>3, <4>1
      <4> QED
        BY <4>1, <4>2
    <3> QED
      BY <3>2, <3>3
  <2>4. ASSUME NEW j \in DOMAIN s2, s2[j] = x
        PROVE  \E i \in DOMAIN s : s[i] = x
    BY <1>1, <1>4, <2>4
  <2> QED
    BY <2>1, <2>2, <2>3, <2>4
<1>11. Lists(s2, at2, t)
  BY <1>1, <1>2, <1>7, <1>9, <1>10 DEF Lists
<1> QED
  BY <1>11 DEF s2

\* An id and its time are added.
LEMMA PoolAdd ==
    ASSUME NEW pool, NEW at, PoolOf(pool, at), NEW id, id \notin DOMAIN at, NEW t,
           NEW at2, DOMAIN at2 = DOMAIN at \cup {id}, at2[id] = t,
           \A x \in DOMAIN at : at2[x] = at[x]
    PROVE  PoolOf(Add(pool, id, t), at2)
<1> DEFINE pool2 == Add(pool, id, t)
           list == <<Head(pool[t]), id>> \o Tail(pool[t])
<1>1. DOMAIN pool = {at[x] : x \in DOMAIN at} /\ \A u \in DOMAIN pool : Lists(pool[u], at, u)
  BY DEF PoolOf
<1>2. {at2[x] : x \in DOMAIN at2} = DOMAIN pool \cup {t}
  BY <1>1
<1>3. ASSUME NEW u \in DOMAIN pool, u # t
      PROVE  Lists(pool[u], at2, u)
  <2>1. Lists(pool[u], at, u)
    BY <1>1
  <2> DEFINE s == pool[u]
  <2>2. s \in Seq(DOMAIN at) /\ DOMAIN at \subseteq DOMAIN at2
    BY <2>1 DEF Lists
  <2> HIDE DEF s
  <2>3. s \in Seq(DOMAIN at2)
    BY <2>2
  <2>4. \A i \in DOMAIN s : s[i] \in DOMAIN at
    BY <2>2
  <2>5. \A x \in DOMAIN at2 : at2[x] = u <=> \E i \in DOMAIN s : s[i] = x
    <3> TAKE x \in DOMAIN at2
    <3>1. CASE x = id
      BY <1>3, <2>4, <3>1
    <3>2. CASE x # id
      BY <2>1, <3>2 DEF Lists, s
    <3> QED
      BY <3>1, <3>2
  <2> QED
    BY <2>1, <2>3, <2>5 DEF Lists, s
<1>4. CASE t \in DOMAIN pool
  <2>1. pool2 = [pool EXCEPT ![t] = list]
    BY <1>4 DEF Add
  <2>2. Lists(pool[t], at, t)
    BY <1>1, <1>4
  <2>3. Lists(list, at2, t)
    BY <2>2, ListGrows
  <2> HIDE DEF pool2, list
  <2>4. /\ DOMAIN pool2 = DOMAIN pool \cup {t}
        /\ \A u \in DOMAIN pool2 : pool2[u] = IF u = t THEN list ELSE pool[u]
    BY <1>4, <2>1
  <2>5. \A u \in DOMAIN pool2 : Lists(pool2[u], at2, u)
    BY <1>3, <1>4, <2>3, <2>4
  <2>6. PoolOf(pool2, at2)
    BY <1>2, <2>4, <2>5 DEF PoolOf
  <2> QED
    BY <2>6 DEF pool2
<1>5. CASE t \notin DOMAIN pool
  <2>1. pool2 = [s \in DOMAIN pool \cup {t} |-> IF s = t THEN <<id>> ELSE pool[s]]
    BY <1>5 DEF Add
  <2>2. Lists(<<id>>, at2, t)
    <3> DEFINE s == <<id>>
    <3>1. s \in Seq(DOMAIN at2) /\ DOMAIN s = 1 .. 1 /\ s[1] = id /\ Len(s) > 0
      OBVIOUS
    <3> HIDE DEF s
    <3>2. \A i, j \in DOMAIN s : s[i] = s[j] => i = j
      BY <3>1
    <3>3. \A x \in DOMAIN at2 : at2[x] = t <=> \E i \in DOMAIN s : s[i] = x
      <4> TAKE x \in DOMAIN at2
      <4>1. (\E i \in DOMAIN s : s[i] = x) <=> x = id
        BY <3>1
      <4>2. x # id => at2[x] # t
        BY <1>1, <1>5
      <4> QED
        BY <4>1, <4>2
    <3> QED
      BY <3>1, <3>2, <3>3 DEF Lists, s
  <2> HIDE DEF pool2
  <2>4. /\ DOMAIN pool2 = DOMAIN pool \cup {t}
        /\ \A u \in DOMAIN pool2 : pool2[u] = IF u = t THEN <<id>> ELSE pool[u]
    BY <2>1
  <2>5. \A u \in DOMAIN pool2 : Lists(pool2[u], at2, u)
    BY <1>3, <2>2, <2>4
  <2>6. PoolOf(pool2, at2)
    BY <1>2, <2>4, <2>5 DEF PoolOf
  <2> QED
    BY <2>6 DEF pool2
<1> QED
  BY <1>4, <1>5

\* The id that is removed at a time has that time, and the rest is the pool without it.
LEMMA PoolTake ==
    ASSUME NEW pool, NEW at, PoolOf(pool, at), NEW t \in DOMAIN pool,
           NEW id, id = Removed(pool, t),
           NEW at2, DOMAIN at2 = DOMAIN at \ {id}, \A x \in DOMAIN at2 : at2[x] = at[x]
    PROVE  id \in DOMAIN at /\ at[id] = t /\ PoolOf(Remaining(pool, t), at2)
<1> DEFINE s == pool[t]
           pool2 == Remaining(pool, t)
           list == <<Head(s)>> \o SubSeq(s, 3, Len(s))
<1>1. DOMAIN pool = {at[x] : x \in DOMAIN at} /\ \A u \in DOMAIN pool : Lists(pool[u], at, u)
  BY DEF PoolOf
<1>2. Lists(s, at, t)
  BY <1>1
<1>3. PICK n : n = Len(s)
  OBVIOUS
<1>4. id = IF n = 1 THEN s[1] ELSE s[2]
  BY <1>3, Zenon DEF Removed
<1>5. /\ n = 1 => pool2 = [u \in DOMAIN pool \ {t} |-> pool[u]]
      /\ n # 1 => pool2 = [pool EXCEPT ![t] = list]
  <2>1. pool2 = IF n = 1 THEN [u \in DOMAIN pool \ {t} |-> pool[u]] ELSE [pool EXCEPT ![t] = list]
    BY <1>3, Zenon DEF Remaining
  <2> HIDE DEF pool2, list, s
  <2> QED
    BY <2>1
<1> HIDE DEF list, pool2
<1>6. /\ s \in Seq(DOMAIN at) /\ n \in Nat /\ n > 0 /\ DOMAIN s = 1 .. n
      /\ \A i, j \in DOMAIN s : s[i] = s[j] => i = j
      /\ \A x \in DOMAIN at : at[x] = t <=> \E i \in DOMAIN s : s[i] = x
  <2> HIDE DEF s
  <2>1. s \in Seq(DOMAIN at) /\ Len(s) > 0
    BY <1>2 DEF Lists
  <2> QED
    BY <1>2, <1>3, <2>1 DEF Lists
<1> HIDE DEF s
<1>7. id \in DOMAIN at /\ at[id] = t
  <2>1. PICK i \in DOMAIN s : id = s[i]
    BY <1>4, <1>6
  <2>2. id \in DOMAIN at
    BY <1>6, <2>1
  <2> QED
    BY <1>6, <2>1, <2>2
<1>8. ASSUME NEW u \in DOMAIN pool, u # t
      PROVE  Lists(pool[u], at2, u)
  <2> DEFINE r == pool[u]
  <2>1. Lists(r, at, u)
    BY <1>1
  <2> HIDE DEF r
  <2>2. r \in Seq(DOMAIN at) /\ DOMAIN r = 1 .. Len(r) /\ Len(r) \in Nat
    BY <2>1 DEF Lists
  <2>3. \A i \in DOMAIN r : r[i] \in DOMAIN at2
    <3> TAKE i \in DOMAIN r
    <3>1. r[i] \in DOMAIN at
      BY <2>2
    <3>2. at[r[i]] = u
      BY <2>1, <3>1 DEF Lists
    <3> QED
      BY <1>7, <1>8, <3>1, <3>2
  <2>4. r \in Seq(DOMAIN at2)
    <3>1. r \in [1 .. Len(r) -> DOMAIN at2]
      BY <2>2, <2>3
    <3> QED
      BY <2>2, <3>1
  <2>5. \A x \in DOMAIN at2 : at2[x] = u <=> \E i \in DOMAIN r : r[i] = x
    BY <2>1 DEF Lists
  <2> QED
    BY <2>1, <2>4, <2>5 DEF Lists, r
<1>9. CASE n = 1
  <2>1. \A x \in DOMAIN at : at[x] = t => x = id
    <3>1. \A i \in DOMAIN s : i = 1
      BY <1>6, <1>9
    <3> QED
      BY <1>4, <1>6, <1>9, <3>1
  <2>2. pool2 = [u \in DOMAIN pool \ {t} |-> pool[u]]
    BY <1>5, <1>9
  <2>3. {at2[x] : x \in DOMAIN at2} = DOMAIN pool \ {t}
    BY <1>1, <1>7, <2>1
  <2>4. PoolOf(pool2, at2)
    BY <1>8, <2>2, <2>3 DEF PoolOf
  <2> QED
    BY <1>7, <2>4 DEF pool2
<1>10. CASE n # 1
  <2>1. pool2 = [pool EXCEPT ![t] = list]
    BY <1>5, <1>10
  <2>2. id = s[2] /\ n > 1
    BY <1>4, <1>6, <1>10
  <2>3. Lists(list, at2, t)
    <3>1. Len(s) > 1
      BY <1>3, <2>2
    <3>2. Lists(s, at, t)
      BY <1>2 DEF s
    <3> QED
      BY <2>2, <3>1, <3>2, ListShrinks DEF list
  <2>4. DOMAIN pool2 = DOMAIN pool
    BY <2>1
  <2>5. {at2[x] : x \in DOMAIN at2} = DOMAIN pool
    <3>1. s[1] \in DOMAIN at /\ at[s[1]] = t /\ s[1] # id
      BY <1>6, <2>2
    <3>2. s[1] \in DOMAIN at2 /\ at2[s[1]] = t
      BY <3>1
    <3> QED
      BY <1>1, <1>7, <3>2
  <2>6. \A u \in DOMAIN pool2 : Lists(pool2[u], at2, u)
    BY <1>8, <2>1, <2>3, <2>4
  <2>7. PoolOf(pool2, at2)
    BY <2>4, <2>5, <2>6 DEF PoolOf
  <2> QED
    BY <1>7, <2>7 DEF pool2
<1> QED
  BY <1>9, <1>10

\* The id that is found at one time is moved to another.
LEMMA PoolMove ==
    ASSUME NEW pool, NEW at, PoolOf(pool, at), NEW from \in DOMAIN pool, NEW to,
           NEW id, id = Removed(pool, from),
           NEW at2, DOMAIN at2 = DOMAIN at, at2[id] = to,
           \A x \in DOMAIN at \ {id} : at2[x] = at[x]
    PROVE  PoolOf(Moved(pool, from, to), at2)
<1> DEFINE rest == [x \in DOMAIN at \ {id} |-> at[x]]
           pool2 == Remaining(pool, from)
<1>1. DOMAIN rest = DOMAIN at \ {id} /\ \A x \in DOMAIN rest : rest[x] = at[x]
  OBVIOUS
<1> HIDE DEF rest, pool2
<1>2. id \in DOMAIN at /\ PoolOf(pool2, rest)
  BY <1>1, PoolTake DEF pool2
<1>3. DOMAIN at2 = DOMAIN rest \cup {id} /\ \A x \in DOMAIN rest : at2[x] = rest[x]
  BY <1>1, <1>2
<1>4. PoolOf(Add(pool2, id, to), at2)
  BY <1>1, <1>2, <1>3, PoolAdd
<1> QED
  BY <1>4 DEF Moved, pool2

\* A lane has busy times, one after the other.
IsLane(lane) ==
    /\ lane \in Seq(BusyRecords) /\ Len(lane) > 0
    /\ \A i \in 1 .. Len(lane) - 1 : AtMost(lane[i].end, lane[i + 1].start)

LaneStarts(all) == [l \in DOMAIN all |-> all[l][1].start]
LaneEnds(all) == [l \in DOMAIN all |-> Last(all[l]).end]

\* The pools have every lane once, at the start of its first and the end of its last qubit.
LayoutInv(lay) ==
    /\ lay = [starts |-> lay.starts, ends |-> lay.ends, maxQubitId |-> lay.maxQubitId, lanes |-> lay.lanes]
    /\ lay.maxQubitId \in Int /\ lay.maxQubitId >= -1
    /\ DOMAIN lay.lanes = -1 .. lay.maxQubitId - 1
    /\ \A l \in DOMAIN lay.lanes : IsLane(lay.lanes[l])
    /\ PoolOf(lay.starts, LaneStarts(lay.lanes))
    /\ PoolOf(lay.ends, LaneEnds(lay.lanes))

LaneInv == IF OptimizeDepth THEN LayoutInv(Layout)
           ELSE lanes = << >> /\ startTimes = << >> /\ endTimes = << >>

\* A lane of one qubit.
LEMMA LaneOfOne ==
    ASSUME NEW q \in BusyRecords
    PROVE  IsLane(<<q>>) /\ <<q>>[1] = q /\ Last(<<q>>) = q
<1> DEFINE s == <<q>>
<1>1. s \in Seq(BusyRecords) /\ Len(s) = 1 /\ s[1] = q
  OBVIOUS
<1> HIDE DEF s
<1>2. IsLane(s) /\ s[1] = q /\ Last(s) = q
  BY <1>1 DEF IsLane, Last
<1> QED
  BY <1>2 DEF s

\* A lane with a qubit after the others.
LEMMA LaneAfter ==
    ASSUME NEW lane, IsLane(lane), NEW q \in BusyRecords, AtMost(Last(lane).end, q.start)
    PROVE  IsLane(Append(lane, q)) /\ Append(lane, q)[1] = lane[1] /\ Last(Append(lane, q)) = q
<1> DEFINE s == Append(lane, q)
<1>1. PICK n \in Nat : n = Len(lane)
  BY DEF IsLane
<1>2. /\ lane \in Seq(BusyRecords) /\ n > 0
      /\ \A i \in 1 .. n - 1 : AtMost(lane[i].end, lane[i + 1].start)
      /\ Last(lane) = lane[n]
  BY <1>1 DEF IsLane, Last
<1>3. s \in Seq(BusyRecords) /\ Len(s) = n + 1 /\ s[n + 1] = q /\ \A i \in 1 .. n : s[i] = lane[i]
  BY <1>1, <1>2
<1> HIDE DEF s
<1>4. \A i \in 1 .. (n + 1) - 1 : AtMost(s[i].end, s[i + 1].start)
  <2> TAKE i \in 1 .. (n + 1) - 1
  <2>1. CASE i = n
    BY <1>2, <1>3, <2>1
  <2>2. CASE i # n
    <3>1. i \in 1 .. n - 1 /\ i + 1 \in 1 .. n /\ i \in 1 .. n
      BY <2>2
    <3> QED
      BY <1>2, <1>3, <3>1
  <2> QED
    BY <2>1, <2>2
<1>5. s[1] = lane[1] /\ Last(s) = q
  BY <1>2, <1>3 DEF Last
<1>6. IsLane(s)
  BY <1>3, <1>4 DEF IsLane
<1> QED
  BY <1>5, <1>6 DEF s

\* A lane with a qubit before the others.
LEMMA LaneBefore ==
    ASSUME NEW lane, IsLane(lane), NEW q \in BusyRecords, AtMost(q.end, lane[1].start)
    PROVE  IsLane(<<q>> \o lane) /\ (<<q>> \o lane)[1] = q /\ Last(<<q>> \o lane) = Last(lane)
<1> DEFINE s == <<q>> \o lane
           u == <<q>>
<1>1. PICK n \in Nat : n = Len(lane)
  BY DEF IsLane
<1>2. /\ lane \in Seq(BusyRecords) /\ n > 0
      /\ \A i \in 1 .. n - 1 : AtMost(lane[i].end, lane[i + 1].start)
      /\ Last(lane) = lane[n]
  BY <1>1 DEF IsLane, Last
<1>3. u \in Seq(BusyRecords) /\ Len(u) = 1 /\ u[1] = q
  OBVIOUS
<1>4. s \in Seq(BusyRecords) /\ Len(s) = n + 1 /\ s[1] = q /\ \A i \in 2 .. n + 1 : s[i] = lane[i - 1]
  <2>1. s = u \o lane
    OBVIOUS
  <2> HIDE DEF u, s
  <2>2. /\ s \in Seq(BusyRecords) /\ Len(s) = Len(u) + Len(lane)
        /\ \A i \in 1 .. Len(u) + Len(lane) : s[i] = IF i <= Len(u) THEN u[i] ELSE lane[i - Len(u)]
    BY <1>2, <1>3, <2>1, ConcatProperties
  <2>3. \A i \in 1 .. 1 + n : s[i] = IF i <= 1 THEN u[i] ELSE lane[i - 1]
    BY <1>1, <1>3, <2>2
  <2> QED
    BY <1>1, <1>3, <2>2, <2>3
<1> HIDE DEF s
<1>5. \A i \in 1 .. (n + 1) - 1 : AtMost(s[i].end, s[i + 1].start)
  <2> TAKE i \in 1 .. (n + 1) - 1
  <2>1. CASE i = 1
    <3>1. s[i] = q /\ s[i + 1] = lane[1]
      BY <1>2, <1>4, <2>1
    <3> QED
      BY <3>1
  <2>2. CASE i # 1
    <3>1. i - 1 \in 1 .. n - 1 /\ i \in 2 .. n + 1 /\ i + 1 \in 2 .. n + 1 /\ (i - 1) + 1 = i /\ (i + 1) - 1 = i
      BY <2>2
    <3>2. s[i] = lane[i - 1] /\ s[i + 1] = lane[i]
      BY <1>4, <3>1
    <3>3. AtMost(lane[i - 1].end, lane[(i - 1) + 1].start)
      BY <1>2, <3>1
    <3> QED
      BY <3>1, <3>2, <3>3
  <2> QED
    BY <2>1, <2>2
<1>6. Last(s) = Last(lane)
  <2>1. n + 1 \in 2 .. n + 1 /\ (n + 1) - 1 = n
    BY <1>2
  <2> QED
    BY <1>2, <1>4, <2>1 DEF Last
<1>7. IsLane(s)
  BY <1>4, <1>5 DEF IsLane
<1> QED
  BY <1>4, <1>6, <1>7 DEF s

\* The layout of the records' fields.
LEMMA LayoutFrom ==
    ASSUME NEW lay, NEW starts, NEW ends, NEW max, NEW all,
           lay = [starts |-> starts, ends |-> ends, maxQubitId |-> max, lanes |-> all],
           max \in Int, max >= -1, DOMAIN all = -1 .. max - 1,
           \A l \in DOMAIN all : IsLane(all[l]),
           PoolOf(starts, LaneStarts(all)), PoolOf(ends, LaneEnds(all))
    PROVE  LayoutInv(lay)
<1>1. lay.starts = starts /\ lay.ends = ends /\ lay.maxQubitId = max /\ lay.lanes = all
  OBVIOUS
<1> QED
  BY <1>1 DEF LayoutInv

LEMMA AfterMeaning ==
    ASSUME NEW lay, LayoutInv(lay), NEW q \in BusyRecords,
           NEW e \in DOMAIN lay.ends, AtMost(e, q.start)
    PROVE  LayoutInv(AfterExisting(lay, q, e))
<1> DEFINE all == lay.lanes
           id == Removed(lay.ends, e)
           lane == Append(all[id], q)
           all2 == [all EXCEPT ![id] = lane]
           ends2 == Moved(lay.ends, e, q.end)
           lay2 == AfterExisting(lay, q, e)
<1>1. /\ lay = [starts |-> lay.starts, ends |-> lay.ends, maxQubitId |-> lay.maxQubitId, lanes |-> all]
      /\ lay.maxQubitId \in Int /\ lay.maxQubitId >= -1
      /\ DOMAIN all = -1 .. lay.maxQubitId - 1
      /\ \A l \in DOMAIN all : IsLane(all[l])
      /\ PoolOf(lay.starts, LaneStarts(all)) /\ PoolOf(lay.ends, LaneEnds(all))
  BY DEF LayoutInv
<1>2. lay2 = [starts |-> lay.starts, ends |-> ends2, maxQubitId |-> lay.maxQubitId, lanes |-> all2]
  <2> DEFINE s == lay.starts
             m == lay.maxQubitId
             E == lay.ends
  <2>1. lay = [starts |-> s, ends |-> E, maxQubitId |-> m, lanes |-> all]
    BY <1>1
  <2>2. lay2 = [lay EXCEPT !.ends = ends2, !.lanes = all2]
    BY <2>1 DEF AfterExisting
  <2> HIDE DEF s, m, E, all, ends2, all2, lay2
  <2> QED
    BY <2>1, <2>2
<1> HIDE DEF lay2
<1>3. id \in DOMAIN all /\ Last(all[id]).end = e
  <2> DEFINE at == LaneEnds(all)
             rest == [x \in DOMAIN at \ {id} |-> at[x]]
  <2>1. DOMAIN rest = DOMAIN at \ {id} /\ \A x \in DOMAIN rest : rest[x] = at[x]
    OBVIOUS
  <2>2. PoolOf(lay.ends, at)
    BY <1>1
  <2> HIDE DEF rest, at
  <2>3. id \in DOMAIN at /\ at[id] = e
    BY <2>1, <2>2, PoolTake
  <2> QED
    BY <2>3 DEF at, LaneEnds
<1>4. IsLane(lane) /\ lane[1] = all[id][1] /\ Last(lane) = q
  BY <1>1, <1>3, LaneAfter
<1> HIDE DEF lane
<1>5. DOMAIN all2 = DOMAIN all /\ \A l \in DOMAIN all : all2[l] = IF l = id THEN lane ELSE all[l]
  BY <1>3
<1> HIDE DEF all2
<1>6. \A l \in DOMAIN all2 : IsLane(all2[l])
  BY <1>1, <1>4, <1>5
<1>7. LaneStarts(all2) = LaneStarts(all)
  <2>1. \A l \in DOMAIN all : all2[l][1].start = all[l][1].start
    BY <1>4, <1>5
  <2> QED
    BY <1>5, <2>1 DEF LaneStarts
<1>8. PoolOf(ends2, LaneEnds(all2))
  <2> DEFINE at == LaneEnds(all)
             at2 == LaneEnds(all2)
  <2>1. /\ DOMAIN at2 = DOMAIN at /\ at2[id] = q.end
        /\ \A x \in DOMAIN at \ {id} : at2[x] = at[x]
    BY <1>3, <1>4, <1>5 DEF LaneEnds
  <2>2. PoolOf(lay.ends, at)
    BY <1>1
  <2> HIDE DEF at, at2
  <2>3. PoolOf(Moved(lay.ends, e, q.end), at2)
    BY <2>1, <2>2, PoolMove
  <2> QED
    BY <2>3 DEF at2
<1> HIDE DEF ends2, all
<1>9. LayoutInv(lay2)
  BY <1>1, <1>2, <1>5, <1>6, <1>7, <1>8, LayoutFrom
<1> QED
  BY <1>9 DEF lay2

LEMMA BeforeMeaning ==
    ASSUME NEW lay, LayoutInv(lay), NEW q \in BusyRecords,
           NEW e \in DOMAIN lay.starts, AtMost(q.end, e)
    PROVE  LayoutInv(BeforeExisting(lay, q, e))
<1> DEFINE all == lay.lanes
           id == Removed(lay.starts, e)
           lane == <<q>> \o all[id]
           all2 == [all EXCEPT ![id] = lane]
           starts2 == Moved(lay.starts, e, q.start)
           lay2 == BeforeExisting(lay, q, e)
<1>1. /\ lay = [starts |-> lay.starts, ends |-> lay.ends, maxQubitId |-> lay.maxQubitId, lanes |-> all]
      /\ lay.maxQubitId \in Int /\ lay.maxQubitId >= -1
      /\ DOMAIN all = -1 .. lay.maxQubitId - 1
      /\ \A l \in DOMAIN all : IsLane(all[l])
      /\ PoolOf(lay.starts, LaneStarts(all)) /\ PoolOf(lay.ends, LaneEnds(all))
  BY DEF LayoutInv
<1>2. lay2 = [starts |-> starts2, ends |-> lay.ends, maxQubitId |-> lay.maxQubitId, lanes |-> all2]
  <2> DEFINE s == lay.starts
             m == lay.maxQubitId
             E == lay.ends
  <2>1. lay = [starts |-> s, ends |-> E, maxQubitId |-> m, lanes |-> all]
    BY <1>1
  <2>2. lay2 = [lay EXCEPT !.starts = starts2, !.lanes = all2]
    BY <2>1 DEF BeforeExisting
  <2> HIDE DEF s, m, E, all, starts2, all2, lay2
  <2> QED
    BY <2>1, <2>2
<1> HIDE DEF lay2
<1>3. id \in DOMAIN all /\ all[id][1].start = e
  <2> DEFINE at == LaneStarts(all)
             rest == [x \in DOMAIN at \ {id} |-> at[x]]
  <2>1. DOMAIN rest = DOMAIN at \ {id} /\ \A x \in DOMAIN rest : rest[x] = at[x]
    OBVIOUS
  <2>2. PoolOf(lay.starts, at)
    BY <1>1
  <2> HIDE DEF rest, at
  <2>3. id \in DOMAIN at /\ at[id] = e
    BY <2>1, <2>2, PoolTake
  <2> QED
    BY <2>3 DEF at, LaneStarts
<1>4. IsLane(lane) /\ lane[1] = q /\ Last(lane) = Last(all[id])
  BY <1>1, <1>3, LaneBefore
<1> HIDE DEF lane
<1>5. DOMAIN all2 = DOMAIN all /\ \A l \in DOMAIN all : all2[l] = IF l = id THEN lane ELSE all[l]
  BY <1>3
<1> HIDE DEF all2
<1>6. \A l \in DOMAIN all2 : IsLane(all2[l])
  BY <1>1, <1>4, <1>5
<1>7. LaneEnds(all2) = LaneEnds(all)
  <2>1. \A l \in DOMAIN all : Last(all2[l]).end = Last(all[l]).end
    BY <1>4, <1>5
  <2> QED
    BY <1>5, <2>1 DEF LaneEnds
<1>8. PoolOf(starts2, LaneStarts(all2))
  <2> DEFINE at == LaneStarts(all)
             at2 == LaneStarts(all2)
  <2>1. /\ DOMAIN at2 = DOMAIN at /\ at2[id] = q.start
        /\ \A x \in DOMAIN at \ {id} : at2[x] = at[x]
    BY <1>3, <1>4, <1>5 DEF LaneStarts
  <2>2. PoolOf(lay.starts, at)
    BY <1>1
  <2> HIDE DEF at, at2
  <2>3. PoolOf(Moved(lay.starts, e, q.start), at2)
    BY <2>1, <2>2, PoolMove
  <2> QED
    BY <2>3 DEF at2
<1> HIDE DEF starts2, all
<1>9. LayoutInv(lay2)
  BY <1>1, <1>2, <1>5, <1>6, <1>7, <1>8, LayoutFrom
<1> QED
  BY <1>9 DEF lay2

LEMMA NewLaneMeaning ==
    ASSUME NEW lay, LayoutInv(lay), NEW q \in BusyRecords
    PROVE  LayoutInv(OnNewLane(lay, q))
<1> DEFINE all == lay.lanes
           m == lay.maxQubitId
           all2 == [l \in DOMAIN all \cup {m} |-> IF l = m THEN <<q>> ELSE all[l]]
           starts2 == Add(lay.starts, m, q.start)
           ends2 == Add(lay.ends, m, q.end)
           lay2 == OnNewLane(lay, q)
<1>1. /\ m \in Int /\ m >= -1
      /\ DOMAIN all = -1 .. m - 1
      /\ \A l \in DOMAIN all : IsLane(all[l])
      /\ PoolOf(lay.starts, LaneStarts(all)) /\ PoolOf(lay.ends, LaneEnds(all))
  BY DEF LayoutInv
<1>2. lay2 = [starts |-> starts2, ends |-> ends2, maxQubitId |-> m + 1, lanes |-> all2]
  BY DEF OnNewLane
<1>3. m \notin DOMAIN all
  BY <1>1
<1>4. DOMAIN all2 = DOMAIN all \cup {m} /\ all2[m] = <<q>> /\ \A l \in DOMAIN all : all2[l] = all[l]
  BY <1>3
<1> HIDE DEF lay2, all2, all, m, starts2, ends2
<1>5. IsLane(<<q>>) /\ <<q>>[1] = q /\ Last(<<q>>) = q
  BY LaneOfOne
<1>6. DOMAIN all2 = -1 .. (m + 1) - 1 /\ m + 1 \in Int /\ m + 1 >= -1
  BY <1>1, <1>4
<1>7. \A l \in DOMAIN all2 : IsLane(all2[l])
  BY <1>1, <1>4, <1>5
<1>8. PoolOf(starts2, LaneStarts(all2))
  <2> DEFINE at == LaneStarts(all)
             at2 == LaneStarts(all2)
  <2>1. /\ DOMAIN at2 = DOMAIN at \cup {m} /\ at2[m] = q.start /\ m \notin DOMAIN at
        /\ \A x \in DOMAIN at : at2[x] = at[x]
    BY <1>3, <1>4, <1>5 DEF LaneStarts
  <2>2. PoolOf(lay.starts, at)
    BY <1>1
  <2> HIDE DEF at, at2
  <2> DEFINE t == q.start
             pool == lay.starts
  <2>3. DOMAIN at2 = DOMAIN at \cup {m} /\ at2[m] = t /\ m \notin DOMAIN at
    BY <2>1
  <2>4. \A x \in DOMAIN at : at2[x] = at[x]
    BY <2>1
  <2>5. PoolOf(pool, at)
    BY <2>2
  <2> HIDE DEF t, pool
  <2>6. PoolOf(Add(pool, m, t), at2)
    BY <2>3, <2>4, <2>5, PoolAdd
  <2> QED
    BY <2>6 DEF at2, t, pool, starts2
<1>9. PoolOf(ends2, LaneEnds(all2))
  <2> DEFINE at == LaneEnds(all)
             at2 == LaneEnds(all2)
  <2>1. /\ DOMAIN at2 = DOMAIN at \cup {m} /\ at2[m] = q.end /\ m \notin DOMAIN at
        /\ \A x \in DOMAIN at : at2[x] = at[x]
    BY <1>3, <1>4, <1>5 DEF LaneEnds
  <2>2. PoolOf(lay.ends, at)
    BY <1>1
  <2> HIDE DEF at, at2
  <2> DEFINE t == q.end
             pool == lay.ends
  <2>3. DOMAIN at2 = DOMAIN at \cup {m} /\ at2[m] = t /\ m \notin DOMAIN at
    BY <2>1
  <2>4. \A x \in DOMAIN at : at2[x] = at[x]
    BY <2>1
  <2>5. PoolOf(pool, at)
    BY <2>2
  <2> HIDE DEF t, pool
  <2>6. PoolOf(Add(pool, m, t), at2)
    BY <2>3, <2>4, <2>5, PoolAdd
  <2> QED
    BY <2>6 DEF at2, t, pool, ends2
<1>10. LayoutInv(lay2)
  BY <1>2, <1>6, <1>7, <1>8, <1>9, LayoutFrom
<1> QED
  BY <1>10 DEF lay2

\* One qubit that is given its lane.
LEMMA PlaceKeepsLayout ==
    ASSUME NEW lay, LayoutInv(lay), NEW q \in BusyRecords
    PROVE  LayoutInv(Place(lay, q))
<1> DEFINE ends == FindLower(lay.ends, q.start)
           starts == FindUpper(lay.starts, q.end)
<1>1. \A e \in ends : e \in DOMAIN lay.ends /\ AtMost(e, q.start)
  BY DEF FindLower, LowerBounds
<1>2. \A s \in starts : s \in DOMAIN lay.starts /\ AtMost(q.end, s)
  BY DEF FindUpper, UpperBounds
<1> HIDE DEF ends, starts
<1>3. LayoutInv(PlaceBetween(lay, q, ends, starts))
  <2>1. CASE ends # {} /\ (starts = {} \/ \E e \in ends, s \in starts : Shorter(q, e, s))
    <3> DEFINE e == CHOOSE e \in ends : TRUE
    <3>1. e \in ends
      BY <2>1
    <3>2. PlaceBetween(lay, q, ends, starts) = AfterExisting(lay, q, e)
      BY <2>1 DEF PlaceBetween
    <3> HIDE DEF e
    <3>3. LayoutInv(AfterExisting(lay, q, e))
      BY <1>1, <3>1, AfterMeaning
    <3> QED
      BY <3>2, <3>3
  <2>2. CASE ~ (ends # {} /\ (starts = {} \/ \E e \in ends, s \in starts : Shorter(q, e, s))) /\ starts # {}
    <3> DEFINE s == CHOOSE s \in starts : TRUE
    <3>1. s \in starts
      BY <2>2
    <3>2. PlaceBetween(lay, q, ends, starts) = BeforeExisting(lay, q, s)
      BY <2>2 DEF PlaceBetween
    <3> HIDE DEF s
    <3>3. LayoutInv(BeforeExisting(lay, q, s))
      BY <1>2, <3>1, BeforeMeaning
    <3> QED
      BY <3>2, <3>3
  <2>3. CASE ends = {} /\ starts = {}
    <3>1. PlaceBetween(lay, q, ends, starts) = OnNewLane(lay, q)
      BY <2>3 DEF PlaceBetween
    <3> QED
      BY <3>1, NewLaneMeaning
  <2> QED
    BY <2>1, <2>2, <2>3
<1>4. Place(lay, q) = IF q.end = Zero THEN lay ELSE PlaceBetween(lay, q, ends, starts)
  BY DEF Place, ends, starts
<1> QED
  BY <1>3, <1>4

\* A set of numbers up to n that has zero and the successor of each has them all.
LEMMA UpTo ==
    ASSUME NEW n \in Nat, NEW T \in SUBSET (0 .. n), 0 \in T,
           \A k \in 1 .. n : k - 1 \in T => k \in T
    PROVE  T = 0 .. n
<1> DEFINE rest == 0 .. n \ T
<1>1. CASE rest # {}
  <2>1. rest \in SUBSET Nat
    OBVIOUS
  <2> HIDE DEF rest
  <2>2. PICK k \in rest : \A m \in rest : ~ m < k
    BY <1>1, <2>1, LeastCount
  <2>3. k \in 0 .. n /\ k \notin T
    BY <2>2 DEF rest
  <2>4. k \in 1 .. n /\ k - 1 \in 0 .. n /\ k - 1 < k
    BY <2>3
  <2>5. k - 1 \in T
    BY <2>2, <2>4 DEF rest
  <2> QED
    BY <2>3, <2>4, <2>5
<1> QED
  BY <1>1

\* The lanes after the first k of the qubits, as the recursive function gives them.
Placing(g, qubits, k) ==
    g = [m \in 0 .. k |-> IF m = 0 THEN Layout ELSE Place(g[m - 1], qubits[m])]

\* The function exists: there is one up to every number.
LEMMA PlacingExists ==
    ASSUME NEW qubits, NEW n \in Nat
    PROVE  \E g : Placing(g, qubits, n)
<1> DEFINE T == {k \in 0 .. n : \E g : Placing(g, qubits, k)}
<1>1. 0 \in T
  <2> DEFINE g == [m \in 0 .. 0 |-> Layout]
  <2>1. g = [m \in 0 .. 0 |-> IF m = 0 THEN Layout ELSE Place(g[m - 1], qubits[m])]
    OBVIOUS
  <2> HIDE DEF g
  <2>2. Placing(g, qubits, 0)
    BY <2>1 DEF Placing
  <2> QED
    BY <2>2
<1>2. ASSUME NEW k \in 1 .. n, k - 1 \in T
      PROVE  k \in T
  <2>1. PICK g : Placing(g, qubits, k - 1)
    BY <1>2
  <2> DEFINE h == [m \in 0 .. k |-> IF m = k THEN Place(g[k - 1], qubits[k]) ELSE g[m]]
             step(f, m) == IF m = 0 THEN Layout ELSE Place(f[m - 1], qubits[m])
  <2>2. /\ DOMAIN h = 0 .. k /\ h[k] = Place(g[k - 1], qubits[k])
        /\ \A m \in 0 .. k - 1 : h[m] = g[m]
    OBVIOUS
  <2>3. \A m \in 0 .. k - 1 : g[m] = step(g, m)
    <3>1. g = [m \in 0 .. k - 1 |-> step(g, m)]
      BY <2>1 DEF Placing
    <3> HIDE DEF step
    <3> QED
      BY <3>1
  <2>4. h \in [0 .. k -> {h[m] : m \in 0 .. k}]
    OBVIOUS
  <2> HIDE DEF h
  <2>5. \A m \in 0 .. k : h[m] = step(h, m)
    <3> TAKE m \in 0 .. k
    <3>1. CASE m = k
      <4>1. k - 1 \in 0 .. k - 1 /\ k # 0
        OBVIOUS
      <4>2. h[k - 1] = g[k - 1]
        BY <2>2, <4>1
      <4> QED
        BY <2>2, <3>1, <4>1, <4>2
    <3>2. CASE m # k /\ m # 0
      <4>1. m \in 0 .. k - 1 /\ m - 1 \in 0 .. k - 1
        BY <3>2
      <4>2. h[m] = g[m] /\ h[m - 1] = g[m - 1]
        BY <2>2, <4>1
      <4>3. g[m] = step(g, m)
        BY <2>3, <4>1
      <4> QED
        BY <3>2, <4>2, <4>3
    <3>3. CASE m # k /\ m = 0
      <4>1. m \in 0 .. k - 1
        BY <3>3
      <4>2. h[m] = g[m] /\ g[m] = step(g, m)
        BY <2>2, <2>3, <4>1
      <4> QED
        BY <3>3, <4>2
    <3> QED
      BY <3>1, <3>2, <3>3
  <2>6. h = [m \in 0 .. k |-> step(h, m)]
    <3> HIDE DEF step
    <3> QED
      BY <2>4, <2>5
  <2>7. Placing(h, qubits, k)
    BY <2>6 DEF Placing
  <2> QED
    BY <2>7
<1> HIDE DEF T
<1>3. T \in SUBSET (0 .. n)
  BY DEF T
<1>4. T = 0 .. n
  BY <1>1, <1>2, <1>3, UpTo
<1> QED
  BY <1>4 DEF T

\* Qubits that are given their lanes one after the other.
LEMMA PlacedKeepsLayout ==
    ASSUME LayoutInv(Layout), NEW n \in Nat, NEW qubits, \A i \in 1 .. n : qubits[i] \in BusyRecords
    PROVE  LayoutInv(PlacedFirst(qubits, n))
<1> DEFINE placed == CHOOSE g : Placing(g, qubits, n)
           step(f, m) == IF m = 0 THEN Layout ELSE Place(f[m - 1], qubits[m])
<1>1. PlacedFirst(qubits, n) = placed[n]
  BY DEF PlacedFirst, Placing
<1>2. Placing(placed, qubits, n)
  BY PlacingExists
<1> HIDE DEF placed
<1>3. \A m \in 0 .. n : placed[m] = step(placed, m)
  <2>1. placed = [m \in 0 .. n |-> step(placed, m)]
    BY <1>2 DEF Placing
  <2> HIDE DEF step
  <2> QED
    BY <2>1
<1> DEFINE T == {k \in 0 .. n : LayoutInv(placed[k])}
<1>4. 0 \in T
  <2>1. 0 \in 0 .. n
    OBVIOUS
  <2>2. placed[0] = Layout
    BY <1>3, <2>1
  <2> QED
    BY <2>1, <2>2
<1>5. ASSUME NEW k \in 1 .. n, k - 1 \in T
      PROVE  k \in T
  <2>1. k \in 0 .. n /\ k # 0
    OBVIOUS
  <2>2. placed[k] = Place(placed[k - 1], qubits[k])
    BY <1>3, <2>1
  <2>3. LayoutInv(placed[k - 1]) /\ qubits[k] \in BusyRecords
    BY <1>5
  <2>4. LayoutInv(placed[k])
    BY <2>2, <2>3, PlaceKeepsLayout
  <2> QED
    BY <2>1, <2>4
<1>6. T \in SUBSET (0 .. n)
  OBVIOUS
<1> HIDE DEF T
<1>7. T = 0 .. n
  BY <1>4, <1>5, <1>6, UpTo
<1>8. n \in T
  BY <1>7
<1> QED
  BY <1>1, <1>8 DEF T

\* The qubits of a release as they are given lanes.
LEMMA BusyMeaning ==
    ASSUME TimeInv, DOMAIN metrics \subseteq QubitObjects,
           NEW objects \in SUBSET DOMAIN metrics, IsFiniteSet(objects),
           NEW qubits \in Sorted(objects)
    PROVE  Len(qubits) \in Nat /\ \A i \in 1 .. Len(qubits) : qubits[i] \in BusyRecords
<1>1. \A o \in objects : Busy(o) \in BusyRecords
  <2> TAKE o \in objects
  <2>1. metrics[o].end \in Times /\ metrics[o].start \in Starts /\ Zero \in Starts /\ o \in QubitObjects
    BY DEF TimeInv, Zero, Time, Starts
  <2> QED
    BY <2>1 DEF Busy, BusyRecords
<1>2. qubits \in SetToSeqs({Busy(o) : o \in objects})
  BY DEF Sorted
<1>3. Cardinality({Busy(o) : o \in objects}) \in Nat
  <2>1. IsFiniteSet({Busy(o) : o \in objects})
    <3> DEFINE S == {Busy(o) : o \in objects}
               f == [o \in objects |-> Busy(o)]
    <3>1. f \in Surjection(objects, S)
      BY DEF Surjection
    <3> HIDE DEF f, S
    <3>2. IsFiniteSet(S)
      BY <3>1, FS_Surjection
    <3> QED
      BY <3>2 DEF S
  <2> QED
    BY <2>1, FS_CardinalityType
<1>4. /\ Len(qubits) \in Nat
      /\ \A i \in 1 .. Len(qubits) : qubits[i] \in {Busy(o) : o \in objects}
  <2> DEFINE S == {Busy(o) : o \in objects}
             c == Cardinality(S)
  <2>1. qubits \in [1 .. c -> S] /\ c \in Nat
    BY <1>2, <1>3 DEF SetToSeqs
  <2> HIDE DEF S, c
  <2>2. qubits \in Seq(S) /\ Len(qubits) = c
    BY <2>1
  <2>3. \A i \in 1 .. c : qubits[i] \in S
    BY <2>1
  <2> QED
    BY <2>1, <2>2, <2>3 DEF S
<1> QED
  BY <1>1, <1>4

\* Only a release changes the lanes.
LanesKept ==
    /\ configuration' = configuration
    /\ startTimes' = startTimes /\ endTimes' = endTimes /\ lanes' = lanes
    /\ OptimizeDepth => maxQubitId' = maxQubitId

LEMMA KeepingKeepsLanes ==
    ASSUME LaneInv, LanesKept
    PROVE  LaneInv'
<1>1. OptimizeDepth' = OptimizeDepth
  BY DEF LanesKept, OptimizeDepth
<1>2. CASE OptimizeDepth
  <2>1. Layout' = Layout
    BY <1>2 DEF Layout, LanesKept
  <2>2. LayoutInv(Layout')
    BY <1>2, <2>1 DEF LaneInv
  <2> QED
    BY <1>1, <1>2, <2>2 DEF LaneInv, LayoutInv
<1>3. CASE ~ OptimizeDepth
  BY <1>1, <1>3 DEF LaneInv, LanesKept
<1> QED
  BY <1>2, <1>3

LEMMA ReleaseKeepsLanes ==
    ASSUME LaneInv, TimeInv, DOMAIN metrics \subseteq QubitObjects, configuration' = configuration,
           NEW objects \in SUBSET DOMAIN metrics, IsFiniteSet(objects), DepthRelease(objects)
    PROVE  LaneInv'
<1>1. CASE OptimizeDepth
  <2>1. PICK qubits \in Sorted(objects) :
            \E lay \in {PlacedFirst(qubits, Len(qubits))} :
                /\ startTimes' = lay.starts /\ endTimes' = lay.ends
                /\ maxQubitId' = lay.maxQubitId /\ lanes' = lay.lanes
    BY <1>1 DEF DepthRelease
  <2> DEFINE lay == PlacedFirst(qubits, Len(qubits))
  <2>2. /\ startTimes' = lay.starts /\ endTimes' = lay.ends
        /\ maxQubitId' = lay.maxQubitId /\ lanes' = lay.lanes
    BY <2>1
  <2>3. Len(qubits) \in Nat /\ \A i \in 1 .. Len(qubits) : qubits[i] \in BusyRecords
    BY <2>1, BusyMeaning
  <2>4. LayoutInv(Layout)
    BY <1>1 DEF LaneInv
  <2>5. LayoutInv(lay)
    BY <2>3, <2>4, PlacedKeepsLayout
  <2> HIDE DEF lay
  <2>6. Layout' = lay
    BY <2>2, <2>5 DEF Layout, LayoutInv
  <2>7. LayoutInv(Layout')
    BY <2>5, <2>6
  <2>8. OptimizeDepth'
    BY <1>1 DEF OptimizeDepth
  <2> QED
    BY <2>7, <2>8 DEF LaneInv, LayoutInv
<1>2. CASE ~ OptimizeDepth
  <2>1. LanesKept
    BY <1>2 DEF DepthRelease, LanesKept
  <2> QED
    BY <2>1, KeepingKeepsLanes
<1> QED
  BY <1>1, <1>2

LEMMA InitialLanes ==
    ASSUME Init
    PROVE  LaneInv
<1>1. startTimes = << >> /\ endTimes = << >> /\ maxQubitId = -1 /\ lanes = << >>
  BY DEF Init, DepthInit, EmptyPool
<1>2. LayoutInv(Layout)
  <2>1. Layout = [starts |-> << >>, ends |-> << >>, maxQubitId |-> -1, lanes |-> << >>]
    BY <1>1 DEF Layout
  <2> DEFINE none == << >>
  <2>2. DOMAIN none = {} /\ -1 .. -1 - 1 = {} /\ -1 \in Int /\ -1 >= -1
    OBVIOUS
  <2> HIDE DEF none
  <2>3. DOMAIN LaneStarts(none) = {} /\ DOMAIN LaneEnds(none) = {}
    BY <2>2 DEF LaneStarts, LaneEnds
  <2>4. PoolOf(none, LaneStarts(none)) /\ PoolOf(none, LaneEnds(none))
    BY <2>2, <2>3 DEF PoolOf
  <2>5. Layout = [starts |-> none, ends |-> none, maxQubitId |-> -1, lanes |-> none]
    BY <2>1 DEF none
  <2>6. DOMAIN none = -1 .. -1 - 1 /\ \A l \in DOMAIN none : IsLane(none[l])
    BY <2>2
  <2> DEFINE max == -1
  <2>7. max \in Int /\ max >= -1 /\ DOMAIN none = -1 .. max - 1
    BY <2>2
  <2>8. Layout = [starts |-> none, ends |-> none, maxQubitId |-> max, lanes |-> none]
    BY <2>5
  <2> HIDE DEF max
  <2> QED
    BY <2>4, <2>6, <2>7, <2>8, LayoutFrom
<1> QED
  BY <1>1, <1>2 DEF LaneInv

\* What a pool says of one of its ids.
LEMMA PoolMeaning ==
    ASSUME NEW pool, NEW at, PoolOf(pool, at), NEW id \in DOMAIN at
    PROVE  {t \in DOMAIN pool : id \in Range(pool[t])} = {at[id]}
<1>1. at[id] \in DOMAIN pool /\ \A t \in DOMAIN pool : Lists(pool[t], at, t)
  BY DEF PoolOf
<1>2. \A t \in DOMAIN pool : id \in Range(pool[t]) <=> at[id] = t
  BY <1>1 DEF Lists, Range
<1> QED
  BY <1>1, <1>2

LEMMA LanesMatch ==
    ASSUME LaneInv
    PROVE  PoolsMatchLanes
<1>1. CASE OptimizeDepth
  <2>1. LayoutInv(Layout)
    BY <1>1 DEF LaneInv
  <2>2. /\ maxQubitId \in Int /\ maxQubitId >= -1 /\ DOMAIN lanes = -1 .. maxQubitId - 1
        /\ \A l \in DOMAIN lanes : IsLane(lanes[l])
        /\ PoolOf(startTimes, LaneStarts(lanes)) /\ PoolOf(endTimes, LaneEnds(lanes))
    BY <2>1 DEF LayoutInv, Layout
  <2>3. Cardinality(DOMAIN lanes) = maxQubitId + 1
    <3> DEFINE a == -1
               b == maxQubitId - 1
    <3>1. a \in Int /\ b \in Int /\ DOMAIN lanes = a .. b
      BY <2>2
    <3>2. (IF a > b THEN 0 ELSE b - a + 1) = maxQubitId + 1
      BY <2>2
    <3> HIDE DEF a, b
    <3>3. Cardinality(a .. b) = IF a > b THEN 0 ELSE b - a + 1
      BY <3>1, FS_Interval
    <3> QED
      BY <3>1, <3>2, <3>3
  <2>4. ASSUME NEW l \in DOMAIN lanes
        PROVE  /\ {t \in DOMAIN startTimes : l \in Range(startTimes[t])} = {lanes[l][1].start}
               /\ {t \in DOMAIN endTimes : l \in Range(endTimes[t])} = {Last(lanes[l]).end}
               /\ \A i \in 1 .. Len(lanes[l]) - 1 : AtMost(lanes[l][i].end, lanes[l][i + 1].start)
    <3>1. l \in DOMAIN LaneStarts(lanes) /\ LaneStarts(lanes)[l] = lanes[l][1].start
      BY DEF LaneStarts
    <3>2. l \in DOMAIN LaneEnds(lanes) /\ LaneEnds(lanes)[l] = Last(lanes[l]).end
      BY DEF LaneEnds
    <3>3. {t \in DOMAIN startTimes : l \in Range(startTimes[t])} = {LaneStarts(lanes)[l]}
      BY <2>2, <3>1, PoolMeaning
    <3>4. {t \in DOMAIN endTimes : l \in Range(endTimes[t])} = {LaneEnds(lanes)[l]}
      BY <2>2, <3>2, PoolMeaning
    <3>5. \A i \in 1 .. Len(lanes[l]) - 1 : AtMost(lanes[l][i].end, lanes[l][i + 1].start)
      BY <2>2 DEF IsLane
    <3> QED
      BY <3>1, <3>2, <3>3, <3>4, <3>5
  <2> QED
    BY <1>1, <2>3, <2>4 DEF PoolsMatchLanes
<1>2. CASE ~ OptimizeDepth
  <2>1. DOMAIN lanes = {}
    BY <1>2 DEF LaneInv
  <2> QED
    BY <1>2, <2>1, FS_EmptySet DEF PoolsMatchLanes
<1> QED
  BY <1>1, <1>2

\* Every step but a release leaves the lanes alone.
LEMMA OthersKeepLanes ==
    ASSUME [Next]_vars
    PROVE  Release \/ LanesKept
<1>1. CASE UNCHANGED vars
  BY <1>1 DEF vars, depthVars, LanesKept
<1>2. ASSUME configuration' = configuration, NEW n \in 1 .. configuration.MaxRequest, Allocate(n)
      PROVE  LanesKept
  BY <1>2 DEF Allocate, DepthAllocate, LanesKept
<1>3. ASSUME configuration' = configuration, NEW n \in 1 .. configuration.MaxBorrow, Borrow(n)
      PROVE  LanesKept
  BY <1>3 DEF Borrow, DepthBorrow, LanesKept
<1>4. ASSUME configuration' = configuration, Return
      PROVE  LanesKept
  BY <1>4 DEF Return, DepthReturn, LanesKept
<1>5. ASSUME configuration' = configuration, Gate \/ Measure
      PROVE  LanesKept
  BY <1>5 DEF Gate, Measure, DoPrimitiveOperation, DepthGate, LanesKept
<1>6. ASSUME configuration' = configuration, AssertProb \/ ForceMeasure
      PROVE  LanesKept
  BY <1>6 DEF AssertProb, ForceMeasure, depthVars, LanesKept
<1>7. ASSUME configuration' = configuration, OnOperationStart
      PROVE  LanesKept
  BY <1>7 DEF OnOperationStart, DepthStart, depthVars, LanesKept
<1>8. ASSUME configuration' = configuration, OnOperationEnd \/ Unwind
      PROVE  LanesKept
  BY <1>8 DEF OnOperationEnd, Unwind, EndOfCall, DepthEnd, depthVars, LanesKept
<1>9. ASSUME configuration' = configuration, OnFail
      PROVE  LanesKept
  BY <1>9 DEF OnFail, depthVars, LanesKept
<1> QED
  BY <1>1, <1>2, <1>3, <1>4, <1>5, <1>6, <1>7, <1>8, <1>9 DEF Next

\* The lanes are those of the pools after any sequence of calls on the simulator that a compiled
\* program can make, with failures.
THEOREM LanesAreKept == Spec => []LaneInv
<1>1. Init => LaneInv
  BY InitialLanes
<1>2. Inv /\ LaneInv /\ [Next]_vars => LaneInv'
  <2> SUFFICES ASSUME Inv, LaneInv, [Next]_vars PROVE LaneInv'
    OBVIOUS
  <2>1. CASE LanesKept
    BY <2>1, KeepingKeepsLanes
  <2>2. CASE ~ LanesKept
    <3> DEFINE objects == Last(frames[Top].blocks).objects
    <3>1. Release /\ configuration' = configuration
      BY <2>2, OthersKeepLanes DEF Next, vars, LanesKept, depthVars
    <3>2. frames[Top].blocks # << >> /\ DepthRelease(objects)
      BY <3>1 DEF Release, HasBlock
    <3>3. objects \subseteq DOMAIN metrics /\ IsFiniteSet(objects)
      BY <3>2, LastBlockMeaning DEF Inv
    <3>4. TimeInv /\ DOMAIN metrics \subseteq QubitObjects
      BY DEF Inv, StateInv, ObjectInv
    <3> HIDE DEF objects
    <3> QED
      BY <3>1, <3>2, <3>3, <3>4, ReleaseKeepsLanes
  <2> QED
    BY <2>1, <2>2
<1> QED
  BY <1>1, <1>2, TracerInvariance, PTL DEF Spec

\* Both pools have every lane of the circuit once, at the start of its first and at the end of
\* its last qubit, and the qubits in between do not overlap, whichever order a release has its
\* qubits in and whichever of two lanes with the same time is taken.
THEOREM PoolsDescribeLanes == Spec => []PoolsMatchLanes
<1>1. LaneInv => PoolsMatchLanes
  BY LanesMatch
<1> QED
  BY <1>1, LanesAreKept, PTL

-----------------------------------------------------------------------------
(* Longest paths.                                                           *)

\* The largest of finitely many numbers: the one with the fewest larger ones.
LEMMA MaxMeaning ==
    ASSUME NEW S \in SUBSET Nat, IsFiniteSet(S), S # {}
    PROVE  Max(S) \in S /\ \A n \in S : n <= Max(S)
<1> DEFINE larger(n) == {m \in S : n < m}
           counts == {Cardinality(larger(n)) : n \in S}
<1>1. ASSUME NEW n \in S
      PROVE  IsFiniteSet(larger(n)) /\ Cardinality(larger(n)) \in Nat
  BY FS_Subset, FS_CardinalityType
<1>2. counts \in SUBSET Nat /\ counts # {}
  BY <1>1
<1>3. PICK c \in counts : \A d \in counts : ~ d < c
  BY <1>2, LeastCount
<1>4. PICK n \in S : c = Cardinality(larger(n))
  OBVIOUS
<1>5. ASSUME NEW m \in S, n < m
      PROVE  FALSE
  <2>0. n \in Nat /\ m \in Nat /\ ~ (m < m) /\ \A k \in S : k \in Nat /\ (m < k => n < k)
    BY <1>5
  <2>1. larger(m) \in SUBSET larger(n) /\ m \in larger(n) /\ m \notin larger(m)
    BY <1>5, <2>0
  <2>2. /\ IsFiniteSet(larger(n)) /\ Cardinality(larger(n)) \in Nat
        /\ Cardinality(larger(m)) \in Nat /\ Cardinality(larger(m)) \in counts
    BY <1>1
  <2>3. larger(m) # larger(n)
    BY <2>1
  <2> HIDE DEF larger, counts
  <2>4. Cardinality(larger(m)) < Cardinality(larger(n))
    BY <2>1, <2>2, <2>3, FS_Subset
  <2> QED
    BY <1>3, <1>4, <2>2, <2>4
<1>6. ASSUME NEW m \in S
      PROVE  n >= m
  <2>1. n \in Nat /\ m \in Nat /\ ~ (n < m)
    BY <1>5
  <2> QED
    BY <2>1
<1>7. Max(S) \in S /\ \A m \in S : Max(S) >= m
  BY <1>6 DEF Max
<1>8. ASSUME NEW m \in S
      PROVE  m <= Max(S)
  BY <1>7
<1> QED
  BY <1>7, <1>8

LEMMA MaxIs ==
    ASSUME NEW S \in SUBSET Nat, NEW m \in S, \A n \in S : n <= m
    PROVE  Max(S) = m
<1>1. m \in S /\ \A n \in S : m >= n
  OBVIOUS
<1>2. Max(S) \in S /\ \A n \in S : Max(S) >= n
  BY <1>1 DEF Max
<1>3. Max(S) \in Nat /\ m \in Nat /\ Max(S) <= m /\ m <= Max(S)
  BY <1>2
<1> QED
  BY <1>3

\* The latest of finitely many gates.
LatestOf(E, gates) == Max({0} \cup {E[f] : f \in gates})

LEMMA LatestMeaning ==
    ASSUME NEW gates, IsFiniteSet(gates), NEW E, \A f \in gates : E[f] \in Nat
    PROVE  /\ LatestOf(E, gates) \in Nat
           /\ \A f \in gates : E[f] <= LatestOf(E, gates)
           /\ LatestOf(E, gates) = 0 \/ \E f \in gates : LatestOf(E, gates) = E[f]
<1> DEFINE ends == {E[f] : f \in gates}
           S == {0} \cup ends
<1>1. IsFiniteSet(ends)
  <2> DEFINE e == [f \in gates |-> E[f]]
  <2>1. e \in Surjection(gates, ends)
    BY DEF Surjection
  <2> HIDE DEF e, ends
  <2> QED
    BY <2>1, FS_Surjection
<1>2. IsFiniteSet(S)
  <2>1. IsFiniteSet({0})
    BY FS_Singleton
  <2> HIDE DEF ends
  <2> QED
    BY <1>1, <2>1, FS_Union
<1>3. S \in SUBSET Nat /\ S # {}
  OBVIOUS
<1>4. Max(S) \in S /\ \A n \in S : n <= Max(S)
  <2> HIDE DEF S
  <2> QED
    BY <1>2, <1>3, MaxMeaning
<1>5. LatestOf(E, gates) = Max(S)
  BY DEF LatestOf
<1> QED
  BY <1>3, <1>4, <1>5

\* Every gate ends its time after the latest of the gates before it.
Preds(g, gates, order) == {f \in gates : <<f, g>> \in order}

IsEnd(E, gates, order) ==
    /\ \A g \in gates : E[g] \in Nat
    /\ \A g \in gates : E[g] = g.time + LatestOf(E, Preds(g, gates, order))

\* A rank says that the order has no cycle, and how long its paths are.
IsRank(r, gates, order) ==
    /\ \A g \in gates : r[g] \in 0 .. Cardinality(gates) - 1
    /\ \A f, g \in gates : <<f, g>> \in order => r[f] < r[g]

\* A new gate after some others.
AddsGate(g, last, gates, order, order2) ==
    /\ g \notin gates /\ last \subseteq gates /\ g.time \in Nat
    /\ order \subseteq gates \X gates
    /\ \A f, h : <<f, h>> \in order2 <=> <<f, h>> \in order \/ (h = g /\ f \in last)

LEMMA EndOfNewGate ==
    ASSUME NEW E, NEW gates, NEW order, IsEnd(E, gates, order), IsFiniteSet(gates),
           NEW g, NEW last, NEW order2, AddsGate(g, last, gates, order, order2)
    PROVE  \E E2 : /\ IsEnd(E2, gates \cup {g}, order2)
                   /\ \A h \in gates : E2[h] = E[h]
                   /\ E2[g] = g.time + LatestOf(E, last)
<1> DEFINE end == g.time + LatestOf(E, last)
           all == gates \cup {g}
<1>1. PICK E2 : E2 = [h \in all |-> IF h = g THEN end ELSE E[h]]
  OBVIOUS
<1>2. g \notin gates /\ last \subseteq gates /\ g.time \in Nat /\ order \subseteq gates \X gates
  BY DEF AddsGate
<1>3. E2[g] = end /\ \A h \in gates : E2[h] = E[h]
  BY <1>1, <1>2
<1>4. end \in Nat
  <2>1. IsFiniteSet(last) /\ \A f \in last : E[f] \in Nat
    BY <1>2, FS_Subset DEF IsEnd
  <2>2. LatestOf(E, last) \in Nat
    BY <2>1, LatestMeaning
  <2> QED
    BY <1>2, <2>2
<1>5. \A S \in SUBSET gates : LatestOf(E2, S) = LatestOf(E, S)
  <2> TAKE S \in SUBSET gates
  <2>1. {E2[f] : f \in S} = {E[f] : f \in S}
    BY <1>3
  <2> QED
    BY <2>1 DEF LatestOf
<1>6. Preds(g, all, order2) = last
  BY <1>2 DEF Preds, AddsGate
<1>7. \A h \in gates : Preds(h, all, order2) = Preds(h, gates, order)
  BY <1>2 DEF Preds, AddsGate
<1>8. ASSUME NEW h \in all
      PROVE  E2[h] \in Nat /\ E2[h] = h.time + LatestOf(E2, Preds(h, all, order2))
  <2>1. CASE h = g
    BY <1>2, <1>3, <1>4, <1>5, <1>6, <2>1
  <2>2. CASE h # g
    <3>1. h \in gates /\ Preds(h, gates, order) \in SUBSET gates
      BY <2>2 DEF Preds
    <3>2. LatestOf(E2, Preds(h, all, order2)) = LatestOf(E, Preds(h, gates, order))
      BY <1>5, <1>7, <3>1
    <3>3. E[h] \in Nat /\ E[h] = h.time + LatestOf(E, Preds(h, gates, order))
      BY <3>1 DEF IsEnd
    <3> QED
      BY <1>3, <3>1, <3>2, <3>3
  <2> QED
    BY <2>1, <2>2
<1>9. IsEnd(E2, all, order2)
  <2> HIDE DEF all
  <2> QED
    BY <1>8 DEF IsEnd
<1> HIDE DEF end
<1> QED
  BY <1>3, <1>9 DEF end

LEMMA RankOfNewGate ==
    ASSUME NEW r, NEW gates, NEW order, IsRank(r, gates, order), IsFiniteSet(gates),
           NEW g, NEW last, NEW order2, AddsGate(g, last, gates, order, order2)
    PROVE  \E r2 : IsRank(r2, gates \cup {g}, order2)
<1> DEFINE n == Cardinality(gates)
           all == gates \cup {g}
<1>1. PICK r2 : r2 = [h \in all |-> IF h = g THEN n ELSE r[h]]
  OBVIOUS
<1>2. g \notin gates /\ last \subseteq gates /\ order \subseteq gates \X gates
  BY DEF AddsGate
<1>3. r2[g] = n /\ \A h \in gates : r2[h] = r[h]
  BY <1>1, <1>2
<1>4. n \in Nat /\ Cardinality(all) = n + 1
  BY <1>2, FS_AddElement, FS_CardinalityType
<1> HIDE DEF n, all
<1>5. \A h \in gates : r[h] \in 0 .. n - 1
  BY DEF IsRank, n
<1>6. \A h \in all : r2[h] \in 0 .. Cardinality(all) - 1
  BY <1>3, <1>4, <1>5 DEF all
<1>7. ASSUME NEW f \in all, NEW h \in all, <<f, h>> \in order2
      PROVE  r2[f] < r2[h]
  <2>1. CASE <<f, h>> \in order
    BY <1>2, <1>3, <2>1 DEF IsRank
  <2>2. CASE h = g /\ f \in last
    <3>1. f \in gates /\ r[f] \in 0 .. n - 1
      BY <1>2, <1>5, <2>2
    <3> QED
      BY <1>3, <1>4, <2>2, <3>1
  <2> QED
    BY <1>7, <2>1, <2>2 DEF AddsGate
<1>8. IsRank(r2, all, order2)
  BY <1>6, <1>7 DEF IsRank
<1> QED
  BY <1>8 DEF all

-----------------------------------------------------------------------------
(* The earliest end of the gates.                                           *)

\* A step further back along the order.
Later(before, order) == [g \in Gates |-> g.time + LatestOf(before, Preds(g, Gates, order))]

\* The first k of these steps, as the recursive function gives them.
Unrolled(e, order, k) ==
    e = [n \in 0 .. k |-> IF n = 0 THEN [g \in Gates |-> g.time] ELSE Later(e[n - 1], order)]

LEMMA EarliestMeaning ==
    ASSUME NEW order
    PROVE  EarliestEnd(order) =
             (CHOOSE e : Unrolled(e, order, Cardinality(Gates)))[Cardinality(Gates)]
BY DEF EarliestEnd, Unrolled, Later, LatestOf, Preds

\* The function exists: there is one up to every number.
LEMMA UnrollingExists ==
    ASSUME NEW order, NEW n \in Nat
    PROVE  \E e : Unrolled(e, order, n)
<1> DEFINE T == {k \in 0 .. n : \E e : Unrolled(e, order, k)}
           first == [g \in Gates |-> g.time]
<1>1. 0 \in T
  <2> DEFINE e == [m \in 0 .. 0 |-> first]
  <2>1. e = [m \in 0 .. 0 |-> IF m = 0 THEN first ELSE Later(e[m - 1], order)]
    OBVIOUS
  <2> HIDE DEF e
  <2>2. Unrolled(e, order, 0)
    BY <2>1 DEF Unrolled
  <2> QED
    BY <2>2
<1>2. ASSUME NEW k \in 1 .. n, k - 1 \in T
      PROVE  k \in T
  <2>1. PICK e : Unrolled(e, order, k - 1)
    BY <1>2
  <2> DEFINE h == [m \in 0 .. k |-> IF m = k THEN Later(e[k - 1], order) ELSE e[m]]
             step(f, m) == IF m = 0 THEN first ELSE Later(f[m - 1], order)
  <2>2. /\ DOMAIN h = 0 .. k /\ h[k] = Later(e[k - 1], order)
        /\ \A m \in 0 .. k - 1 : h[m] = e[m]
    OBVIOUS
  <2>3. \A m \in 0 .. k - 1 : e[m] = step(e, m)
    <3>1. e = [m \in 0 .. k - 1 |-> step(e, m)]
      BY <2>1 DEF Unrolled
    <3> HIDE DEF step
    <3> QED
      BY <3>1
  <2>4. h \in [0 .. k -> {h[m] : m \in 0 .. k}]
    OBVIOUS
  <2> HIDE DEF h, first
  <2>5. \A m \in 0 .. k : h[m] = step(h, m)
    <3> TAKE m \in 0 .. k
    <3>1. CASE m = k
      <4>1. k - 1 \in 0 .. k - 1 /\ k # 0
        OBVIOUS
      <4>2. h[k - 1] = e[k - 1]
        BY <2>2, <4>1
      <4> QED
        BY <2>2, <3>1, <4>1, <4>2
    <3>2. CASE m # k /\ m # 0
      <4>1. m \in 0 .. k - 1 /\ m - 1 \in 0 .. k - 1
        BY <3>2
      <4>2. h[m] = e[m] /\ h[m - 1] = e[m - 1]
        BY <2>2, <4>1
      <4>3. e[m] = step(e, m)
        BY <2>3, <4>1
      <4> QED
        BY <3>2, <4>2, <4>3
    <3>3. CASE m # k /\ m = 0
      <4>1. m \in 0 .. k - 1
        BY <3>3
      <4>2. h[m] = e[m] /\ e[m] = step(e, m)
        BY <2>2, <2>3, <4>1
      <4> QED
        BY <3>3, <4>2
    <3> QED
      BY <3>1, <3>2, <3>3
  <2>6. h = [m \in 0 .. k |-> step(h, m)]
    <3> HIDE DEF step
    <3> QED
      BY <2>4, <2>5
  <2>7. Unrolled(h, order, k)
    BY <2>6 DEF Unrolled, first
  <2> QED
    BY <2>7
<1> HIDE DEF T
<1>3. T \in SUBSET (0 .. n)
  BY DEF T
<1>4. T = 0 .. n
  BY <1>1, <1>2, <1>3, UpTo
<1> QED
  BY <1>4 DEF T

\* After as many steps as there are gates every gate has its end, if none waits for itself.
LEMMA EarliestIsEnd ==
    ASSUME IsFiniteSet(Gates), NEW E, NEW r, NEW order,
           \A g \in Gates : g.time \in Nat,
           IsEnd(E, Gates, order), IsRank(r, Gates, order)
    PROVE  \A g \in Gates : EarliestEnd(order)[g] = E[g]
<1> DEFINE n == Cardinality(Gates)
           end == CHOOSE e : Unrolled(e, order, n)
           step(m) == IF m = 0 THEN [g \in Gates |-> g.time] ELSE Later(end[m - 1], order)
<1>1. n \in Nat
  BY FS_CardinalityType
<1>2. EarliestEnd(order) = end[n]
  BY EarliestMeaning
<1> HIDE DEF n
<1>3. Unrolled(end, order, n)
  BY <1>1, UnrollingExists
<1> HIDE DEF end
<1>4. \A m \in 0 .. n : end[m] = step(m)
  <2>1. end = [m \in 0 .. n |-> step(m)]
    BY <1>3 DEF Unrolled
  <2> HIDE DEF step
  <2> QED
    BY <2>1
<1>5. \A g \in Gates : r[g] \in 0 .. n - 1
  BY DEF IsRank, n
<1>6. \A g \in Gates : E[g] \in Nat /\ E[g] = g.time + LatestOf(E, Preds(g, Gates, order))
  BY DEF IsEnd
<1> DEFINE T == {k \in 0 .. n : \A g \in Gates : r[g] <= k => end[k][g] = E[g]}
<1>7. 0 \in T
  <2>1. 0 \in 0 .. n /\ end[0] = [g \in Gates |-> g.time]
    BY <1>1, <1>4
  <2>2. ASSUME NEW g \in Gates, r[g] <= 0
        PROVE  end[0][g] = E[g]
    <3>1. Preds(g, Gates, order) = {}
      <4>1. ASSUME NEW f \in Preds(g, Gates, order)
            PROVE  FALSE
        <5>1. f \in Gates /\ r[f] < r[g]
          BY <4>1 DEF Preds, IsRank
        <5>2. r[f] \in 0 .. n - 1 /\ r[g] \in 0 .. n - 1
          BY <1>5, <5>1
        <5> QED
          BY <1>1, <2>2, <5>1, <5>2
      <4> QED
        BY <4>1
    <3>2. LatestOf(E, {}) = 0
      <4>1. 0 \in {0} /\ {0} \in SUBSET Nat /\ \A m \in {0} : m <= 0
        OBVIOUS
      <4>2. Max({0}) = 0
        BY <4>1, MaxIs
      <4>3. {0} \cup {E[f] : f \in {}} = {0}
        OBVIOUS
      <4> QED
        BY <4>2, <4>3 DEF LatestOf
    <3>3. E[g] = g.time + LatestOf(E, {}) /\ g.time \in Nat
      BY <1>6, <3>1
    <3> QED
      BY <2>1, <3>2, <3>3
  <2> QED
    BY <2>1, <2>2
<1>8. ASSUME NEW k \in 1 .. n, k - 1 \in T
      PROVE  k \in T
  <2>1. k \in 0 .. n /\ k # 0 /\ k \in Nat
    OBVIOUS
  <2>2. end[k] = Later(end[k - 1], order)
    BY <1>4, <2>1
  <2>3. ASSUME NEW g \in Gates, r[g] <= k
        PROVE  end[k][g] = E[g]
    <3> DEFINE before == Preds(g, Gates, order)
    <3>1. ASSUME NEW f \in before
          PROVE  end[k - 1][f] = E[f]
      <4>1. f \in Gates /\ r[f] < r[g]
        BY <3>1 DEF Preds, IsRank
      <4>2. r[f] \in 0 .. n - 1 /\ r[g] \in 0 .. n - 1
        BY <1>5, <4>1
      <4>3. r[f] <= k - 1
        BY <1>1, <2>1, <2>3, <4>1, <4>2
      <4> QED
        BY <1>8, <4>1, <4>3
    <3> HIDE DEF before
    <3>2. {end[k - 1][f] : f \in before} = {E[f] : f \in before}
      BY <3>1
    <3>3. LatestOf(end[k - 1], before) = LatestOf(E, before)
      BY <3>2 DEF LatestOf
    <3>4. end[k][g] = g.time + LatestOf(end[k - 1], before)
      BY <2>2 DEF Later, before
    <3> QED
      BY <1>6, <3>3, <3>4 DEF before
  <2> QED
    BY <2>1, <2>3
<1>9. T \in SUBSET (0 .. n)
  OBVIOUS
<1> HIDE DEF T
<1>10. T = 0 .. n
  BY <1>1, <1>7, <1>8, <1>9, UpTo
<1>11. n \in T
  BY <1>1, <1>10
<1>12. ASSUME NEW g \in Gates
       PROVE  end[n][g] = E[g]
  <2>1. r[g] \in 0 .. n - 1
    BY <1>5
  <2>2. r[g] <= n
    BY <1>1, <2>1
  <2> QED
    BY <1>11, <2>2 DEF T
<1> QED
  BY <1>2, <1>12

-----------------------------------------------------------------------------
(* The gates on wires W.                                                    *)

GatesOf(W) == UNION {Range(W[w]) : w \in DOMAIN W}

OrderOf(W) == UNION {{<<W[w][i], W[w][i + 1]>> : i \in 1 .. Len(W[w]) - 1} : w \in DOMAIN W}

\* The last gates of some wires.
LastsOf(W, on) == {Last(W[w]) : w \in {v \in on : W[v] # << >>}}

LEMMA GatesAreGatesOf == Gates = GatesOf(wires) /\ WireOrder = OrderOf(wires)
BY DEF Gates, GatesOf, WireOrder, OrderOf

LEMMA WireMeaning ==
    ASSUME NEW W, W \in [DOMAIN W -> Seq(GateRecords)], NEW w \in DOMAIN W
    PROVE  /\ W[w] \in Seq(GateRecords) /\ Len(W[w]) \in Nat /\ DOMAIN W[w] = 1 .. Len(W[w])
           /\ \A i \in 1 .. Len(W[w]) : W[w][i] \in GatesOf(W) /\ W[w][i] \in GateRecords
           /\ W[w] # << >> => /\ Len(W[w]) > 0 /\ Last(W[w]) = W[w][Len(W[w])]
                              /\ Last(W[w]) \in GatesOf(W)
<1>1. W[w] \in Seq(GateRecords)
  OBVIOUS
<1>2. Len(W[w]) \in Nat /\ DOMAIN W[w] = 1 .. Len(W[w])
  BY <1>1, LenProperties
<1>3. ASSUME NEW i \in 1 .. Len(W[w])
      PROVE  W[w][i] \in GatesOf(W) /\ W[w][i] \in GateRecords
  <2>1. W[w][i] \in Range(W[w])
    BY <1>2 DEF Range
  <2> QED
    BY <1>1, <1>2, <2>1, ElementOfSeq DEF GatesOf
<1>4. ASSUME W[w] # << >>
      PROVE  /\ Len(W[w]) > 0 /\ Last(W[w]) = W[w][Len(W[w])]
             /\ Last(W[w]) \in GatesOf(W)
  <2>1. Len(W[w]) \in Nat \ {0}
    BY <1>1, <1>2, <1>4, EmptySeq
  <2>2. Len(W[w]) \in 1 .. Len(W[w])
    BY <2>1
  <2> QED
    BY <1>3, <2>1, <2>2 DEF Last
<1> QED
  BY <1>1, <1>2, <1>3, <1>4

\* The gates and their order, on wires taken one by one.
GatesAre(W, gates, order) ==
    /\ \A g : g \in gates <=> \E w \in DOMAIN W : \E i \in 1 .. Len(W[w]) : g = W[w][i]
    /\ \A f, g : <<f, g>> \in order <=>
         \E w \in DOMAIN W : \E i \in 1 .. Len(W[w]) - 1 : f = W[w][i] /\ g = W[w][i + 1]

LEMMA WiresMeaning ==
    ASSUME NEW W, W \in [DOMAIN W -> Seq(GateRecords)]
    PROVE  /\ GatesAre(W, GatesOf(W), OrderOf(W))
           /\ OrderOf(W) \subseteq GatesOf(W) \X GatesOf(W)
           /\ GatesOf(W) \subseteq GateRecords
<1>1. ASSUME NEW g
      PROVE  g \in GatesOf(W) <=> \E w \in DOMAIN W : \E i \in 1 .. Len(W[w]) : g = W[w][i]
  <2>1. g \in GatesOf(W) <=> \E w \in DOMAIN W : \E i \in DOMAIN W[w] : g = W[w][i]
    BY DEF GatesOf, Range
  <2>2. \A w \in DOMAIN W : DOMAIN W[w] = 1 .. Len(W[w])
    BY WireMeaning
  <2> QED
    BY <2>1, <2>2
<1>2. ASSUME NEW f, NEW g
      PROVE  <<f, g>> \in OrderOf(W) <=>
                \E w \in DOMAIN W : \E i \in 1 .. Len(W[w]) - 1 : f = W[w][i] /\ g = W[w][i + 1]
  BY DEF OrderOf
<1>3. OrderOf(W) \subseteq GatesOf(W) \X GatesOf(W)
  <2>1. ASSUME NEW p \in OrderOf(W)
        PROVE  p \in GatesOf(W) \X GatesOf(W)
    <3>1. PICK w \in DOMAIN W : \E i \in 1 .. Len(W[w]) - 1 : p = <<W[w][i], W[w][i + 1]>>
      BY DEF OrderOf
    <3>2. PICK i \in 1 .. Len(W[w]) - 1 : p = <<W[w][i], W[w][i + 1]>>
      BY <3>1
    <3>3. i \in 1 .. Len(W[w]) /\ i + 1 \in 1 .. Len(W[w])
      BY WireMeaning
    <3> QED
      BY <3>2, <3>3, WireMeaning
  <2> QED
    BY <2>1
<1>4. GatesOf(W) \subseteq GateRecords
  BY <1>1, WireMeaning
<1> QED
  BY <1>1, <1>2, <1>3, <1>4 DEF GatesAre

\* New wires have no gates.
LEMMA WiresAdded ==
    ASSUME NEW W, NEW W2,
           W \in [DOMAIN W -> Seq(GateRecords)], W2 \in [DOMAIN W2 -> Seq(GateRecords)],
           DOMAIN W \subseteq DOMAIN W2, \A w \in DOMAIN W : W2[w] = W[w],
           \A w \in DOMAIN W2 : w \in DOMAIN W \/ W2[w] = << >>
    PROVE  GatesOf(W2) = GatesOf(W) /\ OrderOf(W2) = OrderOf(W)
<1>1. ASSUME NEW w \in DOMAIN W2, NEW i \in 1 .. Len(W2[w])
      PROVE  w \in DOMAIN W
  <2>1. Len(W2[w]) \in Nat /\ W2[w] \in Seq(GateRecords)
    BY WireMeaning
  <2>2. W2[w] # << >>
    BY <2>1, EmptySeq
  <2> QED
    BY <2>2
<1>2. ASSUME NEW w \in DOMAIN W2, NEW i \in 1 .. Len(W2[w]) - 1
      PROVE  w \in DOMAIN W
  <2>1. i \in 1 .. Len(W2[w])
    BY WireMeaning
  <2> QED
    BY <1>1, <2>1
<1>3. ASSUME NEW g
      PROVE  g \in GatesOf(W2) <=> g \in GatesOf(W)
  BY <1>1, WiresMeaning DEF GatesAre
<1>4. ASSUME NEW p
      PROVE  p \in OrderOf(W2) <=> p \in OrderOf(W)
  BY <1>2 DEF OrderOf
<1> QED
  BY <1>3, <1>4

\* W2 is W with the gate g more on some of the wires.
WithNewGate(W, W2, on, g) ==
    W2 = [w \in DOMAIN W |-> IF w \in on THEN Append(W[w], g) ELSE W[w]]

\* The gate g comes after the last of each of its wires.
GoesAfter(W, W2, on, g) ==
    /\ GatesOf(W2) = GatesOf(W) \cup {g}
    /\ AddsGate(g, LastsOf(W, on), GatesOf(W), OrderOf(W), OrderOf(W2))
    /\ DOMAIN W2 = DOMAIN W
    /\ \A w \in on : W2[w] # << >> /\ Last(W2[w]) = g
    /\ \A w \in DOMAIN W \ on : W2[w] = W[w]

LEMMA GateAdded ==
    ASSUME NEW W, W \in [DOMAIN W -> Seq(GateRecords)], NEW on \in SUBSET DOMAIN W, on # {},
           NEW g \in GateRecords, g \notin GatesOf(W),
           NEW W2, WithNewGate(W, W2, on, g)
    PROVE  GoesAfter(W, W2, on, g)
<1>1. ASSUME NEW w \in on
      PROVE  /\ W2[w] \in Seq(GateRecords) /\ Len(W2[w]) = Len(W[w]) + 1
             /\ W2[w][Len(W[w]) + 1] = g /\ \A i \in 1 .. Len(W[w]) : W2[w][i] = W[w][i]
             /\ Len(W[w]) \in Nat
  <2> DEFINE s == W[w]
  <2>1. s \in Seq(GateRecords) /\ W2[w] = Append(s, g)
    BY DEF WithNewGate
  <2> HIDE DEF s
  <2>2. /\ W2[w] \in Seq(GateRecords) /\ Len(W2[w]) = Len(s) + 1
        /\ W2[w][Len(s) + 1] = g /\ \A i \in 1 .. Len(s) : W2[w][i] = s[i]
        /\ Len(s) \in Nat
    BY <2>1, AppendProperties
  <2> QED
    BY <2>2 DEF s
<1>2. DOMAIN W2 = DOMAIN W /\ \A w \in DOMAIN W \ on : W2[w] = W[w]
  BY DEF WithNewGate
<1>3. W2 \in [DOMAIN W2 -> Seq(GateRecords)]
  <2>1. \A w \in DOMAIN W : W2[w] \in Seq(GateRecords)
    BY <1>1, <1>2
  <2> QED
    BY <2>1 DEF WithNewGate
<1>4. ASSUME NEW w \in on
      PROVE  W2[w] # << >> /\ Last(W2[w]) = g
  <2>1. Len(W2[w]) = Len(W[w]) + 1 /\ Len(W[w]) \in Nat /\ W2[w] \in Seq(GateRecords)
    BY <1>1
  <2>2. Len(W2[w]) # 0
    BY <2>1
  <2>3. W2[w] # << >>
    BY <2>1, <2>2, EmptySeq
  <2>4. Last(W2[w]) = W2[w][Len(W[w]) + 1]
    BY <2>1 DEF Last
  <2> QED
    BY <1>1, <2>3, <2>4
<1>5. GatesAre(W, GatesOf(W), OrderOf(W)) /\ GatesAre(W2, GatesOf(W2), OrderOf(W2))
  BY <1>3, WiresMeaning
<1>6. ASSUME NEW h
      PROVE  h \in GatesOf(W2) <=> h \in GatesOf(W) \cup {g}
  <2>1. h \in GatesOf(W2) <=> \E w \in DOMAIN W : \E i \in 1 .. Len(W2[w]) : h = W2[w][i]
    BY <1>2, <1>5 DEF GatesAre
  <2>2. h \in GatesOf(W) <=> \E w \in DOMAIN W : \E i \in 1 .. Len(W[w]) : h = W[w][i]
    BY <1>5 DEF GatesAre
  <2>3. ASSUME NEW w \in DOMAIN W, NEW i \in 1 .. Len(W2[w]), h = W2[w][i]
        PROVE  h \in GatesOf(W) \cup {g}
    <3>1. CASE w \in on
      <4>1. i \in 1 .. Len(W[w]) \/ i = Len(W[w]) + 1
        BY <1>1, <3>1
      <4> QED
        BY <1>1, <2>2, <2>3, <3>1, <4>1
    <3>2. CASE w \notin on
      BY <1>2, <2>2, <2>3, <3>2
    <3> QED
      BY <3>1, <3>2
  <2>4. ASSUME NEW w \in DOMAIN W, NEW i \in 1 .. Len(W[w]), h = W[w][i]
        PROVE  \E j \in 1 .. Len(W2[w]) : h = W2[w][j]
    <3>1. CASE w \in on
      <4>1. i \in 1 .. Len(W2[w])
        BY <1>1, <3>1
      <4> QED
        BY <1>1, <2>4, <3>1, <4>1
    <3>2. CASE w \notin on
      BY <1>2, <2>4, <3>2
    <3> QED
      BY <3>1, <3>2
  <2>5. g \in GatesOf(W2)
    <3>1. PICK w \in on : TRUE
      OBVIOUS
    <3>2. Len(W[w]) + 1 \in 1 .. Len(W2[w]) /\ g = W2[w][Len(W[w]) + 1]
      BY <1>1
    <3> QED
      BY <1>2, <1>3, <3>1, <3>2, WireMeaning
  <2> QED
    BY <2>1, <2>2, <2>3, <2>4, <2>5
<1>7. ASSUME NEW f, NEW h
      PROVE  <<f, h>> \in OrderOf(W2) <=> <<f, h>> \in OrderOf(W) \/ (h = g /\ f \in LastsOf(W, on))
  <2>1. <<f, h>> \in OrderOf(W2) <=>
            \E w \in DOMAIN W : \E i \in 1 .. Len(W2[w]) - 1 : f = W2[w][i] /\ h = W2[w][i + 1]
    BY <1>2, <1>5 DEF GatesAre
  <2>2. <<f, h>> \in OrderOf(W) <=>
            \E w \in DOMAIN W : \E i \in 1 .. Len(W[w]) - 1 : f = W[w][i] /\ h = W[w][i + 1]
    BY <1>5 DEF GatesAre
  <2>3. ASSUME NEW w \in DOMAIN W, NEW i \in 1 .. Len(W2[w]) - 1, f = W2[w][i], h = W2[w][i + 1]
        PROVE  <<f, h>> \in OrderOf(W) \/ (h = g /\ f \in LastsOf(W, on))
    <3>1. CASE w \in on /\ i = Len(W[w])
      <4>1. Len(W[w]) > 0 /\ i \in 1 .. Len(W[w])
        BY <1>1, <3>1
      <4>2. W[w] # << >> /\ f = W[w][Len(W[w])] /\ h = g
        BY <1>1, <2>3, <3>1, <4>1, EmptySeq
      <4>3. f = Last(W[w])
        BY <4>2 DEF Last
      <4> QED
        BY <3>1, <4>2, <4>3 DEF LastsOf
    <3>2. CASE w \in on /\ i # Len(W[w])
      <4>1. i \in 1 .. Len(W[w]) - 1 /\ i \in 1 .. Len(W[w]) /\ i + 1 \in 1 .. Len(W[w])
        BY <1>1, <3>2
      <4>2. f = W[w][i] /\ h = W[w][i + 1]
        BY <1>1, <2>3, <3>2, <4>1
      <4> QED
        BY <2>2, <4>1, <4>2
    <3>3. CASE w \notin on
      BY <1>2, <2>2, <2>3, <3>3
    <3> QED
      BY <3>1, <3>2, <3>3
  <2>4. ASSUME NEW w \in DOMAIN W, NEW i \in 1 .. Len(W[w]) - 1, f = W[w][i], h = W[w][i + 1]
        PROVE  \E j \in 1 .. Len(W2[w]) - 1 : f = W2[w][j] /\ h = W2[w][j + 1]
    <3>1. CASE w \in on
      <4>1. /\ i \in 1 .. Len(W2[w]) - 1 /\ i \in 1 .. Len(W[w]) /\ i + 1 \in 1 .. Len(W[w])
        BY <1>1, <3>1
      <4>2. W2[w][i] = W[w][i] /\ W2[w][i + 1] = W[w][i + 1]
        BY <1>1, <3>1, <4>1
      <4> QED
        BY <2>4, <4>1, <4>2
    <3>2. CASE w \notin on
      BY <1>2, <2>4, <3>2
    <3> QED
      BY <3>1, <3>2
  <2>5. ASSUME h = g, f \in LastsOf(W, on)
        PROVE  \E w \in DOMAIN W : \E j \in 1 .. Len(W2[w]) - 1 : f = W2[w][j] /\ h = W2[w][j + 1]
    <3>1. PICK w \in on : W[w] # << >> /\ f = Last(W[w])
      BY <2>5 DEF LastsOf
    <3>2. Len(W[w]) > 0 /\ f = W[w][Len(W[w])]
      BY <3>1, WireMeaning
    <3>3. /\ Len(W[w]) \in 1 .. Len(W2[w]) - 1 /\ Len(W[w]) \in 1 .. Len(W[w])
          /\ W2[w][Len(W[w])] = W[w][Len(W[w])] /\ W2[w][Len(W[w]) + 1] = g
      BY <1>1, <3>2
    <3> QED
      BY <2>5, <3>2, <3>3
  <2> QED
    BY <2>1, <2>2, <2>3, <2>4, <2>5
<1>8. AddsGate(g, LastsOf(W, on), GatesOf(W), OrderOf(W), OrderOf(W2))
  <2>1. LastsOf(W, on) \subseteq GatesOf(W)
    BY WireMeaning DEF LastsOf
  <2>2. g.time \in Nat
    BY DEF GateRecords
  <2>3. OrderOf(W) \subseteq GatesOf(W) \X GatesOf(W)
    BY WiresMeaning
  <2> QED
    BY <1>7, <2>1, <2>2, <2>3 DEF AddsGate
<1> QED
  BY <1>2, <1>4, <1>6, <1>8 DEF GoesAfter

\* Gates on the same wires are numbered.
NumbersFit(gates) == \A g \in gates : g.number \in 1 .. Cardinality({h \in gates : h.on = g.on})

LEMMA NumberOfNewGate ==
    ASSUME NEW gates, IsFiniteSet(gates), NumbersFit(gates),
           NEW g, g.number = Cardinality({h \in gates : h.on = g.on}) + 1
    PROVE  g \notin gates /\ NumbersFit(gates \cup {g})
<1> DEFINE like(on, S) == {h \in S : h.on = on}
           all == gates \cup {g}
<1>1. ASSUME NEW on
      PROVE  /\ IsFiniteSet(like(on, gates)) /\ Cardinality(like(on, gates)) \in Nat
             /\ IsFiniteSet(like(on, all)) /\ Cardinality(like(on, all)) \in Nat
  <2>1. IsFiniteSet(all)
    BY FS_AddElement
  <2>2. like(on, gates) \in SUBSET gates /\ like(on, all) \in SUBSET all
    OBVIOUS
  <2> HIDE DEF like, all
  <2> QED
    BY <2>1, <2>2, FS_Subset, FS_CardinalityType
<1>2. g \notin gates
  <2>1. ASSUME g \in gates
        PROVE  FALSE
    <3>1. g.number \in 1 .. Cardinality(like(g.on, gates))
      BY <2>1 DEF NumbersFit
    <3>2. g.number = Cardinality(like(g.on, gates)) + 1
      OBVIOUS
    <3> HIDE DEF like
    <3> QED
      BY <1>1, <3>1, <3>2
  <2> QED
    BY <2>1
<1>3. ASSUME NEW f \in all
      PROVE  f.number \in 1 .. Cardinality(like(f.on, all))
  <2>1. CASE f = g
    <3>1. like(g.on, all) = like(g.on, gates) \cup {g} /\ g \notin like(g.on, gates)
      BY <1>2
    <3>2. g.number = Cardinality(like(g.on, gates)) + 1
      OBVIOUS
    <3> HIDE DEF like, all
    <3>3. Cardinality(like(g.on, all)) = Cardinality(like(g.on, gates)) + 1
      BY <1>1, <3>1, FS_AddElement
    <3> QED
      BY <1>1, <2>1, <3>2, <3>3
  <2>2. CASE f # g
    <3>1. f.number \in 1 .. Cardinality(like(f.on, gates))
      BY <2>2 DEF NumbersFit
    <3>2. like(f.on, gates) \in SUBSET like(f.on, all)
      OBVIOUS
    <3> HIDE DEF like, all
    <3>3. Cardinality(like(f.on, gates)) <= Cardinality(like(f.on, all))
      BY <1>1, <3>2, FS_Subset
    <3> QED
      BY <1>1, <3>1, <3>3
  <2> QED
    BY <2>1, <2>2
<1> QED
  BY <1>2, <1>3 DEF NumbersFit

-----------------------------------------------------------------------------
(* When qubits are available.                                               *)

\* When the last gate on a wire ends.
EndOn(E, W, w) == IF W[w] = << >> THEN 0 ELSE E[Last(W[w])]

TimesAreEnds(E) ==
    IF OptimizeDepth
    THEN \A o \in DOMAIN metrics : metrics[o].end.depth = EndOn(E, wires, o)
    ELSE /\ available \in Seq(Nat)
         /\ \A id \in Nat :
                TimeOf(available, id) = IF id \in DOMAIN wires THEN EndOn(E, wires, id) ELSE 0

LEMMA EndOnMeaning ==
    ASSUME NEW W, W \in [DOMAIN W -> Seq(GateRecords)], NEW w \in DOMAIN W,
           NEW E, \A g \in GatesOf(W) : E[g] \in Nat
    PROVE  /\ EndOn(E, W, w) \in Nat
           /\ EndOn(E, W, w) = 0 \/ \E g \in GatesOf(W) : EndOn(E, W, w) = E[g]
<1>1. W[w] # << >> => Last(W[w]) \in GatesOf(W)
  BY WireMeaning
<1> QED
  BY <1>1 DEF EndOn

LEMMA AvailableIsEnd ==
    ASSUME ObjectInv, NEW E, \A g \in Gates : E[g] \in Nat, TimesAreEnds(E), NEW o \in DOMAIN metrics
    PROVE  /\ AvailableAt(o) = EndOn(E, wires, Wire(o)) /\ AvailableAt(o) \in Nat
           /\ Wire(o) \in DOMAIN wires
           /\ AvailableAt(o) = 0 \/ \E g \in Gates : AvailableAt(o) = E[g]
<1>1. /\ wires \in [DOMAIN wires -> Seq(GateRecords)] /\ Wire(o) \in DOMAIN wires
      /\ o \in QubitObjects
  BY DEF ObjectInv
<1>2. AvailableAt(o) = EndOn(E, wires, Wire(o))
  <2>1. CASE OptimizeDepth
    BY <2>1 DEF AvailableAt, TimesAreEnds, Wire
  <2>2. CASE ~ OptimizeDepth
    <3>1. QubitId(o) \in Nat /\ Wire(o) = QubitId(o)
      BY <1>1, <2>2 DEF Wire, QubitId, QubitObjects
    <3> QED
      BY <1>1, <2>2, <3>1 DEF AvailableAt, TimesAreEnds
  <2> QED
    BY <2>1, <2>2
<1>3. Gates = GatesOf(wires)
  BY GatesAreGatesOf
<1> QED
  BY <1>1, <1>2, <1>3, EndOnMeaning

LEMMA MaxAvailableMeaning ==
    ASSUME NEW objects, IsFiniteSet(objects), \A o \in objects : AvailableAt(o) \in Nat
    PROVE  /\ MaxAvailableTime(objects) \in Nat
           /\ \A o \in objects : AvailableAt(o) <= MaxAvailableTime(objects)
           /\ \/ MaxAvailableTime(objects) = 0
              \/ \E o \in objects : MaxAvailableTime(objects) = AvailableAt(o)
<1> DEFINE f == [o \in objects |-> AvailableAt(o)]
<1>1. \A o \in objects : f[o] = AvailableAt(o)
  OBVIOUS
<1>2. MaxAvailableTime(objects) = LatestOf(f, objects)
  <2>1. {f[o] : o \in objects} = {AvailableAt(o) : o \in objects}
    BY <1>1
  <2> HIDE DEF f
  <2> QED
    BY <2>1 DEF MaxAvailableTime, LatestOf
<1> HIDE DEF f
<1>3. \A o \in objects : f[o] \in Nat
  BY <1>1
<1>4. /\ LatestOf(f, objects) \in Nat /\ \A o \in objects : f[o] <= LatestOf(f, objects)
      /\ LatestOf(f, objects) = 0 \/ \E o \in objects : LatestOf(f, objects) = f[o]
  BY <1>3, LatestMeaning
<1> QED
  BY <1>1, <1>2, <1>4

\* A number that is at least every time, and one of them or zero, is the latest.
LEMMA MaxAvailableIs ==
    ASSUME NEW objects, \A o \in objects : AvailableAt(o) \in Nat, NEW t \in Nat,
           \A o \in objects : AvailableAt(o) <= t, t = 0 \/ \E o \in objects : t = AvailableAt(o)
    PROVE  MaxAvailableTime(objects) = t
<1> DEFINE S == {0} \cup {AvailableAt(o) : o \in objects}
<1>1. S \in SUBSET Nat /\ t \in S /\ \A n \in S : n <= t
  OBVIOUS
<1> HIDE DEF S
<1>2. Max(S) = t
  BY <1>1, MaxIs
<1> QED
  BY <1>2 DEF S, MaxAvailableTime

\* The list new is the list with the time t for the ids.
HasTimes(new, list, ids, t) ==
    /\ new \in Seq(Nat)
    /\ \A id \in Nat : TimeOf(new, id) = IF id \in ids THEN t ELSE TimeOf(list, id)

LEMMA SetTimesMeaning ==
    ASSUME NEW list \in Seq(Nat), NEW ids \in SUBSET Nat, IsFiniteSet(ids), NEW time \in Nat
    PROVE  HasTimes(SetTimes(list, ids, time), list, ids, time)
<1> DEFINE ends == {id + 1 : id \in ids}
           S == {Len(list)} \cup ends
           n == Max(S)
           new == SetTimes(list, ids, time)
<1>1. IsFiniteSet(S)
  <2> DEFINE f == [id \in ids |-> id + 1]
  <2>1. f \in Surjection(ids, ends)
    BY DEF Surjection
  <2> HIDE DEF f, ends
  <2>2. IsFiniteSet(ends)
    BY <2>1, FS_Surjection
  <2>3. IsFiniteSet({Len(list)})
    BY FS_Singleton
  <2> QED
    BY <2>2, <2>3, FS_Union
<1>2. S \in SUBSET Nat /\ S # {} /\ Len(list) \in S /\ \A id \in ids : id + 1 \in S
  OBVIOUS
<1>3. n \in Nat /\ Len(list) <= n /\ \A id \in ids : id + 1 <= n
  <2> HIDE DEF S
  <2>1. Max(S) \in S /\ \A m \in S : m <= Max(S)
    BY <1>1, <1>2, MaxMeaning
  <2> QED
    BY <1>2, <2>1
<1>4. new = [i \in 1 .. n |-> IF i - 1 \in ids THEN time ELSE TimeOf(list, i - 1)]
  BY DEF SetTimes
<1> HIDE DEF S, n, new, ends
<1>5. ASSUME NEW id \in Nat
      PROVE  TimeOf(list, id) \in Nat
  <2>1. CASE id < Len(list)
    <3>1. id + 1 \in 1 .. Len(list)
      BY <2>1
    <3> QED
      BY <2>1, <3>1, ElementOfSeq DEF TimeOf
  <2>2. CASE ~ (id < Len(list))
    BY <2>2 DEF TimeOf
  <2> QED
    BY <2>1, <2>2
<1>6. ASSUME NEW i \in 1 .. n
      PROVE  (IF i - 1 \in ids THEN time ELSE TimeOf(list, i - 1)) \in Nat
  <2>1. i - 1 \in Nat
    BY <1>3
  <2> QED
    BY <1>5, <2>1
<1>7. new \in Seq(Nat) /\ Len(new) = n
  <2>1. new \in [1 .. n -> Nat]
    BY <1>4, <1>6
  <2> QED
    BY <1>3, <2>1
<1>8. ASSUME NEW id \in Nat
      PROVE  TimeOf(new, id) = IF id \in ids THEN time ELSE TimeOf(list, id)
  <2>1. CASE id < n
    <3>1. id + 1 \in 1 .. n /\ (id + 1) - 1 = id
      BY <1>3, <2>1
    <3>2. TimeOf(new, id) = new[id + 1]
      BY <1>7, <2>1 DEF TimeOf
    <3> QED
      BY <1>4, <3>1, <3>2
  <2>2. CASE ~ (id < n)
    <3>1. id \notin ids
      BY <1>3, <2>2
    <3>2. ~ (id < Len(list))
      BY <1>3, <2>2
    <3> QED
      BY <1>7, <2>2, <3>1, <3>2 DEF TimeOf
  <2> QED
    BY <2>1, <2>2
<1> QED
  BY <1>7, <1>8 DEF new, HasTimes

-----------------------------------------------------------------------------
(* Gates and the times.                                                     *)

\* What a gate that ends at t does to the times.
SetsTimes(objects, t) ==
    IF OptimizeDepth
    THEN \A o \in DOMAIN metrics :
            metrics'[o].end.depth = IF o \in objects THEN t ELSE metrics[o].end.depth
    ELSE available \in Seq(Nat) => HasTimes(available', available, IdsOf(objects), t)

LEMMA GateSetsTimes ==
    ASSUME TimeInv, ObjectInv, NEW objects \in SUBSET DOMAIN metrics, IsFiniteSet(objects),
           \A o \in objects : AvailableAt(o) \in Nat,
           NEW time \in Nat, DepthGate(objects, time)
    PROVE  SetsTimes(objects, MaxAvailableTime(objects) + time)
<1> DEFINE max == MaxAvailableTime(objects)
<1>1. metrics \in [DOMAIN metrics -> [start : Starts, end : Times]]
  BY DEF TimeInv
<1>2. \A o \in DOMAIN metrics : metrics[o].end \in Times /\ metrics[o].end.depth \in Nat
  BY <1>1 DEF Times
<1>3. max \in Nat
  BY MaxAvailableMeaning
<1>4. ASSUME NEW t \in Times
      PROVE  AdvanceBy(t, time).depth = t.depth + time
  BY DEF AdvanceBy, Time, Times
<1>5. CASE OptimizeDepth /\ Cardinality(objects) = 1
  <2>1. objects # {}
    BY <1>5, FS_EmptySet
  <2>2. metrics' = SingleGate(CHOOSE o \in objects : TRUE, time)
    BY <1>5 DEF DepthGate
  <2>3. PICK o \in objects : metrics' = SingleGate(o, time)
    BY <2>1, <2>2
  <2>4. objects = {o}
    <3>1. PICK x : objects = {x}
      BY <1>5, FS_Singleton
    <3> QED
      BY <3>1
  <2>5. metrics' = [metrics EXCEPT ![o].end = AdvanceBy(@, time)]
    BY <2>3 DEF SingleGate
  <2>6. \A q \in DOMAIN metrics : q # o => metrics'[q] = metrics[q]
    BY <2>5
  <2>7. metrics'[o].end = AdvanceBy(metrics[o].end, time)
    BY <1>1, <2>5
  <2>8. max = metrics[o].end.depth
    <3>1. AvailableAt(o) = metrics[o].end.depth
      BY <1>5 DEF AvailableAt
    <3>2. AvailableAt(o) \in Nat /\ \A q \in objects : q = o
      BY <2>4
    <3> QED
      BY <3>1, <3>2, MaxAvailableIs
  <2> HIDE DEF max
  <2>9. metrics'[o].end.depth = max + time
    BY <1>2, <1>4, <2>7, <2>8
  <2> QED
    BY <1>5, <2>4, <2>6, <2>9 DEF SetsTimes, max
<1>6. CASE OptimizeDepth /\ Cardinality(objects) # 1
  <2> DEFINE end == LatestEnd(objects)
  <2>1. /\ end \in Times /\ end \in {Zero} \cup {metrics[o].end : o \in objects}
        /\ \A o \in objects : AtMost(metrics[o].end, end)
    BY LatestEndMeaning
  <2>2. metrics' = [o \in DOMAIN metrics |->
                        IF o \in objects THEN Advanced(metrics[o], end, time) ELSE metrics[o]]
    BY <1>6 DEF DepthGate, MultiGate
  <2> HIDE DEF end
  <2>3. max = end.depth
    <3>1. \A o \in objects : AvailableAt(o) = metrics[o].end.depth
      BY <1>6 DEF AvailableAt
    <3>2. end.depth \in Nat /\ \A o \in objects : metrics[o].end.depth <= end.depth
      BY <1>2, <2>1 DEF AtMost, Before, Times
    <3>3. end.depth = 0 \/ \E o \in objects : end.depth = metrics[o].end.depth
      BY <2>1 DEF Zero, Time
    <3> QED
      BY <3>1, <3>2, <3>3, MaxAvailableIs
  <2>4. \A o \in objects : metrics'[o].end.depth = end.depth + time
    BY <1>4, <2>1, <2>2 DEF Advanced
  <2>5. \A o \in DOMAIN metrics \ objects : metrics'[o] = metrics[o]
    BY <2>2
  <2> HIDE DEF max
  <2> QED
    BY <1>6, <2>3, <2>4, <2>5 DEF SetsTimes, max
<1>7. CASE ~ OptimizeDepth
  <2>1. available' = SetTimes(available, IdsOf(objects), max + time)
    BY <1>7 DEF DepthGate, IdsOf
  <2>2. IdsOf(objects) \in SUBSET Nat /\ IsFiniteSet(IdsOf(objects))
    <3>1. \A o \in objects : QubitId(o) \in Nat
      BY DEF ObjectInv, QubitObjects, QubitId
    <3> DEFINE f == [o \in objects |-> QubitId(o)]
    <3>2. f \in Surjection(objects, IdsOf(objects))
      BY DEF Surjection, IdsOf
    <3>3. IdsOf(objects) \in SUBSET Nat
      BY <3>1 DEF IdsOf
    <3> HIDE DEF f
    <3> QED
      BY <3>2, <3>3, FS_Surjection
  <2>3. max + time \in Nat
    BY <1>3
  <2> HIDE DEF max
  <2>4. ASSUME available \in Seq(Nat)
        PROVE  HasTimes(available', available, IdsOf(objects), max + time)
    BY <2>1, <2>2, <2>3, <2>4, SetTimesMeaning
  <2> QED
    BY <1>7, <2>4 DEF SetsTimes, max
<1> QED
  BY <1>5, <1>6, <1>7

\* The ends of the gates, and that there are such.
EndsFit(E, r) ==
    IsEnd(E, Gates, WireOrder) /\ IsRank(r, Gates, WireOrder) /\ TimesAreEnds(E)

\* The wires of some qubits.
WiresFor(objects) == {Wire(o) : o \in objects}

\* What has a gate on it now ends at t.
EndsAt(E, E2, on, t) ==
    /\ DOMAIN wires' = DOMAIN wires
    /\ \A w \in DOMAIN wires :
            EndOn(E2, wires', w) = IF w \in on THEN t ELSE EndOn(E, wires, w)

LEMMA TimesFollow ==
    ASSUME ObjectInv, NEW E, TimesAreEnds(E), NEW objects \in SUBSET DOMAIN metrics,
           NEW t, SetsTimes(objects, t), NEW E2, EndsAt(E, E2, WiresFor(objects), t),
           DOMAIN metrics' = DOMAIN metrics, configuration' = configuration
    PROVE  /\ TimesAreEnds(E2)'
           /\ \A o \in DOMAIN metrics :
                AvailableAt(o)' = IF Wire(o) \in WiresFor(objects) THEN t ELSE AvailableAt(o)
<1> DEFINE on == WiresFor(objects)
<1>1. /\ OptimizeDepth' = OptimizeDepth /\ DOMAIN wires' = DOMAIN wires
      /\ \A w \in DOMAIN wires :
            EndOn(E2, wires', w) = IF w \in on THEN t ELSE EndOn(E, wires, w)
  BY DEF OptimizeDepth, EndsAt
<1>2. CASE OptimizeDepth
  <2>1. \A o \in DOMAIN metrics : Wire(o) = o /\ o \in DOMAIN wires /\ (o \in on <=> o \in objects)
    BY <1>2 DEF ObjectInv, Wire, WiresFor
  <2>2. \A o \in DOMAIN metrics :
            /\ metrics'[o].end.depth = IF o \in objects THEN t ELSE metrics[o].end.depth
            /\ metrics[o].end.depth = EndOn(E, wires, o)
    BY <1>2 DEF SetsTimes, TimesAreEnds
  <2> HIDE DEF on
  <2>3. \A o \in DOMAIN metrics' : metrics'[o].end.depth = EndOn(E2, wires', o)
    BY <1>1, <2>1, <2>2
  <2>4. TimesAreEnds(E2)'
    BY <1>1, <1>2, <2>3 DEF TimesAreEnds
  <2>5. \A o \in DOMAIN metrics : AvailableAt(o)' = IF Wire(o) \in on THEN t ELSE AvailableAt(o)
    BY <1>1, <1>2, <2>1, <2>2 DEF AvailableAt
  <2> QED
    BY <2>4, <2>5 DEF on
<1>3. CASE ~ OptimizeDepth
  <2>1. on = IdsOf(objects) /\ \A o \in DOMAIN metrics : Wire(o) = QubitId(o)
    BY <1>3 DEF Wire, WiresFor, IdsOf
  <2>2. on \subseteq DOMAIN wires /\ \A o \in DOMAIN metrics : QubitId(o) \in Nat
    BY DEF ObjectInv, WiresFor, QubitObjects, QubitId
  <2>3. available \in Seq(Nat) /\ \A id \in Nat :
            TimeOf(available, id) = IF id \in DOMAIN wires THEN EndOn(E, wires, id) ELSE 0
    BY <1>3 DEF TimesAreEnds
  <2>4. /\ available' \in Seq(Nat)
        /\ \A id \in Nat : TimeOf(available', id) = IF id \in on THEN t ELSE TimeOf(available, id)
    BY <1>3, <2>1, <2>3 DEF SetsTimes, HasTimes
  <2> HIDE DEF on
  <2>5. ASSUME NEW id \in Nat
        PROVE  TimeOf(available', id) = IF id \in DOMAIN wires' THEN EndOn(E2, wires', id) ELSE 0
    <3>1. CASE id \in DOMAIN wires
      BY <1>1, <2>3, <2>4, <3>1
    <3>2. CASE id \notin DOMAIN wires
      BY <1>1, <2>2, <2>3, <2>4, <3>2
    <3> QED
      BY <3>1, <3>2
  <2>6. TimesAreEnds(E2)'
    BY <1>1, <1>3, <2>4, <2>5 DEF TimesAreEnds
  <2>7. \A o \in DOMAIN metrics : AvailableAt(o)' = IF Wire(o) \in on THEN t ELSE AvailableAt(o)
    BY <1>1, <1>3, <2>1, <2>2, <2>4 DEF AvailableAt
  <2> QED
    BY <2>6, <2>7 DEF on
<1> QED
  BY <1>2, <1>3

\* The latest of the last gates of the wires is when the last of the qubits is available.
LEMMA LatestOfLasts ==
    ASSUME ObjectInv, NEW E, \A g \in Gates : E[g] \in Nat, TimesAreEnds(E),
           NEW objects \in SUBSET DOMAIN metrics
    PROVE  LatestOf(E, LastsOf(wires, WiresFor(objects))) = MaxAvailableTime(objects)
<1> DEFINE lasts == LastsOf(wires, WiresFor(objects))
<1>1. \A o \in objects : AvailableAt(o) = EndOn(E, wires, Wire(o))
  BY AvailableIsEnd
<1>2. ASSUME NEW o \in objects
      PROVE  AvailableAt(o) \in {0} \cup {E[f] : f \in lasts}
  <2>1. CASE wires[Wire(o)] = << >>
    BY <1>1, <2>1 DEF EndOn
  <2>2. CASE wires[Wire(o)] # << >>
    <3>1. Last(wires[Wire(o)]) \in lasts
      BY <2>2 DEF LastsOf, WiresFor
    <3> HIDE DEF lasts
    <3> QED
      BY <1>1, <2>2, <3>1 DEF EndOn
  <2> QED
    BY <2>1, <2>2
<1>3. ASSUME NEW f \in lasts
      PROVE  E[f] \in {AvailableAt(o) : o \in objects}
  <2>1. PICK o \in objects : wires[Wire(o)] # << >> /\ f = Last(wires[Wire(o)])
    BY DEF LastsOf, WiresFor
  <2>2. E[f] = AvailableAt(o)
    BY <1>1, <2>1 DEF EndOn
  <2> QED
    BY <2>2
<1> HIDE DEF lasts
<1>4. {0} \cup {E[f] : f \in lasts} = {0} \cup {AvailableAt(o) : o \in objects}
  BY <1>2, <1>3
<1> QED
  BY <1>4 DEF LatestOf, MaxAvailableTime, lasts

\* Old gates keep their ends, qubits are available no earlier, and a new gate ends when its
\* qubits are available again.
GateEnds(E, E2, objects) ==
    /\ \A h \in Gates : h \in Gates' /\ E2[h] = E[h]
    /\ \A o \in DOMAIN metrics : AvailableAt(o)' \in Nat /\ AvailableAt(o) <= AvailableAt(o)'
    /\ \A g \in Gates' : g \in Gates \/ \E o \in objects : E2[g] = AvailableAt(o)'

\* What a gate does to its wires and to the times of its qubits.
TimesGate(objects, time) ==
    /\ objects \subseteq DOMAIN metrics /\ IsFiniteSet(objects) /\ time \in Nat
    /\ wires' = WithGate(WiresFor(objects), time)
    /\ DepthGate(objects, time)
    /\ DOMAIN metrics' = DOMAIN metrics /\ configuration' = configuration

\* Nothing happens without qubits.
LEMMA NoGateKeepsEnds ==
    ASSUME TimeInv, ObjectInv, NEW E, NEW r, EndsFit(E, r), NEW time, TimesGate({}, time)
    PROVE  Gates' = Gates /\ EndsFit(E, r)' /\ GateEnds(E, E, {})
<1> DEFINE t == MaxAvailableTime({}) + time
<1>1. WiresFor({}) = {} /\ {} \in SUBSET DOMAIN metrics
  BY DEF WiresFor
<1>2. wires' = wires
  <2>1. wires' = [w \in DOMAIN wires |-> wires[w]]
    BY <1>1 DEF TimesGate, WithGate
  <2>2. wires = [w \in DOMAIN wires |-> wires[w]]
    BY DEF ObjectInv
  <2> QED
    BY <2>1, <2>2
<1>3. Gates' = Gates /\ WireOrder' = WireOrder
  BY <1>2 DEF Gates, WireOrder
<1>4. SetsTimes({}, t)
  BY GateSetsTimes DEF TimesGate
<1> HIDE DEF t
<1>5. EndsAt(E, E, WiresFor({}), t)
  BY <1>1, <1>2 DEF EndsAt
<1>6. /\ TimesAreEnds(E)'
      /\ \A o \in DOMAIN metrics :
            AvailableAt(o)' = IF Wire(o) \in WiresFor({}) THEN t ELSE AvailableAt(o)
  BY <1>1, <1>4, <1>5, TimesFollow DEF EndsFit, TimesGate
<1>7. \A o \in DOMAIN metrics : AvailableAt(o)' = AvailableAt(o) /\ AvailableAt(o) \in Nat
  BY <1>1, <1>6, AvailableIsEnd DEF EndsFit, IsEnd
<1>8. EndsFit(E, r)'
  BY <1>3, <1>6 DEF EndsFit
<1>9. GateEnds(E, E, {})
  <2>1. \A h \in Gates : h \in Gates'
    BY <1>3
  <2>2. \A o \in DOMAIN metrics : AvailableAt(o)' \in Nat /\ AvailableAt(o) <= AvailableAt(o)'
    BY <1>7
  <2> QED
    BY <1>3, <2>1, <2>2 DEF GateEnds
<1> QED
  BY <1>3, <1>8, <1>9

\* A gate ends its time after the last of its qubits was available.
LEMMA GateKeepsEnds ==
    ASSUME TimeInv, ObjectInv, NumbersFit(Gates), NEW E, NEW r, EndsFit(E, r),
           NEW objects, objects # {}, NEW time, TimesGate(objects, time)
    PROVE  NumbersFit(Gates') /\ \E E2, r2 : EndsFit(E2, r2)' /\ GateEnds(E, E2, objects)
<1> DEFINE on == WiresFor(objects)
           max == MaxAvailableTime(objects)
           g == NewGate(on, time)
           lasts == LastsOf(wires, on)
<1>1. /\ objects \in SUBSET DOMAIN metrics /\ IsFiniteSet(objects) /\ time \in Nat
      /\ wires' = WithGate(on, time) /\ DepthGate(objects, time)
      /\ DOMAIN metrics' = DOMAIN metrics /\ configuration' = configuration
  BY DEF TimesGate
<1>2. /\ wires \in [DOMAIN wires -> Seq(GateRecords)] /\ DOMAIN wires \subseteq Wires
      /\ \A o \in DOMAIN metrics : Wire(o) \in DOMAIN wires
  BY DEF ObjectInv
<1>3. on \in SUBSET DOMAIN wires /\ on # {} /\ on \in SUBSET Wires
  BY <1>1, <1>2 DEF WiresFor
<1>4. /\ IsEnd(E, Gates, WireOrder) /\ IsRank(r, Gates, WireOrder) /\ TimesAreEnds(E)
      /\ \A h \in Gates : E[h] \in Nat
  BY DEF EndsFit, IsEnd
<1>5. /\ Gates = GatesOf(wires) /\ WireOrder = OrderOf(wires)
      /\ Gates' = GatesOf(wires') /\ WireOrder' = OrderOf(wires')
      /\ IsFiniteSet(Gates)
  BY GatesAreGatesOf, GatesAreFinite DEF Gates, GatesOf, WireOrder, OrderOf
<1>6. \A o \in DOMAIN metrics : AvailableAt(o) \in Nat /\ AvailableAt(o) = EndOn(E, wires, Wire(o))
  BY <1>4, AvailableIsEnd
<1>7. max \in Nat /\ \A o \in objects : AvailableAt(o) <= max
  BY <1>1, <1>6, MaxAvailableMeaning
<1>8. SetsTimes(objects, max + time)
  BY <1>1, <1>6, GateSetsTimes
<1>9. LatestOf(E, lasts) = max
  BY <1>1, <1>4, LatestOfLasts
<1>10. g \in GateRecords /\ g.on = on /\ g.time = time /\ g \notin Gates /\ NumbersFit(Gates \cup {g})
  <2>1. g \in GateRecords
    BY <1>1, <1>3, NewGateIsRecord
  <2>2. g.on = on /\ g.time = time /\ g.number = Cardinality({h \in Gates : h.on = on}) + 1
    BY DEF NewGate
  <2> HIDE DEF on, g
  <2>3. g.number = Cardinality({h \in Gates : h.on = g.on}) + 1
    BY <2>2
  <2> QED
    BY <1>5, <2>1, <2>2, <2>3, NumberOfNewGate
<1>11. WithNewGate(wires, wires', on, g)
  BY <1>1 DEF WithGate, WithNewGate
<1> HIDE DEF on, max, g, lasts
<1>12. /\ GatesOf(wires') = GatesOf(wires) \cup {g}
       /\ AddsGate(g, lasts, GatesOf(wires), OrderOf(wires), OrderOf(wires'))
       /\ DOMAIN wires' = DOMAIN wires
       /\ \A w \in on : wires'[w] # << >> /\ Last(wires'[w]) = g
       /\ \A w \in DOMAIN wires \ on : wires'[w] = wires[w]
  <2> DEFINE W == wires
             W2 == wires'
  <2>1. /\ W \in [DOMAIN W -> Seq(GateRecords)] /\ on \in SUBSET DOMAIN W /\ on # {}
        /\ g \in GateRecords /\ g \notin GatesOf(W) /\ WithNewGate(W, W2, on, g)
    BY <1>2, <1>3, <1>5, <1>10, <1>11
  <2> HIDE DEF W, W2
  <2>2. GoesAfter(W, W2, on, g)
    BY <2>1, GateAdded
  <2> QED
    BY <2>2 DEF W, W2, lasts, GoesAfter
<1>13. Gates' = Gates \cup {g} /\ AddsGate(g, lasts, Gates, WireOrder, WireOrder')
  BY <1>5, <1>12
<1> DEFINE G == Gates
           order == WireOrder
           order2 == WireOrder'
<1>14. \E E2 : IsEnd(E2, Gates \cup {g}, WireOrder') /\ (\A h \in Gates : E2[h] = E[h])
               /\ E2[g] = g.time + LatestOf(E, lasts)
  <2>1. IsEnd(E, G, order) /\ IsFiniteSet(G) /\ AddsGate(g, lasts, G, order, order2)
    BY <1>4, <1>5, <1>13
  <2> HIDE DEF G, order, order2
  <2>2. \E E2 : IsEnd(E2, G \cup {g}, order2) /\ (\A h \in G : E2[h] = E[h])
                /\ E2[g] = g.time + LatestOf(E, lasts)
    BY <2>1, EndOfNewGate
  <2> QED
    BY <2>2 DEF G, order, order2
<1>15. \E r2 : IsRank(r2, Gates \cup {g}, WireOrder')
  <2>1. IsRank(r, G, order) /\ IsFiniteSet(G) /\ AddsGate(g, lasts, G, order, order2)
    BY <1>4, <1>5, <1>13
  <2> HIDE DEF G, order, order2
  <2>2. \E r2 : IsRank(r2, G \cup {g}, order2)
    BY <2>1, RankOfNewGate
  <2> QED
    BY <2>2 DEF G, order, order2
<1>16. PICK E2 : IsEnd(E2, Gates \cup {g}, WireOrder') /\ (\A h \in Gates : E2[h] = E[h])
                 /\ E2[g] = g.time + LatestOf(E, lasts)
  BY <1>14
<1>17. PICK r2 : IsRank(r2, Gates \cup {g}, WireOrder')
  BY <1>15
<1>18. E2[g] = max + time
  BY <1>1, <1>7, <1>9, <1>10, <1>16
<1>19. EndsAt(E, E2, on, max + time)
  <2>1. ASSUME NEW w \in DOMAIN wires
        PROVE  EndOn(E2, wires', w) = IF w \in on THEN max + time ELSE EndOn(E, wires, w)
    <3>1. CASE w \in on
      BY <1>12, <1>18, <3>1 DEF EndOn
    <3>2. CASE w \notin on
      <4>1. wires'[w] = wires[w]
        BY <1>12, <3>2
      <4>2. wires[w] # << >> => Last(wires[w]) \in Gates
        BY <1>2, <1>5, WireMeaning
      <4> QED
        BY <1>16, <3>2, <4>1, <4>2 DEF EndOn
    <3> QED
      BY <3>1, <3>2
  <2> QED
    BY <1>12, <2>1 DEF EndsAt
<1>20. /\ TimesAreEnds(E2)'
       /\ \A o \in DOMAIN metrics :
            AvailableAt(o)' = IF Wire(o) \in on THEN max + time ELSE AvailableAt(o)
  BY <1>1, <1>4, <1>8, <1>19, TimesFollow DEF on
<1>21. EndsFit(E2, r2)'
  BY <1>13, <1>16, <1>17, <1>20 DEF EndsFit
<1>22. GateEnds(E, E2, objects)
  <2>1. \A h \in Gates : h \in Gates' /\ E2[h] = E[h]
    BY <1>13, <1>16
  <2>2. ASSUME NEW o \in DOMAIN metrics
        PROVE  AvailableAt(o)' \in Nat /\ AvailableAt(o) <= AvailableAt(o)'
    <3>1. CASE Wire(o) \in on
      <4>1. PICK q \in objects : Wire(o) = Wire(q)
        BY <3>1 DEF on, WiresFor
      <4>2. AvailableAt(o) = AvailableAt(q) /\ AvailableAt(q) <= max /\ AvailableAt(q) \in Nat
        BY <1>1, <1>6, <1>7, <4>1
      <4> QED
        BY <1>1, <1>7, <1>20, <3>1, <4>2
    <3>2. CASE Wire(o) \notin on
      BY <1>6, <1>20, <3>2
    <3> QED
      BY <3>1, <3>2
  <2>3. ASSUME NEW h \in Gates'
        PROVE  h \in Gates \/ \E o \in objects : E2[h] = AvailableAt(o)'
    <3>1. CASE h = g
      <4>1. PICK o \in objects : TRUE
        OBVIOUS
      <4>2. Wire(o) \in on /\ o \in DOMAIN metrics
        BY <1>1, <4>1 DEF on, WiresFor
      <4>3. E2[h] = AvailableAt(o)'
        BY <1>18, <1>20, <3>1, <4>2
      <4> QED
        BY <4>3
    <3> QED
      BY <1>13, <3>1
  <2> QED
    BY <2>1, <2>2, <2>3 DEF GateEnds
<1>23. NumbersFit(Gates')
  BY <1>10, <1>13
<1> QED
  BY <1>21, <1>22, <1>23

-----------------------------------------------------------------------------
(* The qubits of a call and of those it has made.                           *)

\* What frame k of s was given and what blocks it and the frames above it have open.
ScopeOf(s, k) ==
    s[k].inputs \cup UNION {ObjectsAt(s, p) : p \in {q \in Places(s) : k <= q[1]}}

\* A call is given qubits of its caller's, so they are from every scope around it.
InputsWithin(s) == \A k \in DOMAIN s, m \in DOMAIN s : k <= m =>
    \A o \in s[m].inputs :
        o \in s[k].inputs \/ \E p \in Places(s) : k <= p[1] /\ p[1] < m /\ o \in ObjectsAt(s, p)

LEMMA ScopeMeaning ==
    ASSUME NEW s, NEW k, NEW o
    PROVE  o \in ScopeOf(s, k) <=>
             o \in s[k].inputs \/ \E p \in Places(s) : k <= p[1] /\ o \in ObjectsAt(s, p)
BY DEF ScopeOf

LEMMA ScopeWhenGrown ==
    ASSUME NEW s, NEW s2, NEW p0, NEW b, Grows(s, s2, p0, b), InputsWithin(s)
    PROVE  InputsWithin(s2) /\ \A k \in DOMAIN s : ScopeOf(s, k) \subseteq ScopeOf(s2, k)
<1>1. /\ DOMAIN s2 = DOMAIN s /\ Places(s) \subseteq Places(s2)
      /\ \A p \in Places(s) : ObjectsAt(s2, p) = ObjectsAt(s, p)
      /\ \A k \in DOMAIN s : s2[k].inputs = s[k].inputs
  BY DEF Grows, ObjectsAt
<1>2. InputsWithin(s2)
  BY <1>1 DEF InputsWithin
<1>3. ASSUME NEW k \in DOMAIN s, NEW o \in ScopeOf(s, k)
      PROVE  o \in ScopeOf(s2, k)
  BY <1>1, ScopeMeaning
<1> QED
  BY <1>2, <1>3

LEMMA ScopeWhenShrunk ==
    ASSUME NEW s, WellFounded(s), NEW s2, NEW gone, Shrinks(s, s2, gone), InputsWithin(s)
    PROVE  /\ InputsWithin(s2)
           /\ \A k \in DOMAIN s2 : \A o \in ScopeOf(s, k) :
                o \in ScopeOf(s2, k) \/ \E p \in gone : o \in ObjectsAt(s, p)
<1>1. /\ DOMAIN s2 \subseteq DOMAIN s /\ Places(s2) = Places(s) \ gone
      /\ \A p \in gone : p[1] = Len(s)
      /\ \A p \in Places(s2) : ObjectsAt(s2, p) = ObjectsAt(s, p)
      /\ \A k \in DOMAIN s2 : s2[k].inputs = s[k].inputs
  BY DEF Shrinks, ObjectsAt
<1>2. DOMAIN s = 1 .. Len(s) /\ Len(s) \in Nat
  BY LenProperties DEF WellFounded
<1>3. ASSUME NEW k \in DOMAIN s2, NEW m \in DOMAIN s2, k <= m, NEW o \in s2[m].inputs
      PROVE  \/ o \in s2[k].inputs
             \/ \E p \in Places(s2) : k <= p[1] /\ p[1] < m /\ o \in ObjectsAt(s2, p)
  <2>1. k \in DOMAIN s /\ m \in DOMAIN s /\ o \in s[m].inputs /\ s2[k].inputs = s[k].inputs
    BY <1>1
  <2>2. CASE o \in s[k].inputs
    BY <2>1, <2>2
  <2>3. CASE o \notin s[k].inputs
    <3>1. PICK p \in Places(s) : k <= p[1] /\ p[1] < m /\ o \in ObjectsAt(s, p)
      BY <1>3, <2>1, <2>3 DEF InputsWithin
    <3>2. p[1] \in 1 .. Len(s)
      BY PlaceMeaning
    <3>3. p[1] # Len(s)
      BY <1>2, <2>1, <3>1, <3>2
    <3>4. p \in Places(s2)
      BY <1>1, <3>3
    <3> QED
      BY <1>1, <3>1, <3>4
  <2> QED
    BY <2>2, <2>3
<1>4. ASSUME NEW k \in DOMAIN s2, NEW o \in ScopeOf(s, k)
      PROVE  o \in ScopeOf(s2, k) \/ \E p \in gone : o \in ObjectsAt(s, p)
  BY <1>1, ScopeMeaning
<1> QED
  BY <1>3, <1>4 DEF InputsWithin

LEMMA ScopeWhenCalled ==
    ASSUME NEW s, WellFounded(s), NEW s2, NEW inputs, Calls(s, s2, inputs),
           inputs \subseteq Reached(s, Len(s)), InputsWithin(s)
    PROVE  InputsWithin(s2) /\ \A k \in DOMAIN s : ScopeOf(s, k) \subseteq ScopeOf(s2, k)
<1>1. /\ DOMAIN s2 = 1 .. Len(s) + 1 /\ Places(s2) = Places(s)
      /\ \A p \in Places(s) : ObjectsAt(s2, p) = ObjectsAt(s, p)
      /\ \A k \in DOMAIN s : s2[k].inputs = s[k].inputs
      /\ s2[Len(s) + 1].inputs = inputs
  BY DEF Calls, ObjectsAt
<1>2. DOMAIN s = 1 .. Len(s) /\ Len(s) \in Nat /\ Len(s) > 0
  BY LenProperties DEF WellFounded
<1>3. ASSUME NEW k \in DOMAIN s2, NEW m \in DOMAIN s2, k <= m, NEW o \in s2[m].inputs
      PROVE  \/ o \in s2[k].inputs
             \/ \E p \in Places(s2) : k <= p[1] /\ p[1] < m /\ o \in ObjectsAt(s2, p)
  <2>1. CASE k = Len(s) + 1
    <3>1. m = k
      BY <1>1, <1>2, <1>3, <2>1
    <3> QED
      BY <1>3, <3>1
  <2>2. CASE k # Len(s) + 1 /\ m # Len(s) + 1
    <3>1. k \in DOMAIN s /\ m \in DOMAIN s
      BY <1>1, <1>2, <2>2
    <3> QED
      BY <1>1, <1>3, <3>1 DEF InputsWithin
  <2>3. CASE k # Len(s) + 1 /\ m = Len(s) + 1
    <3>1. k \in DOMAIN s /\ Len(s) \in DOMAIN s /\ k <= Len(s) /\ k < m /\ Len(s) < m
      BY <1>1, <1>2, <2>3
    <3>2. o \in Reached(s, Len(s))
      BY <1>1, <1>3, <2>3
    <3>3. CASE o \in s[Len(s)].inputs
      <4>1. CASE o \in s[k].inputs
        BY <1>1, <3>1, <4>1
      <4>2. CASE o \notin s[k].inputs
        <5>1. PICK p \in Places(s) : k <= p[1] /\ p[1] < Len(s) /\ o \in ObjectsAt(s, p)
          BY <3>1, <3>3, <4>2 DEF InputsWithin
        <5>2. p[1] \in 1 .. Len(s)
          BY PlaceMeaning
        <5>3. p[1] < m
          BY <1>2, <2>3, <5>1, <5>2
        <5> QED
          BY <1>1, <5>1, <5>3
      <4> QED
        BY <4>1, <4>2
    <3>4. CASE o \notin s[Len(s)].inputs
      <4>1. PICK p \in Places(s) : p[1] = Len(s) /\ o \in ObjectsAt(s, p)
        BY <3>2, <3>4, ReachedMeaning
      <4> QED
        BY <1>1, <3>1, <4>1
    <3> QED
      BY <3>3, <3>4
  <2> QED
    BY <2>1, <2>2, <2>3
<1>4. ASSUME NEW k \in DOMAIN s, NEW o \in ScopeOf(s, k)
      PROVE  o \in ScopeOf(s2, k)
  BY <1>1, ScopeMeaning
<1> QED
  BY <1>3, <1>4 DEF InputsWithin

\* What the program may act on is in the scope of every open call.
LEMMA ReachedIsInScope ==
    ASSUME NEW s, WellFounded(s), InputsWithin(s), NEW k \in DOMAIN s
    PROVE  Reached(s, Len(s)) \subseteq ScopeOf(s, k)
<1>1. DOMAIN s = 1 .. Len(s) /\ Len(s) \in Nat /\ Len(s) > 0
  BY LenProperties DEF WellFounded
<1>2. Len(s) \in DOMAIN s /\ k <= Len(s)
  BY <1>1
<1>3. ASSUME NEW o \in Reached(s, Len(s))
      PROVE  o \in ScopeOf(s, k)
  <2>1. CASE o \in s[Len(s)].inputs
    BY <1>2, <2>1, ScopeMeaning DEF InputsWithin
  <2>2. CASE o \notin s[Len(s)].inputs
    <3>1. PICK p \in Places(s) : p[1] = Len(s) /\ o \in ObjectsAt(s, p)
      BY <1>3, <2>2, ReachedMeaning
    <3> QED
      BY <1>2, <3>1, ScopeMeaning
  <2> QED
    BY <2>1, <2>2
<1> QED
  BY <1>3

LEMMA ScopeIsLive ==
    ASSUME NEW s, NEW h, NEW l, StackSound(s, h, l), NEW k \in DOMAIN s
    PROVE  ScopeOf(s, k) \subseteq l
<1>1. ASSUME NEW o \in ScopeOf(s, k)
      PROVE  o \in l
  <2>1. \E p \in Places(s) : o \in ObjectsAt(s, p)
    BY ScopeMeaning DEF StackSound, InputsAreLent
  <2> QED
    BY <2>1 DEF StackSound, BlocksHold
<1> QED
  BY <1>1

LEMMA ScopeOfLast ==
    ASSUME NEW s, WellFounded(s), s[Len(s)].blocks = << >>
    PROVE  ScopeOf(s, Len(s)) = s[Len(s)].inputs
<1>1. DOMAIN s = 1 .. Len(s) /\ Len(s) \in Nat /\ Len(s) > 0
  BY LenProperties DEF WellFounded
<1>2. ASSUME NEW p \in Places(s), Len(s) <= p[1]
      PROVE  FALSE
  <2>1. p[1] \in 1 .. Len(s) /\ p[2] \in 1 .. Len(s[p[1]].blocks)
    BY PlaceMeaning
  <2>2. p[1] = Len(s)
    BY <1>1, <1>2, <2>1
  <2>3. p[2] \in 1 .. 0
    BY <2>1, <2>2, EmptySeq
  <2> QED
    BY <2>3
<1>3. ASSUME NEW o
      PROVE  o \in ScopeOf(s, Len(s)) <=> o \in s[Len(s)].inputs
  BY <1>2, ScopeMeaning
<1> QED
  BY <1>3

-----------------------------------------------------------------------------
(* What calls report.                                                       *)

\* A call's record is at or after the end of g.
Reported(E, g, call) == E[g] <= call.released \/ E[g] <= call.returned

\* The end of g is kept by a record from k on, or by a qubit in the scope of k.
Covered(E, k, g) ==
    \/ \E j \in k .. Len(depthCalls) : Reported(E, g, depthCalls[j])
    \/ \E o \in ScopeOf(frames, k) : E[g] <= AvailableAt(o)

\* The gates since call k began are covered, unless an exception has left their qubits behind.
CallsCover(E) == ~ failing =>
    \A k \in 2 .. Len(depthCalls) : \A g \in Gates \ frames[k].before : Covered(E, k, g)

\* Not later than all gates.
Bounded(E, n) == n = 0 \/ \E g \in Gates : n <= E[g]

RecordFits(E, call) ==
    /\ "max" \in DOMAIN call /\ call.max \in Nat
    /\ "released" \in DOMAIN call /\ call.released \in Nat /\ Bounded(E, call.released)
    /\ "returned" \in DOMAIN call /\ call.returned \in Nat /\ Bounded(E, call.returned)

RecordsFit(E) == \A j \in 1 .. Len(depthCalls) : RecordFits(E, depthCalls[j])

PathInv ==
    /\ NumbersFit(Gates) /\ InputsWithin(frames)
    /\ \E E, r : EndsFit(E, r) /\ CallsCover(E) /\ RecordsFit(E)

\* Records are of the frames from the host on.
LEMMA CallsHaveFrames ==
    ASSUME StateInv, CallInv, WidthInv
    PROVE  /\ Len(depthCalls) \in Nat /\ 0 < Len(depthCalls) /\ Len(depthCalls) <= Top
           /\ DOMAIN depthCalls = 1 .. Len(depthCalls)
           /\ DOMAIN frames = 1 .. Top /\ Top \in Nat /\ Top = Len(frames)
           /\ WellFounded(frames)
           /\ configuration.CallStackDepthLimit \in Nat
           /\ Len(depthCalls) = IF Top <= configuration.CallStackDepthLimit THEN Top
                                ELSE configuration.CallStackDepthLimit + 1
<1>1. /\ Len(depthCalls) = Len(widthCalls) /\ depthCalls \in Seq(Range(depthCalls))
      /\ Len(depthCalls) = IF Top <= configuration.CallStackDepthLimit THEN Top
                           ELSE configuration.CallStackDepthLimit + 1
  BY DEF CallInv
<1>2. DOMAIN depthCalls = 1 .. Len(depthCalls) /\ Len(depthCalls) \in Nat
  BY <1>1, LenProperties
<1>3. WellFounded(frames) /\ Top = Len(frames)
  BY DEF StateInv, StackInv, Top
<1>4. /\ Top \in Nat /\ DOMAIN frames = 1 .. Top /\ Len(widthCalls) \in 1 .. Top
      /\ configuration.CallStackDepthLimit \in Nat
  BY PeaksAreNumbers
<1> QED
  BY <1>1, <1>2, <1>3, <1>4

\* What is in the scope of a call is live.
LEMMA ScopesAreLive ==
    ASSUME StateInv, NEW k \in DOMAIN frames
    PROVE  ScopeOf(frames, k) \subseteq DOMAIN metrics
BY StackInvMeaning, ScopeIsLive DEF StateInv

\* When no record changes, qubits are available no earlier, and new gates end when qubits in
\* every scope are available.
ScopesKeep(E, E2) ==
    /\ depthCalls' = depthCalls /\ (~ failing' => ~ failing)
    /\ \A g \in Gates : g \in Gates' /\ E2[g] = E[g]
    /\ \A k \in 2 .. Len(depthCalls) :
        /\ frames'[k].before = frames[k].before
        /\ \A o \in ScopeOf(frames, k) : /\ o \in ScopeOf(frames', k) /\ AvailableAt(o) \in Nat
                                         /\ AvailableAt(o)' \in Nat
                                         /\ AvailableAt(o) <= AvailableAt(o)'
        /\ \A g \in Gates' : g \in Gates \/ \E o \in ScopeOf(frames', k) : E2[g] <= AvailableAt(o)'

LEMMA BoundStays ==
    ASSUME NEW E, NEW E2, \A g \in Gates : g \in Gates' /\ E2[g] = E[g], NEW n, Bounded(E, n)
    PROVE  Bounded(E2, n)'
BY DEF Bounded

LEMMA RecordStays ==
    ASSUME NEW E, NEW E2, \A g \in Gates : g \in Gates' /\ E2[g] = E[g],
           NEW call, RecordFits(E, call)
    PROVE  RecordFits(E2, call)'
BY BoundStays DEF RecordFits

LEMMA KeepingKeepsCover ==
    ASSUME NEW E, \A g \in Gates : E[g] \in Nat, CallsCover(E), RecordsFit(E),
           NEW E2, ScopesKeep(E, E2)
    PROVE  CallsCover(E2)' /\ RecordsFit(E2)'
<1>1. /\ depthCalls' = depthCalls /\ (~ failing' => ~ failing)
      /\ \A g \in Gates : g \in Gates' /\ E2[g] = E[g]
  BY DEF ScopesKeep
<1>2. ASSUME ~ failing', NEW k \in 2 .. Len(depthCalls), NEW g \in Gates' \ frames'[k].before
      PROVE  Covered(E2, k, g)'
  <2>1. frames'[k].before = frames[k].before
    BY DEF ScopesKeep
  <2>2. CASE g \in Gates
    <3>1. g \in Gates \ frames[k].before /\ E2[g] = E[g] /\ E[g] \in Nat
      BY <1>1, <1>2, <2>1, <2>2
    <3>2. Covered(E, k, g)
      BY <1>1, <1>2, <3>1 DEF CallsCover
    <3>3. CASE \E j \in k .. Len(depthCalls) : Reported(E, g, depthCalls[j])
      BY <1>1, <3>1, <3>3 DEF Covered, Reported
    <3>4. CASE \E o \in ScopeOf(frames, k) : E[g] <= AvailableAt(o)
      <4>1. PICK o \in ScopeOf(frames, k) : E[g] <= AvailableAt(o)
        BY <3>4
      <4>2. /\ o \in ScopeOf(frames', k) /\ AvailableAt(o) \in Nat /\ AvailableAt(o)' \in Nat
            /\ AvailableAt(o) <= AvailableAt(o)'
        BY DEF ScopesKeep
      <4>3. E2[g] <= AvailableAt(o)'
        BY <3>1, <4>1, <4>2
      <4> QED
        BY <4>2, <4>3 DEF Covered
    <3> QED
      BY <3>2, <3>3, <3>4 DEF Covered
  <2>3. CASE g \notin Gates
    <3>1. \E o \in ScopeOf(frames', k) : E2[g] <= AvailableAt(o)'
      BY <2>3 DEF ScopesKeep
    <3> QED
      BY <3>1 DEF Covered
  <2> QED
    BY <2>2, <2>3
<1>3. CallsCover(E2)'
  BY <1>1, <1>2 DEF CallsCover
<1>4. RecordsFit(E2)'
  BY <1>1, RecordStays DEF RecordsFit
<1> QED
  BY <1>3, <1>4

-----------------------------------------------------------------------------
(* Steps without a gate.                                                    *)

\* No gate is added, and qubits that are new are on wires without gates.
GatesStay ==
    /\ configuration' = configuration /\ available' = available
    /\ DOMAIN wires \subseteq DOMAIN wires' /\ \A w \in DOMAIN wires : wires'[w] = wires[w]
    /\ \A w \in DOMAIN wires' : w \in DOMAIN wires \/ wires'[w] = << >>
    /\ \A o \in DOMAIN metrics' :
        \/ o \in DOMAIN metrics /\ metrics'[o] = metrics[o]
        \/ o \notin Numbered /\ metrics'[o].end.depth = 0

LEMMA StayingKeepsEnds ==
    ASSUME ObjectInv, ObjectInv', NEW E, NEW r, EndsFit(E, r), GatesStay
    PROVE  /\ Gates' = Gates /\ EndsFit(E, r)'
           /\ \A o \in DOMAIN metrics : AvailableAt(o) \in Nat
           /\ \A o \in DOMAIN metrics \cap DOMAIN metrics' : AvailableAt(o)' = AvailableAt(o)
<1>1. /\ configuration' = configuration /\ available' = available
      /\ DOMAIN wires \subseteq DOMAIN wires' /\ \A w \in DOMAIN wires : wires'[w] = wires[w]
      /\ \A w \in DOMAIN wires' : w \in DOMAIN wires \/ wires'[w] = << >>
      /\ \A o \in DOMAIN metrics' :
            \/ o \in DOMAIN metrics /\ metrics'[o] = metrics[o]
            \/ o \notin Numbered /\ metrics'[o].end.depth = 0
  BY DEF GatesStay
<1>2. /\ wires \in [DOMAIN wires -> Seq(GateRecords)]
      /\ wires' \in [DOMAIN wires' -> Seq(GateRecords)]
  BY DEF ObjectInv
<1>3. Gates' = Gates /\ WireOrder' = WireOrder
  <2> DEFINE W == wires
             W2 == wires'
  <2>1. /\ W \in [DOMAIN W -> Seq(GateRecords)] /\ W2 \in [DOMAIN W2 -> Seq(GateRecords)]
        /\ DOMAIN W \subseteq DOMAIN W2 /\ \A w \in DOMAIN W : W2[w] = W[w]
        /\ \A w \in DOMAIN W2 : w \in DOMAIN W \/ W2[w] = << >>
    BY <1>1, <1>2
  <2> HIDE DEF W, W2
  <2>2. GatesOf(W2) = GatesOf(W) /\ OrderOf(W2) = OrderOf(W)
    BY <2>1, WiresAdded
  <2> QED
    BY <2>2 DEF W, W2, Gates, GatesOf, WireOrder, OrderOf
<1>4. IsEnd(E, Gates, WireOrder) /\ IsRank(r, Gates, WireOrder) /\ TimesAreEnds(E)
  BY DEF EndsFit
<1>5. \A w \in DOMAIN wires' :
        EndOn(E, wires', w) = IF w \in DOMAIN wires THEN EndOn(E, wires, w) ELSE 0
  BY <1>1 DEF EndOn
<1>6. OptimizeDepth' = OptimizeDepth
  BY <1>1 DEF OptimizeDepth
<1>7. TimesAreEnds(E)'
  <2>1. CASE OptimizeDepth
    <3>1. ASSUME NEW o \in DOMAIN metrics'
          PROVE  metrics'[o].end.depth = EndOn(E, wires', o)
      <4>1. o \in DOMAIN wires'
        BY <1>6, <2>1 DEF ObjectInv, Wire
      <4>2. CASE o \in DOMAIN metrics /\ metrics'[o] = metrics[o]
        <5>1. o \in DOMAIN wires /\ metrics[o].end.depth = EndOn(E, wires, o)
          BY <1>4, <2>1, <4>2 DEF ObjectInv, Wire, TimesAreEnds
        <5> QED
          BY <1>5, <4>1, <4>2, <5>1
      <4>3. CASE o \notin Numbered /\ metrics'[o].end.depth = 0
        <5>1. o \notin DOMAIN wires
          BY <2>1, <4>3 DEF Numbered
        <5> QED
          BY <1>5, <4>1, <4>3, <5>1
      <4> QED
        BY <1>1, <4>2, <4>3
    <3> QED
      BY <1>6, <2>1, <3>1 DEF TimesAreEnds
  <2>2. CASE ~ OptimizeDepth
    <3>1. /\ available \in Seq(Nat)
          /\ \A id \in Nat :
                TimeOf(available, id) = IF id \in DOMAIN wires THEN EndOn(E, wires, id) ELSE 0
      BY <1>4, <2>2 DEF TimesAreEnds
    <3>2. \A id \in Nat :
            TimeOf(available', id) = IF id \in DOMAIN wires' THEN EndOn(E, wires', id) ELSE 0
      BY <1>1, <1>5, <3>1
    <3> QED
      BY <1>1, <1>6, <2>2, <3>1, <3>2 DEF TimesAreEnds
  <2> QED
    BY <2>1, <2>2
<1>8. EndsFit(E, r)'
  BY <1>3, <1>4, <1>7 DEF EndsFit
<1>9. \A o \in DOMAIN metrics : AvailableAt(o) \in Nat
  BY <1>4, AvailableIsEnd DEF IsEnd
<1>10. ASSUME NEW o \in DOMAIN metrics \cap DOMAIN metrics'
       PROVE  AvailableAt(o)' = AvailableAt(o)
  <2>1. o \in Numbered
    BY LiveIsNumbered
  <2>2. metrics'[o] = metrics[o]
    BY <1>1, <2>1
  <2> QED
    BY <1>1, <1>6, <2>2 DEF AvailableAt
<1> QED
  BY <1>3, <1>8, <1>9, <1>10

\* Records, calls and what is in their scopes stay; there may be more in it.
ScopesStay ==
    /\ depthCalls' = depthCalls /\ (~ failing' => ~ failing)
    /\ DOMAIN metrics \subseteq DOMAIN metrics' /\ InputsWithin(frames')
    /\ \A k \in DOMAIN frames \cap DOMAIN frames' :
        /\ frames'[k].before = frames[k].before
        /\ ~ failing' => ScopeOf(frames, k) \subseteq ScopeOf(frames', k)
    /\ ~ failing' => \A k \in 2 .. Len(depthCalls) : k \in DOMAIN frames'

LEMMA StayingKeepsPath ==
    ASSUME Inv, ObjectInv', PathInv, GatesStay, ScopesStay
    PROVE  PathInv'
<1>1. ObjectInv /\ StateInv
  BY DEF Inv, StateInv
<1>2. PICK E, r : EndsFit(E, r) /\ CallsCover(E) /\ RecordsFit(E)
  BY DEF PathInv
<1>3. /\ Gates' = Gates /\ EndsFit(E, r)'
      /\ \A o \in DOMAIN metrics : AvailableAt(o) \in Nat
      /\ \A o \in DOMAIN metrics \cap DOMAIN metrics' : AvailableAt(o)' = AvailableAt(o)
  BY <1>1, <1>2, StayingKeepsEnds
<1>4. /\ depthCalls' = depthCalls /\ (~ failing' => ~ failing)
      /\ DOMAIN metrics \subseteq DOMAIN metrics' /\ InputsWithin(frames')
  BY DEF ScopesStay
<1>5. NumbersFit(Gates)' /\ InputsWithin(frames)'
  BY <1>3, <1>4 DEF PathInv, NumbersFit
<1>6. RecordsFit(E)'
  BY <1>2, <1>3, <1>4 DEF RecordsFit, RecordFits, Bounded
<1>7. ASSUME ~ failing', NEW k \in 2 .. Len(depthCalls), NEW g \in Gates' \ frames'[k].before
      PROVE  Covered(E, k, g)'
  <2>1. k \in DOMAIN frames \cap DOMAIN frames'
    <3>1. /\ Len(depthCalls) \in Nat /\ Len(depthCalls) <= Top /\ Top \in Nat
          /\ DOMAIN frames = 1 .. Top
      BY CallsHaveFrames DEF Inv
    <3> QED
      BY <1>7, <3>1 DEF ScopesStay
  <2>2. frames'[k].before = frames[k].before /\ ScopeOf(frames, k) \subseteq ScopeOf(frames', k)
    BY <1>7, <2>1 DEF ScopesStay
  <2>3. Covered(E, k, g)
    BY <1>2, <1>3, <1>4, <1>7, <2>2 DEF CallsCover
  <2>4. CASE \E j \in k .. Len(depthCalls) : Reported(E, g, depthCalls[j])
    BY <1>4, <2>4 DEF Covered, Reported
  <2>5. CASE \E o \in ScopeOf(frames, k) : E[g] <= AvailableAt(o)
    <3>1. PICK o \in ScopeOf(frames, k) : E[g] <= AvailableAt(o)
      BY <2>5
    <3>2. o \in DOMAIN metrics /\ o \in DOMAIN metrics'
      BY <1>1, <1>4, <2>1, <3>1, ScopesAreLive
    <3>3. AvailableAt(o)' = AvailableAt(o)
      BY <1>3, <3>2
    <3> QED
      BY <2>2, <3>1, <3>3 DEF Covered
  <2> QED
    BY <2>3, <2>4, <2>5 DEF Covered
<1>8. CallsCover(E)'
  BY <1>4, <1>7 DEF CallsCover
<1> QED
  BY <1>3, <1>5, <1>6, <1>8 DEF PathInv

\* A step that changes neither calls nor gates nor qubits, unless it throws.
LEMMA QuietKeepsPath ==
    ASSUME Inv, Inv', PathInv, UNCHANGED <<configuration, depthVars, frames, wires>>,
           ~ failing' => ~ failing
    PROVE  PathInv'
<1>1. /\ configuration' = configuration /\ available' = available /\ metrics' = metrics
      /\ depthCalls' = depthCalls /\ wires' = wires /\ frames' = frames
  BY DEF depthVars
<1>2. GatesStay
  BY <1>1 DEF GatesStay
<1>3. InputsWithin(frames)
  BY DEF PathInv
<1>4. \A k \in 2 .. Len(depthCalls) : k \in DOMAIN frames
  <2>1. /\ Len(depthCalls) \in Nat /\ Len(depthCalls) <= Top /\ Top \in Nat
        /\ DOMAIN frames = 1 .. Top
    BY CallsHaveFrames DEF Inv
  <2> QED
    BY <2>1
<1>5. ScopesStay
  BY <1>1, <1>3, <1>4 DEF ScopesStay
<1> QED
  BY <1>2, <1>5, StayingKeepsPath DEF Inv, StateInv

\* Opening and closing blocks leaves what was before a call alone.
LEMMA OpenedBefore ==
    ASSUME WellFounded(frames), NEW kind, NEW objects, NEW lent, NEW inUse,
           NEW k \in DOMAIN frames
    PROVE  Opened(kind, objects, lent, inUse)[k].before = frames[k].before
<1>1. DOMAIN frames = 1 .. Top /\ frames[k] \in FrameRecords
  BY LenProperties, ElementOfSeq DEF WellFounded, Top
<1> QED
  BY <1>1 DEF Opened, FrameRecords

LEMMA ClosedBefore ==
    ASSUME WellFounded(frames), NEW k \in DOMAIN frames
    PROVE  Closed[k].before = frames[k].before
<1>1. frames[k] \in FrameRecords
  BY LenProperties, ElementOfSeq DEF WellFounded
<1> QED
  BY <1>1 DEF Closed, FrameRecords

LEMMA OpenKeepsPath ==
    ASSUME Inv, Inv', PathInv, NEW kind, NEW ids, NEW lent, OpensBlock(kind, ids, lent),
           depthCalls' = depthCalls, available' = available
    PROVE  PathInv'
<1> DEFINE new == Created(ids)
<1>1. /\ DOMAIN metrics' = DOMAIN metrics \cup new
      /\ \A o \in new : metrics'[o] = NewTracingData
      /\ \A o \in DOMAIN metrics : metrics'[o] = metrics[o]
      /\ Grows(frames, frames', NextPlace, Block(kind, new, lent))
  BY OpeningKeepsState DEF Inv
<1>2. /\ configuration' = configuration /\ failing' = failing /\ wires' = Wired(new)
      /\ frames' = Opened(kind, new, lent, DOMAIN held') /\ ids \in SUBSET Nat
  BY DEF OpensBlock
<1>3. new \cap Numbered = {}
  BY <1>2, CreatedMeaning DEF Inv, StateInv
<1> HIDE DEF new
<1>4. NewTracingData.end.depth = 0
  BY DEF NewTracingData, Zero, Time
<1>5. GatesStay
  <2>1. /\ DOMAIN wires \subseteq DOMAIN wires' /\ \A w \in DOMAIN wires : wires'[w] = wires[w]
        /\ \A w \in DOMAIN wires' : w \in DOMAIN wires \/ wires'[w] = << >>
    BY <1>2 DEF Wired
  <2>2. \A o \in DOMAIN metrics' :
            \/ o \in DOMAIN metrics /\ metrics'[o] = metrics[o]
            \/ o \notin Numbered /\ metrics'[o].end.depth = 0
    BY <1>1, <1>3, <1>4
  <2> QED
    BY <1>2, <2>1, <2>2 DEF GatesStay
<1>6. /\ InputsWithin(frames') /\ DOMAIN frames' = DOMAIN frames
      /\ \A k \in DOMAIN frames : ScopeOf(frames, k) \subseteq ScopeOf(frames', k)
  <2> DEFINE s == frames
             s2 == frames'
             b == Block(kind, new, lent)
             p0 == NextPlace
  <2>1. Grows(s, s2, p0, b) /\ InputsWithin(s) /\ DOMAIN s2 = DOMAIN s
    BY <1>1 DEF PathInv, Grows
  <2> HIDE DEF s, s2, b, p0
  <2>2. InputsWithin(s2) /\ \A k \in DOMAIN s : ScopeOf(s, k) \subseteq ScopeOf(s2, k)
    BY <2>1, ScopeWhenGrown
  <2> QED
    BY <2>1, <2>2 DEF s, s2
<1>7. \A k \in DOMAIN frames : frames'[k].before = frames[k].before
  <2> DEFINE inUse == DOMAIN held'
  <2>1. WellFounded(frames) /\ frames' = Opened(kind, new, lent, inUse)
    BY <1>2 DEF Inv, StateInv, StackInv
  <2> HIDE DEF inUse
  <2>2. ASSUME NEW u, NEW k \in DOMAIN frames
        PROVE  Opened(kind, new, lent, u)[k].before = frames[k].before
    BY <2>1, OpenedBefore
  <2> QED
    BY <2>1, <2>2
<1>8. \A k \in 2 .. Len(depthCalls) : k \in DOMAIN frames
  <2>1. /\ Len(depthCalls) \in Nat /\ Len(depthCalls) <= Top /\ Top \in Nat
        /\ DOMAIN frames = 1 .. Top
    BY CallsHaveFrames DEF Inv
  <2> QED
    BY <2>1
<1>9. ScopesStay
  BY <1>1, <1>2, <1>6, <1>7, <1>8 DEF ScopesStay
<1> QED
  BY <1>5, <1>9, StayingKeepsPath DEF Inv, StateInv

LEMMA GateKeepsPath ==
    ASSUME Inv, PathInv, NEW n, NEW objects \in kSubset(n, Reach), NEW time \in Nat,
           DoPrimitiveOperation(objects, time), configuration' = configuration
    PROVE  PathInv'
<1>1. TimeInv /\ ObjectInv /\ StateInv /\ WellFounded(frames)
  BY DEF Inv, StateInv, StackInv
<1>2. /\ wires' = WithGate(WiresFor(objects), time) /\ DepthGate(objects, time)
      /\ frames' = frames /\ failing' = failing /\ depthCalls' = depthCalls
  BY DEF DoPrimitiveOperation, WiresFor, DepthGate
<1>3. objects \in SUBSET Reach /\ objects \subseteq DOMAIN metrics /\ IsFiniteSet(objects)
  <2>1. objects \in SUBSET Reach
    BY DEF kSubset
  <2> QED
    BY <1>1, <2>1, ReachIsLive, FS_Subset
<1>4. DOMAIN metrics' = DOMAIN metrics
  BY PrimitiveStep
<1>5. TimesGate(objects, time)
  BY <1>2, <1>3, <1>4 DEF TimesGate
<1>6. PICK E, r : EndsFit(E, r) /\ CallsCover(E) /\ RecordsFit(E)
  BY DEF PathInv
<1>7. NumbersFit(Gates') /\ \E E2, r2 : EndsFit(E2, r2)' /\ GateEnds(E, E2, objects)
  <2>1. NumbersFit(Gates)
    BY DEF PathInv
  <2>2. CASE objects = {}
    <3>1. Gates' = Gates /\ EndsFit(E, r)' /\ GateEnds(E, E, {})
      BY <1>1, <1>5, <1>6, <2>2, NoGateKeepsEnds
    <3> QED
      BY <2>1, <2>2, <3>1
  <2>3. CASE objects # {}
    BY <1>1, <1>5, <1>6, <2>1, <2>3, GateKeepsEnds
  <2> QED
    BY <2>2, <2>3
<1>8. PICK E2, r2 : EndsFit(E2, r2)' /\ GateEnds(E, E2, objects)
  BY <1>7
<1>9. \A g \in Gates : E[g] \in Nat
  BY <1>6 DEF EndsFit, IsEnd
<1>10. ScopesKeep(E, E2)
  <2>1. \A g \in Gates : g \in Gates' /\ E2[g] = E[g]
    BY <1>8 DEF GateEnds
  <2>2. ASSUME NEW k \in 2 .. Len(depthCalls)
        PROVE  /\ k \in DOMAIN frames /\ ScopeOf(frames, k) \subseteq DOMAIN metrics
               /\ objects \subseteq ScopeOf(frames, k)
    <3>1. /\ Len(depthCalls) \in Nat /\ Len(depthCalls) <= Top /\ Top \in Nat
          /\ DOMAIN frames = 1 .. Top /\ Top = Len(frames)
      BY CallsHaveFrames DEF Inv
    <3>2. k \in DOMAIN frames
      BY <3>1
    <3>3. Reach \subseteq ScopeOf(frames, k)
      BY <1>1, <3>1, <3>2, ReachIsReached, ReachedIsInScope DEF PathInv
    <3> QED
      BY <1>1, <1>3, <3>2, <3>3, ScopesAreLive
  <2>3. ASSUME NEW o \in DOMAIN metrics
        PROVE  /\ AvailableAt(o) \in Nat /\ AvailableAt(o)' \in Nat
               /\ AvailableAt(o) <= AvailableAt(o)'
    <3>1. AvailableAt(o)' \in Nat /\ AvailableAt(o) <= AvailableAt(o)'
      BY <1>8 DEF GateEnds
    <3>2. AvailableAt(o) \in Nat
      BY <1>1, <1>6, <1>9, AvailableIsEnd DEF EndsFit
    <3> QED
      BY <3>1, <3>2
  <2>4. ASSUME NEW g \in Gates', g \notin Gates
        PROVE  \E o \in objects : E2[g] = AvailableAt(o)' /\ AvailableAt(o)' \in Nat
    BY <1>3, <1>8, <2>3, <2>4 DEF GateEnds
  <2>5. ASSUME NEW k \in 2 .. Len(depthCalls), NEW g \in Gates', g \notin Gates
        PROVE  \E o \in ScopeOf(frames', k) : E2[g] <= AvailableAt(o)'
    <3>1. PICK o \in objects : E2[g] = AvailableAt(o)' /\ AvailableAt(o)' \in Nat
      BY <2>4, <2>5
    <3>2. o \in ScopeOf(frames', k)
      BY <1>2, <2>2
    <3>3. E2[g] <= AvailableAt(o)'
      BY <3>1
    <3> QED
      BY <3>2, <3>3
  <2> QED
    BY <1>2, <2>1, <2>2, <2>3, <2>5 DEF ScopesKeep
<1>11. CallsCover(E2)' /\ RecordsFit(E2)'
  BY <1>6, <1>9, <1>10, KeepingKeepsCover
<1>12. InputsWithin(frames)'
  BY <1>2 DEF PathInv
<1> QED
  BY <1>7, <1>8, <1>11, <1>12 DEF PathInv

-----------------------------------------------------------------------------
(* Records that change.                                                     *)

\* The record d reports what c does, and no more than all gates.
Reports(E, c, d) ==
    /\ RecordFits(E, d)
    /\ c.released <= d.released /\ c.returned <= d.returned

LEMMA ReportedStays ==
    ASSUME NEW E, NEW g, E[g] \in Nat, NEW c, RecordFits(E, c), NEW d, Reports(E, c, d),
           Reported(E, g, c)
    PROVE  Reported(E, g, d)
<1>1. c.released \in Nat /\ c.returned \in Nat /\ d.released \in Nat /\ d.returned \in Nat
  BY DEF RecordFits, Reports
<1> QED
  BY <1>1 DEF Reported, Reports

\* The later of two times that fit.
LEMMA LaterOfTwo ==
    ASSUME NEW E, NEW a \in Nat, Bounded(E, a), NEW b \in Nat, Bounded(E, b)
    PROVE  /\ Max({a, b}) \in Nat /\ Bounded(E, Max({a, b}))
           /\ a <= Max({a, b}) /\ b <= Max({a, b})
<1> DEFINE m == Max({a, b})
<1>1. m = IF a >= b THEN a ELSE b
  BY MaxOfTwo
<1> HIDE DEF m
<1>2. m \in Nat /\ a <= m /\ b <= m /\ Bounded(E, m)
  BY <1>1
<1> QED
  BY <1>2 DEF m

\* When the last of some qubits is available is not later than all gates.
LEMMA MaxAvailableFits ==
    ASSUME ObjectInv, NEW E, NEW r, EndsFit(E, r), NEW objects \in SUBSET DOMAIN metrics,
           IsFiniteSet(objects)
    PROVE  /\ MaxAvailableTime(objects) \in Nat /\ Bounded(E, MaxAvailableTime(objects))
           /\ \A o \in objects : AvailableAt(o) <= MaxAvailableTime(objects)
<1>1. \A g \in Gates : E[g] \in Nat
  BY DEF EndsFit, IsEnd
<1>2. \A o \in objects : /\ AvailableAt(o) \in Nat
                         /\ AvailableAt(o) = 0 \/ \E g \in Gates : AvailableAt(o) = E[g]
  BY <1>1, AvailableIsEnd DEF EndsFit
<1>3. /\ MaxAvailableTime(objects) \in Nat
      /\ \A o \in objects : AvailableAt(o) <= MaxAvailableTime(objects)
      /\ \/ MaxAvailableTime(objects) = 0
         \/ \E o \in objects : MaxAvailableTime(objects) = AvailableAt(o)
  BY <1>2, MaxAvailableMeaning
<1>4. Bounded(E, MaxAvailableTime(objects))
  BY <1>1, <1>2, <1>3 DEF Bounded
<1> QED
  BY <1>3, <1>4

\* What a release or a return does to the record of its call, of qubits available at m.
RecordsTime(c, d, m) ==
    \/ d = [c EXCEPT !.released = Max({@, m})]
    \/ d = [c EXCEPT !.returned = Max({@, m})]

LEMMA RecordGrows ==
    ASSUME NEW E, NEW c, RecordFits(E, c), NEW m \in Nat, Bounded(E, m),
           NEW d, RecordsTime(c, d, m)
    PROVE  Reports(E, c, d) /\ (m <= d.released \/ m <= d.returned)
<1>1. /\ "max" \in DOMAIN c /\ c.max \in Nat
      /\ "released" \in DOMAIN c /\ c.released \in Nat /\ Bounded(E, c.released)
      /\ "returned" \in DOMAIN c /\ c.returned \in Nat /\ Bounded(E, c.returned)
  BY DEF RecordFits
<1>2. PICK a \in Nat : a = Max({c.released, m}) /\ Bounded(E, a) /\ c.released <= a /\ m <= a
  BY <1>1, LaterOfTwo
<1>3. PICK b \in Nat : b = Max({c.returned, m}) /\ Bounded(E, b) /\ c.returned <= b /\ m <= b
  BY <1>1, LaterOfTwo
<1>4. CASE d = [c EXCEPT !.released = Max({@, m})]
  <2>1. d = [c EXCEPT !.released = a]
    BY <1>2, <1>4
  <2>2. d.released = a /\ d.max = c.max /\ d.returned = c.returned /\ DOMAIN d = DOMAIN c
    BY <1>1, <2>1
  <2>3. RecordFits(E, d)
    BY <1>1, <1>2, <2>2 DEF RecordFits
  <2> QED
    BY <1>1, <1>2, <2>2, <2>3 DEF Reports
<1>5. CASE d = [c EXCEPT !.returned = Max({@, m})]
  <2>1. d = [c EXCEPT !.returned = b]
    BY <1>3, <1>5
  <2>2. d.returned = b /\ d.max = c.max /\ d.released = c.released /\ DOMAIN d = DOMAIN c
    BY <1>1, <2>1
  <2>3. RecordFits(E, d)
    BY <1>1, <1>3, <2>2 DEF RecordFits
  <2> QED
    BY <1>1, <1>3, <2>2, <2>3 DEF Reports
<1> QED
  BY <1>4, <1>5 DEF RecordsTime

\* What a call hands to its caller when it ends.
LEMMA CallerReports ==
    ASSUME NEW E, NEW c, RecordFits(E, c), NEW d, RecordFits(E, d)
    PROVE  Reports(E, c, ToCaller(c, d)) /\ Reports(E, d, ToCaller(c, d))
<1>1. /\ "max" \in DOMAIN c /\ c.max \in Nat
      /\ "released" \in DOMAIN c /\ c.released \in Nat /\ Bounded(E, c.released)
      /\ "returned" \in DOMAIN c /\ c.returned \in Nat /\ Bounded(E, c.returned)
      /\ d.released \in Nat /\ Bounded(E, d.released)
      /\ d.returned \in Nat /\ Bounded(E, d.returned)
  BY DEF RecordFits
<1>2. PICK a \in Nat : /\ a = Max({c.released, d.released}) /\ Bounded(E, a)
                       /\ c.released <= a /\ d.released <= a
  BY <1>1, LaterOfTwo
<1>3. PICK b \in Nat : /\ b = Max({c.returned, d.returned}) /\ Bounded(E, b)
                       /\ c.returned <= b /\ d.returned <= b
  BY <1>1, LaterOfTwo
<1> DEFINE e == ToCaller(c, d)
<1>4. e.released = a /\ e.returned = b /\ e.max = c.max /\ DOMAIN e = DOMAIN c
  BY <1>1, <1>2, <1>3 DEF ToCaller
<1> HIDE DEF e
<1>5. RecordFits(E, e)
  BY <1>1, <1>2, <1>3, <1>4 DEF RecordFits
<1>6. Reports(E, c, e) /\ Reports(E, d, e)
  BY <1>1, <1>2, <1>3, <1>4, <1>5 DEF Reports
<1> QED
  BY <1>6 DEF e

\* The last record reports the qubits that are given up.
LEMMA CloseKeepsPath ==
    ASSUME Inv, ObjectInv', PathInv, NEW kind, ClosesBlock(kind), available' = available,
           NEW d, depthCalls' = [depthCalls EXCEPT ![Len(depthCalls)] = d],
           RecordsTime(depthCalls[Len(depthCalls)], d,
                       MaxAvailableTime(Last(frames[Top].blocks).objects))
    PROVE  PathInv'
<1> DEFINE objects == Last(frames[Top].blocks).objects
           m == MaxAvailableTime(objects)
           n == Len(depthCalls)
           c == depthCalls[n]
<1>1. /\ ~ failing /\ frames[Top].blocks # << >> /\ frames' = Closed
      /\ configuration' = configuration /\ failing' = failing /\ wires' = wires
  BY DEF ClosesBlock, HasBlock, InOperation
<1>2. /\ objects \subseteq DOMAIN metrics /\ DOMAIN metrics' = DOMAIN metrics \ objects
      /\ \A o \in DOMAIN metrics' : metrics'[o] = metrics[o]
      /\ Shrinks(frames, frames', {LastPlace})
      /\ ObjectsAt(frames, LastPlace) = objects
  BY ClosingKeepsState DEF Inv
<1>3. IsFiniteSet(objects)
  BY <1>1, LastBlockMeaning DEF Inv
<1>4. /\ n \in Nat /\ n > 0 /\ n <= Top /\ DOMAIN depthCalls = 1 .. n
      /\ DOMAIN frames = 1 .. Top /\ Top \in Nat /\ WellFounded(frames)
  BY CallsHaveFrames DEF Inv
<1> HIDE DEF objects
<1>5. ObjectInv /\ StateInv
  BY DEF Inv, StateInv
<1>6. PICK E, r : EndsFit(E, r) /\ CallsCover(E) /\ RecordsFit(E)
  BY DEF PathInv
<1>7. GatesStay
  BY <1>1, <1>2 DEF GatesStay
<1>8. /\ Gates' = Gates /\ EndsFit(E, r)'
      /\ \A o \in DOMAIN metrics \cap DOMAIN metrics' : AvailableAt(o)' = AvailableAt(o)
  BY <1>5, <1>6, <1>7, StayingKeepsEnds
<1>9. m \in Nat /\ Bounded(E, m) /\ \A o \in objects : AvailableAt(o) <= m
  BY <1>2, <1>3, <1>5, <1>6, MaxAvailableFits
<1>10. \A g \in Gates : E[g] \in Nat
  BY <1>6 DEF EndsFit, IsEnd
<1>11. \A o \in objects : AvailableAt(o) \in Nat
  BY <1>2, <1>5, <1>6, <1>10, AvailableIsEnd DEF EndsFit
<1>12. RecordFits(E, c)
  BY <1>4, <1>6 DEF RecordsFit
<1>13. RecordsTime(c, d, m)
  BY DEF objects
<1> HIDE DEF m, c
<1>14. Reports(E, c, d) /\ (m <= d.released \/ m <= d.returned)
  BY <1>9, <1>12, <1>13, RecordGrows
<1>15. /\ Len(depthCalls') = n
       /\ \A j \in 1 .. n : depthCalls'[j] = IF j = n THEN d ELSE depthCalls[j]
  <2>1. depthCalls \in Seq(Range(depthCalls))
    BY DEF Inv, CallInv
  <2> QED
    BY <1>4, <2>1
<1>16. RecordsFit(E)'
  <2>1. ASSUME NEW j \in 1 .. n
        PROVE  RecordFits(E, depthCalls'[j])
    <3>1. CASE j = n
      BY <1>14, <1>15, <3>1 DEF Reports
    <3>2. CASE j # n
      BY <1>6, <1>15, <3>2 DEF RecordsFit
    <3> QED
      BY <3>1, <3>2
  <2>2. \A j \in 1 .. n : RecordFits(E, depthCalls'[j])
    BY <2>1
  <2> QED
    BY <1>8, <1>15, <2>2 DEF RecordsFit, RecordFits, Bounded
<1>17. /\ InputsWithin(frames')
       /\ \A k \in DOMAIN frames' : \A o \in ScopeOf(frames, k) : o \in ScopeOf(frames', k) \/ o \in objects
       /\ DOMAIN frames' = DOMAIN frames
  <2> DEFINE s == frames
             s2 == frames'
             gone == {LastPlace}
  <2>1. WellFounded(s) /\ Shrinks(s, s2, gone) /\ InputsWithin(s)
    BY <1>2, <1>4 DEF PathInv
  <2>2. DOMAIN s2 = DOMAIN s
    BY <1>1 DEF Closed
  <2> HIDE DEF s, s2, gone
  <2>3. /\ InputsWithin(s2)
        /\ \A k \in DOMAIN s2 : \A o \in ScopeOf(s, k) :
            o \in ScopeOf(s2, k) \/ \E p \in gone : o \in ObjectsAt(s, p)
    BY <2>1, ScopeWhenShrunk
  <2> QED
    BY <1>2, <2>2, <2>3 DEF s, s2, gone
<1>18. ASSUME NEW k \in 2 .. n, NEW g \in Gates' \ frames'[k].before
       PROVE  Covered(E, k, g)'
  <2>1. k \in DOMAIN frames /\ n \in k .. n /\ \A j \in k .. n : j \in 1 .. n
    BY <1>4
  <2>2. frames'[k].before = frames[k].before
    BY <1>1, <1>4, <2>1, ClosedBefore
  <2>3. g \in Gates /\ E[g] \in Nat /\ Covered(E, k, g)
    BY <1>1, <1>6, <1>8, <1>10, <2>2 DEF CallsCover
  <2>4. CASE \E j \in k .. n : Reported(E, g, depthCalls[j])
    <3>1. PICK j \in k .. n : Reported(E, g, depthCalls[j])
      BY <2>4
    <3>2. Reported(E, g, depthCalls'[j])
      <4>1. CASE j = n
        <5>1. Reported(E, g, c)
          BY <3>1, <4>1 DEF c
        <5>2. Reported(E, g, d)
          BY <1>12, <1>14, <2>3, <5>1, ReportedStays
        <5> QED
          BY <1>15, <2>1, <4>1, <5>2
      <4>2. CASE j # n
        BY <1>15, <2>1, <3>1, <4>2
      <4> QED
        BY <4>1, <4>2
    <3> QED
      BY <1>15, <3>2 DEF Covered, Reported
  <2>5. CASE \E o \in ScopeOf(frames, k) : E[g] <= AvailableAt(o)
    <3>1. PICK o \in ScopeOf(frames, k) : E[g] <= AvailableAt(o)
      BY <2>5
    <3>2. CASE o \in objects
      <4>1. E[g] <= m /\ d.released \in Nat /\ d.returned \in Nat
        BY <1>9, <1>11, <1>14, <2>3, <3>1, <3>2 DEF Reports, RecordFits
      <4>2. E[g] <= d.released \/ E[g] <= d.returned
        BY <1>9, <1>14, <2>3, <4>1
      <4>3. depthCalls'[n] = d
        BY <1>15, <2>1
      <4> QED
        BY <1>15, <2>1, <4>2, <4>3 DEF Covered, Reported
    <3>3. CASE o \notin objects
      <4>1. o \in ScopeOf(frames', k)
        BY <1>17, <2>1, <3>3
      <4>2. o \in DOMAIN metrics /\ o \in DOMAIN metrics'
        BY <1>2, <1>5, <2>1, <3>3, ScopesAreLive
      <4>3. AvailableAt(o)' = AvailableAt(o)
        BY <1>8, <4>2
      <4> QED
        BY <3>1, <4>1, <4>3 DEF Covered
    <3> QED
      BY <3>2, <3>3
  <2> QED
    BY <2>3, <2>4, <2>5 DEF Covered
<1>19. CallsCover(E)'
  BY <1>15, <1>18 DEF CallsCover
<1>20. NumbersFit(Gates)' /\ InputsWithin(frames)'
  BY <1>8, <1>17 DEF PathInv, NumbersFit
<1> QED
  BY <1>8, <1>16, <1>19, <1>20 DEF PathInv

\* A call that begins has made no gates.
LEMMA StartKeepsPath ==
    ASSUME Inv, Inv', PathInv, NEW inputs, OpensCall(inputs),
           IF Recorded(Top) THEN DepthStart(inputs) ELSE UNCHANGED depthVars
    PROVE  PathInv'
<1> DEFINE n == Len(depthCalls)
           d == CallRecord(inputs, MinAvailableTime(inputs), MaxAvailableTime(inputs))
<1>1. /\ ~ failing /\ failing' = failing /\ inputs \subseteq Reach
      /\ metrics' = metrics /\ wires' = wires /\ configuration' = configuration
  BY DEF OpensCall, ObjectsStay
<1>2. /\ Len(frames') = Len(frames) + 1
      /\ \A k \in DOMAIN frames : frames'[k] = frames[k]
      /\ frames'[Len(frames) + 1] = Frame(inputs)
      /\ Calls(frames, frames', inputs)
  BY CallKeepsState DEF Inv
<1>3. /\ n \in Nat /\ n > 0 /\ n <= Top /\ DOMAIN depthCalls = 1 .. n
      /\ DOMAIN frames = 1 .. Top /\ Top \in Nat /\ WellFounded(frames) /\ Top = Len(frames)
      /\ configuration.CallStackDepthLimit \in Nat
      /\ n = IF Top <= configuration.CallStackDepthLimit THEN Top
             ELSE configuration.CallStackDepthLimit + 1
  BY CallsHaveFrames DEF Inv
<1>4. /\ InputsWithin(frames') /\ DOMAIN frames' = 1 .. Top + 1
      /\ \A k \in DOMAIN frames : ScopeOf(frames, k) \subseteq ScopeOf(frames', k)
  <2> DEFINE s == frames
             s2 == frames'
  <2>1. inputs \subseteq Reached(s, Len(s))
    BY <1>1, <1>3, ReachIsReached
  <2>2. WellFounded(s) /\ Calls(s, s2, inputs) /\ InputsWithin(s)
    BY <1>2, <1>3 DEF PathInv
  <2>3. DOMAIN s2 = 1 .. Len(s) + 1
    BY <2>2 DEF Calls
  <2> HIDE DEF s, s2
  <2>4. InputsWithin(s2) /\ \A k \in DOMAIN s : ScopeOf(s, k) \subseteq ScopeOf(s2, k)
    BY <2>1, <2>2, ScopeWhenCalled
  <2> QED
    BY <1>3, <2>3, <2>4 DEF s, s2
<1>5. ObjectInv /\ ObjectInv' /\ StateInv
  BY DEF Inv, StateInv
<1>6. available' = available
  BY DEF DepthStart, depthVars
<1>7. GatesStay
  BY <1>1, <1>6 DEF GatesStay
<1>8. CASE ~ Recorded(Top)
  <2>1. depthCalls' = depthCalls
    BY <1>8 DEF depthVars
  <2>2. \A k \in 2 .. Len(depthCalls) : k \in DOMAIN frames'
    BY <1>3, <1>4
  <2>3. ScopesStay
    BY <1>1, <1>2, <1>4, <2>1, <2>2 DEF ScopesStay
  <2> QED
    BY <1>5, <1>7, <2>3, StayingKeepsPath
<1>9. CASE Recorded(Top)
  <2>1. n = Top /\ depthCalls' = Append(depthCalls, d)
    BY <1>3, <1>9 DEF Recorded, DepthStart
  <2>2. PICK E, r : EndsFit(E, r) /\ CallsCover(E) /\ RecordsFit(E)
    BY DEF PathInv
  <2>3. /\ Gates' = Gates /\ EndsFit(E, r)'
        /\ \A o \in DOMAIN metrics \cap DOMAIN metrics' : AvailableAt(o)' = AvailableAt(o)
    BY <1>5, <1>7, <2>2, StayingKeepsEnds
  <2>4. RecordFits(E, d)
    <3>1. inputs \in SUBSET DOMAIN metrics /\ IsFiniteSet(inputs)
      BY <1>1, <1>5, ReachIsLive, FS_Subset
    <3>2. MaxAvailableTime(inputs) \in Nat
      BY <1>5, <2>2, <3>1, MaxAvailableFits
    <3> QED
      BY <3>2 DEF RecordFits, CallRecord, Bounded
  <2> HIDE DEF d
  <2>5. /\ Len(depthCalls') = n + 1 /\ depthCalls'[n + 1] = d
        /\ \A j \in 1 .. n : depthCalls'[j] = depthCalls[j]
    <3>1. depthCalls \in Seq(Range(depthCalls))
      BY DEF Inv, CallInv
    <3> DEFINE S == Range(depthCalls) \cup {d}
    <3>2. depthCalls \in Seq(S) /\ d \in S
      BY <3>1
    <3> HIDE DEF S
    <3> QED
      BY <2>1, <3>2, AppendProperties
  <2>6. RecordsFit(E)'
    <3>1. \A j \in 1 .. n + 1 : RecordFits(E, depthCalls'[j])
      <4> TAKE j \in 1 .. n + 1
      <4>1. CASE j = n + 1
        BY <2>4, <2>5, <4>1
      <4>2. CASE j # n + 1
        <5>1. j \in 1 .. n
          BY <1>3, <4>2
        <5> QED
          BY <2>2, <2>5, <5>1 DEF RecordsFit
      <4> QED
        BY <4>1, <4>2
    <3> QED
      BY <2>3, <2>5, <3>1 DEF RecordsFit, RecordFits, Bounded
  <2>7. ASSUME NEW k \in 2 .. n + 1, NEW g \in Gates' \ frames'[k].before
        PROVE  Covered(E, k, g)'
    <3>1. CASE k = n + 1
      <4>1. frames'[k].before = Gates
        BY <1>2, <1>3, <2>1, <3>1 DEF Frame
      <4> QED
        BY <2>3, <2>7, <4>1
    <3>2. CASE k # n + 1
      <4>1. /\ k \in 2 .. n /\ k \in DOMAIN frames
            /\ \A j \in k .. n : j \in 1 .. n /\ j \in k .. n + 1
        BY <1>3, <3>2
      <4>2. Covered(E, k, g)
        BY <1>1, <1>2, <2>2, <2>3, <2>7, <4>1 DEF CallsCover
      <4>3. CASE \E j \in k .. n : Reported(E, g, depthCalls[j])
        BY <2>5, <4>1, <4>3 DEF Covered, Reported
      <4>4. CASE \E o \in ScopeOf(frames, k) : E[g] <= AvailableAt(o)
        <5>1. PICK o \in ScopeOf(frames, k) : E[g] <= AvailableAt(o)
          BY <4>4
        <5>2. o \in DOMAIN metrics /\ o \in ScopeOf(frames', k)
          BY <1>4, <1>5, <4>1, <5>1, ScopesAreLive
        <5>3. AvailableAt(o)' = AvailableAt(o)
          BY <1>1, <2>3, <5>2
        <5> QED
          BY <5>1, <5>2, <5>3 DEF Covered
      <4> QED
        BY <4>2, <4>3, <4>4 DEF Covered
    <3> QED
      BY <3>1, <3>2
  <2>8. CallsCover(E)'
    BY <2>5, <2>7 DEF CallsCover
  <2>9. NumbersFit(Gates)' /\ InputsWithin(frames)'
    BY <1>4, <2>3 DEF PathInv, NumbersFit
  <2> QED
    BY <2>3, <2>6, <2>8, <2>9 DEF PathInv
<1> QED
  BY <1>8, <1>9

\* The record that a call's record is kept in when the innermost call ends, the caller's for both.
EndsRecords(E) ==
    LET n == Len(depthCalls')
        kept(j) == IF j <= n THEN j ELSE n IN
    /\ n \in Nat /\ n > 0 /\ n <= Len(depthCalls)
    /\ \A j \in 1 .. Len(depthCalls) :
        kept(j) \in 1 .. n /\ Reports(E, depthCalls[j], depthCalls'[kept(j)])

LEMMA EndReports ==
    ASSUME Inv, ClosesCall, NEW E, RecordsFit(E),
           IF Recorded(Top - 1) THEN DepthEnd ELSE UNCHANGED depthVars
    PROVE  EndsRecords(E)
<1> DEFINE n == Len(depthCalls)
<1>1. /\ n \in Nat /\ n > 0 /\ n <= Top /\ DOMAIN depthCalls = 1 .. n /\ Top \in Nat
      /\ configuration.CallStackDepthLimit \in Nat
      /\ n = IF Top <= configuration.CallStackDepthLimit THEN Top
             ELSE configuration.CallStackDepthLimit + 1
  BY CallsHaveFrames DEF Inv
<1>2. Top > 1
  BY DEF ClosesCall
<1>3. ASSUME NEW j \in 1 .. n
      PROVE  /\ RecordFits(E, depthCalls[j]) /\ depthCalls[j].released \in Nat
             /\ depthCalls[j].returned \in Nat /\ Reports(E, depthCalls[j], depthCalls[j])
  <2>1. RecordFits(E, depthCalls[j])
    BY DEF RecordsFit
  <2>2. depthCalls[j].released \in Nat /\ depthCalls[j].returned \in Nat
    BY <2>1 DEF RecordFits
  <2> QED
    BY <2>1, <2>2 DEF Reports
<1>4. CASE ~ Recorded(Top - 1)
  <2>1. depthCalls' = depthCalls
    BY <1>4 DEF depthVars
  <2> QED
    BY <1>1, <1>3, <2>1 DEF EndsRecords
<1>5. CASE Recorded(Top - 1)
  <2>1. n = Top
    BY <1>1, <1>2, <1>5 DEF Recorded
  <2>2. PICK m \in Nat : m = n - 1
    <3>1. n - 1 \in Nat
      BY <1>1
    <3> QED
      BY <3>1
  <2>3. m >= 1 /\ m + 1 = n /\ m \in 1 .. n /\ n \in 1 .. n /\ depthCalls # << >>
    BY <1>1, <1>2, <2>1, <2>2
  <2>4. depthCalls \in Seq(Range(depthCalls))
    BY DEF Inv, CallInv
  <2>5. /\ Front(depthCalls) \in Seq(Range(depthCalls)) /\ Len(Front(depthCalls)) = m
        /\ \A j \in 1 .. m : Front(depthCalls)[j] = depthCalls[j]
    BY <2>2, <2>3, <2>4, FrontMeaning
  <2> DEFINE d == ToCaller(depthCalls[m], depthCalls[n])
  <2>6. depthCalls' = [Front(depthCalls) EXCEPT ![m] = d]
    <3>1. DepthEnd
      BY <1>5
    <3>2. Front(depthCalls)[m] = depthCalls[m]
      BY <2>3, <2>5
    <3> QED
      BY <2>2, <3>1, <3>2 DEF DepthEnd
  <2>7. Reports(E, depthCalls[m], d) /\ Reports(E, depthCalls[n], d)
    BY <1>3, <2>3, CallerReports
  <2> HIDE DEF d
  <2>8. /\ Len(depthCalls') = m
        /\ \A j \in 1 .. m : depthCalls'[j] = IF j = m THEN d ELSE depthCalls[j]
    BY <2>5, <2>6
  <2>9. ASSUME NEW j \in 1 .. n
        PROVE  LET i == IF j <= m THEN j ELSE m IN
               i \in 1 .. m /\ Reports(E, depthCalls[j], depthCalls'[i])
    <3>1. CASE j < m
      <4>1. j \in 1 .. m /\ j # m /\ j <= m
        BY <2>3, <3>1
      <4> QED
        BY <1>3, <2>8, <4>1
    <3>2. CASE j = m
      <4>1. j \in 1 .. m /\ j <= m
        BY <2>3, <3>2
      <4> QED
        BY <2>7, <2>8, <3>2, <4>1
    <3>3. CASE j = n
      <4>1. m \in 1 .. m /\ ~ (j <= m)
        BY <2>3, <3>3
      <4> QED
        BY <2>7, <2>8, <3>3, <4>1
    <3>4. j < m \/ j = m \/ j = n
      BY <2>3
    <3> QED
      BY <3>1, <3>2, <3>3, <3>4
  <2> QED
    BY <2>3, <2>8, <2>9 DEF EndsRecords
<1> QED
  BY <1>4, <1>5

\* The gates of a call that ends are its caller's.
LEMMA EndKeepsPath ==
    ASSUME Inv, Inv', PathInv, EndOfCall, ClosesCall
    PROVE  PathInv'
<1> DEFINE n == Len(depthCalls)
           n2 == Len(depthCalls')
           limit == configuration.CallStackDepthLimit
<1>1. /\ Top > 1 /\ metrics' = metrics /\ wires' = wires /\ configuration' = configuration
      /\ \/ frames[Top].blocks = << >> /\ ~ failing
         \/ failing /\ (failing' <=> Top > 2)
  BY DEF ClosesCall, ObjectsStay
<1>2. available' = available /\ IF Recorded(Top - 1) THEN DepthEnd ELSE UNCHANGED depthVars
  BY DEF EndOfCall, DepthEnd, depthVars
<1>3. /\ Len(frames') = Len(frames) - 1
      /\ \A k \in DOMAIN frames' : frames'[k] = frames[k]
      /\ Shrinks(frames, frames', LastBlocks)
  BY EndKeepsState DEF Inv
<1>4. /\ n \in Nat /\ n > 0 /\ n <= Top
      /\ DOMAIN frames = 1 .. Top /\ Top \in Nat /\ WellFounded(frames) /\ Top = Len(frames)
      /\ limit \in Nat
  BY CallsHaveFrames DEF Inv
<1>5. /\ DOMAIN frames' = 1 .. Top - 1
      /\ n2 = IF Top - 1 <= limit THEN Top - 1 ELSE limit + 1
  <2>1. WellFounded(frames') /\ Top' = Len(frames')
    BY DEF Inv, StateInv, StackInv, Top
  <2>2. DOMAIN frames' = 1 .. Len(frames')
    BY <2>1, LenProperties DEF WellFounded
  <2>3. n2 = IF Top' <= configuration'.CallStackDepthLimit THEN Top'
             ELSE configuration'.CallStackDepthLimit + 1
    BY DEF Inv, CallInv
  <2> QED
    BY <1>1, <1>3, <1>4, <2>1, <2>2, <2>3
<1>6. n2 <= Top - 1 /\ n2 \in Nat
  <2>1. Top \in Nat /\ Top > 1 /\ limit \in Nat
    BY <1>1, <1>4
  <2>2. n2 = IF Top - 1 <= limit THEN Top - 1 ELSE limit + 1
    BY <1>5
  <2> HIDE DEF n2, limit
  <2> QED
    BY <2>1, <2>2
<1>7. /\ InputsWithin(frames')
      /\ \A k \in DOMAIN frames' : \A o \in ScopeOf(frames, k) :
            o \in ScopeOf(frames', k) \/ \E p \in LastBlocks : o \in ObjectsAt(frames, p)
  <2> DEFINE s == frames
             s2 == frames'
             gone == LastBlocks
  <2>1. WellFounded(s) /\ Shrinks(s, s2, gone) /\ InputsWithin(s)
    BY <1>3, <1>4 DEF PathInv
  <2> HIDE DEF s, s2, gone
  <2>2. /\ InputsWithin(s2)
        /\ \A k \in DOMAIN s2 : \A o \in ScopeOf(s, k) :
            o \in ScopeOf(s2, k) \/ \E p \in gone : o \in ObjectsAt(s, p)
    BY <2>1, ScopeWhenShrunk
  <2> QED
    BY <2>2 DEF s, s2, gone
<1>8. ObjectInv /\ ObjectInv' /\ StateInv
  BY DEF Inv, StateInv
<1>9. PICK E, r : EndsFit(E, r) /\ CallsCover(E) /\ RecordsFit(E)
  BY DEF PathInv
<1>10. GatesStay
  BY <1>1, <1>2 DEF GatesStay
<1>11. /\ Gates' = Gates /\ EndsFit(E, r)'
       /\ \A o \in DOMAIN metrics \cap DOMAIN metrics' : AvailableAt(o)' = AvailableAt(o)
  BY <1>8, <1>9, <1>10, StayingKeepsEnds
<1>12. \A g \in Gates : E[g] \in Nat
  BY <1>9 DEF EndsFit, IsEnd
<1>13. /\ n2 \in Nat /\ n2 > 0 /\ n2 <= n
       /\ \A j \in 1 .. n : LET i == IF j <= n2 THEN j ELSE n2 IN
            i \in 1 .. n2 /\ Reports(E, depthCalls[j], depthCalls'[i])
  <2>1. EndsRecords(E)
    BY <1>2, <1>9, EndReports
  <2> QED
    BY <2>1 DEF EndsRecords
<1>14. RecordsFit(E)'
  <2>1. \A j \in 1 .. n2 : RecordFits(E, depthCalls'[j])
    <3> TAKE j \in 1 .. n2
    <3>1. j \in 1 .. n /\ j <= n2
      BY <1>4, <1>13
    <3> QED
      BY <1>13, <3>1 DEF Reports
  <2> QED
    BY <1>11, <2>1 DEF RecordsFit, RecordFits, Bounded
<1>15. ASSUME ~ failing', NEW k \in 2 .. n2, NEW g \in Gates' \ frames'[k].before
       PROVE  Covered(E, k, g)'
  <2>1. frames[Top].blocks = << >> /\ ~ failing
    <3>1. CASE failing
      <4>1. Top = 2
        BY <1>1, <1>4, <1>15, <3>1
      <4>2. n2 <= 1
        BY <1>6, <4>1
      <4> QED
        BY <1>6, <1>15, <4>2
    <3> QED
      BY <1>1, <3>1
  <2>2. /\ k \in DOMAIN frames' /\ k \in DOMAIN frames /\ k \in 2 .. n
        /\ \A j \in k .. n : j \in 1 .. n
    <3>1. k \in DOMAIN frames' /\ k \in DOMAIN frames
      <4>1. DOMAIN frames' = 1 .. Top - 1 /\ DOMAIN frames = 1 .. Top /\ Top \in Nat
        BY <1>4, <1>5
      <4> HIDE DEF n2
      <4> QED
        BY <1>6, <4>1
    <3>2. n \in Nat /\ n2 \in Nat /\ n2 <= n
      BY <1>4, <1>13
    <3> HIDE DEF n, n2
    <3> QED
      BY <3>1, <3>2
  <2>3. frames'[k] = frames[k]
    BY <1>3, <2>2
  <2>4. g \in Gates /\ E[g] \in Nat /\ Covered(E, k, g)
    BY <1>9, <1>11, <1>12, <2>1, <2>2, <2>3 DEF CallsCover
  <2>5. CASE \E j \in k .. n : Reported(E, g, depthCalls[j])
    <3>1. PICK j \in k .. n : Reported(E, g, depthCalls[j])
      BY <2>5
    <3> DEFINE i == IF j <= n2 THEN j ELSE n2
    <3>2. i \in 1 .. n2 /\ Reports(E, depthCalls[j], depthCalls'[i])
      BY <1>13, <2>2
    <3>3. i \in k .. n2
      BY <1>13, <2>2
    <3> HIDE DEF i
    <3>4. RecordFits(E, depthCalls[j])
      BY <1>9, <2>2 DEF RecordsFit
    <3>5. Reported(E, g, depthCalls'[i])
      BY <2>4, <3>1, <3>2, <3>4, ReportedStays
    <3> QED
      BY <3>3, <3>5 DEF Covered, Reported
  <2>6. CASE \E o \in ScopeOf(frames, k) : E[g] <= AvailableAt(o)
    <3>1. PICK o \in ScopeOf(frames, k) : E[g] <= AvailableAt(o)
      BY <2>6
    <3>2. \A p \in LastBlocks : o \notin ObjectsAt(frames, p)
      <4> TAKE p \in LastBlocks
      <4>1. p \in Places(frames) /\ p[1] = Top
        BY <1>4 DEF LastBlocks
      <4>2. p[2] \in 1 .. Len(frames[Top].blocks)
        BY <1>4, <4>1, PlaceMeaning
      <4>3. p[2] \in 1 .. 0
        BY <2>1, <4>2, EmptySeq
      <4> QED
        BY <4>3
    <3>3. o \in ScopeOf(frames', k)
      BY <1>7, <2>2, <3>2
    <3>4. o \in DOMAIN metrics
      BY <1>8, <2>2, ScopesAreLive
    <3>5. AvailableAt(o)' = AvailableAt(o)
      BY <1>1, <1>11, <3>4
    <3> QED
      BY <3>1, <3>3, <3>5 DEF Covered
  <2> QED
    BY <2>4, <2>5, <2>6 DEF Covered
<1>16. CallsCover(E)'
  BY <1>15 DEF CallsCover
<1>17. NumbersFit(Gates)' /\ InputsWithin(frames)'
  BY <1>7, <1>11 DEF PathInv, NumbersFit
<1> QED
  BY <1>11, <1>14, <1>16, <1>17 DEF PathInv

-----------------------------------------------------------------------------
(* Every run.                                                               *)

LEMMA InitialPath ==
    ASSUME Init
    PROVE  PathInv
<1>1. /\ DOMAIN wires = {} /\ DOMAIN metrics = {} /\ available = << >>
      /\ DOMAIN frames = {1} /\ frames[1].inputs = {}
      /\ Len(depthCalls) = 1
      /\ depthCalls[1] = [inputs |-> {}, min |-> 0, max |-> 0, released |-> 0, returned |-> 0,
                          maxQubitId |-> -1]
  BY DEF Init, DepthInit
<1>2. Gates = {} /\ WireOrder = {}
  BY <1>1 DEF Gates, WireOrder
<1> DEFINE E == [g \in {} |-> 0]
<1>3. IsEnd(E, Gates, WireOrder) /\ IsRank(E, Gates, WireOrder)
  BY <1>2 DEF IsEnd, IsRank
<1>4. TimesAreEnds(E)
  <2>1. CASE OptimizeDepth
    BY <1>1, <2>1 DEF TimesAreEnds
  <2>2. CASE ~ OptimizeDepth
    <3>1. available \in Seq(Nat) /\ Len(available) = 0
      BY <1>1
    <3>2. \A id \in Nat : TimeOf(available, id) = 0
      BY <3>1 DEF TimeOf
    <3> QED
      BY <1>1, <2>2, <3>1, <3>2 DEF TimesAreEnds
  <2> QED
    BY <2>1, <2>2
<1>5. CallsCover(E)
  BY <1>1 DEF CallsCover
<1>6. RecordsFit(E)
  BY <1>1 DEF RecordsFit, RecordFits, Bounded
<1>7. NumbersFit(Gates) /\ InputsWithin(frames)
  BY <1>1, <1>2 DEF NumbersFit, InputsWithin
<1> HIDE DEF E
<1> QED
  BY <1>3, <1>4, <1>5, <1>6, <1>7 DEF PathInv, EndsFit

LEMMA BlocksKeepPath ==
    ASSUME Inv, Inv', PathInv, configuration' = configuration, NEW n \in Nat,
           Allocate(n) \/ Borrow(n) \/ Release \/ Return
    PROVE  PathInv'
<1>1. CASE Allocate(n)
  <2>1. PICK ids \in NewIds(n) : OpensBlock("use", ids, 0) /\ DepthAllocate(Created(ids))
    BY <1>1, AllocateOpens
  <2> QED
    BY <2>1, OpenKeepsPath DEF DepthAllocate
<1>2. CASE Borrow(n)
  <2>1. PICK lent, new : LendsIds(n, lent, new)
    BY <1>2, BorrowOpens
  <2>2. /\ OpensBlock("borrow", lent \cup new, Cardinality(lent))
        /\ DepthBorrow(Created(lent \cup new))
    BY <2>1 DEF LendsIds
  <2> QED
    BY <2>2, OpenKeepsPath DEF DepthBorrow
<1> DEFINE c == depthCalls[Len(depthCalls)]
           m == MaxAvailableTime(Last(frames[Top].blocks).objects)
<1>3. CASE Release
  <2> DEFINE d == [c EXCEPT !.released = Max({@, m})]
  <2>1. ClosesBlock("use") /\ DepthRelease(Last(frames[Top].blocks).objects)
    BY <1>3, ReleaseCloses DEF Release
  <2>2. depthCalls' = [depthCalls EXCEPT ![Len(depthCalls)] = d] /\ available' = available
    BY <2>1 DEF DepthRelease
  <2>3. RecordsTime(c, d, m)
    BY DEF RecordsTime
  <2> HIDE DEF d
  <2> QED
    BY <2>1, <2>2, <2>3, CloseKeepsPath DEF Inv, StateInv
<1>4. CASE Return
  <2> DEFINE d == [c EXCEPT !.returned = Max({@, m})]
  <2>1. ClosesBlock("borrow") /\ DepthReturn(Last(frames[Top].blocks).objects)
    BY <1>4, ReturnCloses DEF Return
  <2>2. depthCalls' = [depthCalls EXCEPT ![Len(depthCalls)] = d] /\ available' = available
    BY <2>1 DEF DepthReturn
  <2>3. RecordsTime(c, d, m)
    BY DEF RecordsTime
  <2> HIDE DEF d
  <2> QED
    BY <2>1, <2>2, <2>3, CloseKeepsPath DEF Inv, StateInv
<1> QED
  BY <1>1, <1>2, <1>3, <1>4

LEMMA OthersKeepPath ==
    ASSUME Inv, Inv', PathInv, configuration' = configuration,
           \/ Gate \/ Measure \/ AssertProb \/ ForceMeasure
           \/ OnOperationStart \/ OnOperationEnd \/ OnFail \/ Unwind
    PROVE  PathInv'
<1>1. CASE Gate
  <2>1. PICK kind \in configuration.GateTimes : \E objects \in kSubset(kind[1], Reach) :
            DoPrimitiveOperation(objects, kind[2])
    BY <1>1 DEF Gate
  <2>2. kind[2] \in Nat
    <3>1. configuration \in Configurations
      BY DEF Inv, StateInv, TypeInv
    <3> QED
      BY <3>1, ConstantsAssumption
  <2> QED
    BY <2>1, <2>2, GateKeepsPath
<1>2. CASE Measure
  <2>1. PICK n \in {1, 2} : \E objects \in kSubset(n, Reach) :
            DoPrimitiveOperation(objects, MeasureTime)
    BY <1>2 DEF Measure
  <2>2. MeasureTime \in Nat
    BY ConstantsAssumption
  <2> QED
    BY <2>1, <2>2, GateKeepsPath
<1>3. CASE AssertProb \/ ForceMeasure
  <2>1. UNCHANGED <<configuration, depthVars, frames, wires>> /\ failing' = failing
    BY <1>3 DEF AssertProb, ForceMeasure
  <2> QED
    BY <2>1, QuietKeepsPath
<1>4. CASE OnFail
  <2>1. UNCHANGED <<configuration, depthVars, frames, wires>> /\ failing' = TRUE
    BY <1>4 DEF OnFail
  <2> QED
    BY <2>1, QuietKeepsPath
<1>5. CASE OnOperationStart
  <2>1. PICK inputs \in SUBSET Reach :
            /\ ~ failing /\ frames' = Append(frames, Frame(inputs))
            /\ IF Recorded(Top) THEN DepthStart(inputs) /\ WidthStart(Cardinality(inputs))
               ELSE UNCHANGED <<depthVars, widthVars>>
            /\ UNCHANGED <<held, fresh, failing, wires>>
    BY <1>5 DEF OnOperationStart
  <2>2. IF Recorded(Top) THEN DepthStart(inputs) ELSE UNCHANGED depthVars
    BY <2>1
  <2>3. metrics' = metrics
    BY <2>2 DEF DepthStart, depthVars
  <2>4. OpensCall(inputs)
    BY <2>1, <2>3 DEF OpensCall, ObjectsStay
  <2> QED
    BY <2>2, <2>4, StartKeepsPath
<1>6. CASE OnOperationEnd
  BY <1>6, OperationEndCloses, EndKeepsPath
<1>7. CASE Unwind
  BY <1>7, UnwindCloses, EndKeepsPath
<1> QED
  BY <1>1, <1>2, <1>3, <1>4, <1>5, <1>6, <1>7

LEMMA StepKeepsPath ==
    ASSUME Inv, Inv', PathInv, [Next]_vars
    PROVE  PathInv'
<1>1. CASE UNCHANGED vars
  <2>1. UNCHANGED <<configuration, depthVars, frames, wires>> /\ failing' = failing
    BY <1>1 DEF vars
  <2> QED
    BY <2>1, QuietKeepsPath
<1>2. CASE configuration' = configuration /\ \E n \in Nat : Allocate(n) \/ Borrow(n) \/ Release \/ Return
  BY <1>2, BlocksKeepPath
<1>3. CASE /\ configuration' = configuration
           /\ \/ Gate \/ Measure \/ AssertProb \/ ForceMeasure
              \/ OnOperationStart \/ OnOperationEnd \/ OnFail \/ Unwind
  BY <1>3, OthersKeepPath
<1>4. 0 \in Nat /\ \A k : k \in 1 .. configuration.MaxRequest \/ k \in 1 .. configuration.MaxBorrow => k \in Nat
  OBVIOUS
<1> QED
  BY <1>1, <1>2, <1>3, <1>4 DEF Next

\* What the invariant says of the depths that are reported.
LEMMA PathsMatch ==
    ASSUME Inv, PathInv
    PROVE  DepthIsCriticalPath
<1> DEFINE end == EarliestEnd(WireOrder)
           endOf(w) == IF wires[w] = << >> THEN 0 ELSE end[Last(wires[w])]
<1>1. ObjectInv /\ StateInv /\ WellFounded(frames) /\ wires \in [DOMAIN wires -> Seq(GateRecords)]
  BY DEF Inv, StateInv, StackInv, ObjectInv
<1>2. PICK E, r : EndsFit(E, r) /\ CallsCover(E) /\ RecordsFit(E)
  BY DEF PathInv
<1>3. /\ IsEnd(E, Gates, WireOrder) /\ IsRank(r, Gates, WireOrder) /\ TimesAreEnds(E)
      /\ \A g \in Gates : E[g] \in Nat
  BY <1>2 DEF EndsFit, IsEnd
<1>4. IsFiniteSet(Gates) /\ Gates = GatesOf(wires) /\ Gates \subseteq GateRecords
  BY <1>1, GatesAreFinite, GatesAreGatesOf, WiresMeaning
<1>5. \A g \in Gates : end[g] = E[g]
  <2>1. \A g \in Gates : g.time \in Nat
    BY <1>4 DEF GateRecords
  <2> QED
    BY <1>3, <1>4, <2>1, EarliestIsEnd
<1> HIDE DEF end
<1>6. ASSUME NEW o \in DOMAIN metrics
      PROVE  AvailableAt(o) = endOf(Wire(o))
  <2>1. AvailableAt(o) = EndOn(E, wires, Wire(o)) /\ Wire(o) \in DOMAIN wires
    BY <1>1, <1>3, AvailableIsEnd
  <2>2. wires[Wire(o)] # << >> => Last(wires[Wire(o)]) \in Gates
    BY <1>1, <1>4, <2>1, WireMeaning
  <2> QED
    BY <1>5, <2>1, <2>2 DEF EndOn
<1>7. ASSUME InOperation, frames[Top].blocks = << >>, Recorded(Top - 1)
      PROVE  LET call == Last(depthCalls)
                 finish == call.max + Sample(call, {}).depth IN
             /\ \A g \in Gates \ frames[Top].before : end[g] <= finish
             /\ finish <= Latest(end)
  <2> DEFINE call == Last(depthCalls)
             finish == OperationEndTime(call, {})
  <2>1. /\ Len(depthCalls) = Top /\ Top \in Nat /\ Top > 1 /\ DOMAIN frames = 1 .. Top
        /\ Top = Len(frames)
    <3>1. /\ Top \in Nat /\ DOMAIN frames = 1 .. Top /\ Top = Len(frames)
          /\ configuration.CallStackDepthLimit \in Nat
          /\ Len(depthCalls) = IF Top <= configuration.CallStackDepthLimit THEN Top
                               ELSE configuration.CallStackDepthLimit + 1
      BY CallsHaveFrames DEF Inv
    <3> QED
      BY <1>7, <3>1 DEF InOperation, Recorded
  <2>2. call = depthCalls[Top] /\ call.inputs = frames[Top].inputs /\ RecordFits(E, call)
    <3>1. call = depthCalls[Top]
      BY <2>1 DEF Last
    <3>2. Top \in 2 .. Len(depthCalls) /\ Top \in 1 .. Len(depthCalls)
      BY <2>1
    <3> QED
      BY <1>2, <3>1, <3>2 DEF Inv, CallInv, RecordsFit
  <2> HIDE DEF call
  <2>3. /\ call.max \in Nat /\ call.released \in Nat /\ call.returned \in Nat
        /\ Bounded(E, call.released) /\ Bounded(E, call.returned)
    BY <2>2 DEF RecordFits
  <2>4. call.inputs \in SUBSET DOMAIN metrics /\ IsFiniteSet(call.inputs)
    <3>1. ScopeOf(frames, Top) = call.inputs
      BY <1>1, <1>7, <2>1, <2>2, ScopeOfLast
    <3>2. Top \in DOMAIN frames
      BY <2>1
    <3>3. ScopeOf(frames, Top) \subseteq DOMAIN metrics
      BY <1>1, <3>2, ScopesAreLive
    <3> QED
      BY <1>1, <3>1, <3>3, FS_Subset DEF ObjectInv
  <2>5. /\ MaxAvailableTime(call.inputs) \in Nat /\ Bounded(E, MaxAvailableTime(call.inputs))
        /\ \A o \in call.inputs : AvailableAt(o) <= MaxAvailableTime(call.inputs)
    BY <1>1, <1>2, <2>4, MaxAvailableFits
  <2>6. MaxAvailableTime({}) \in Nat /\ Bounded(E, MaxAvailableTime({}))
    BY <1>1, <1>2, FS_EmptySet, MaxAvailableFits
  <2> DEFINE S == {MaxAvailableTime({}), call.returned, call.released, MaxAvailableTime(call.inputs)}
  <2>7. finish = Max(S)
    BY DEF OperationEndTime
  <2>8. S \in SUBSET Nat /\ IsFiniteSet(S) /\ S # {}
    <3>1. IsFiniteSet({MaxAvailableTime({})}) /\ IsFiniteSet({call.returned})
          /\ IsFiniteSet({call.released}) /\ IsFiniteSet({MaxAvailableTime(call.inputs)})
      BY FS_Singleton
    <3>2. IsFiniteSet({MaxAvailableTime({})} \cup {call.returned} \cup {call.released}
                        \cup {MaxAvailableTime(call.inputs)})
      BY <3>1, FS_Union
    <3>3. S = {MaxAvailableTime({})} \cup {call.returned} \cup {call.released}
                \cup {MaxAvailableTime(call.inputs)}
      OBVIOUS
    <3> QED
      BY <2>3, <2>5, <2>6, <3>2, <3>3
  <2>9. /\ call.returned \in S /\ call.released \in S /\ MaxAvailableTime(call.inputs) \in S
        /\ \A n \in S : Bounded(E, n)
    BY <2>3, <2>5, <2>6
  <2> HIDE DEF S, finish
  <2>10. finish \in S /\ finish \in Nat /\ \A n \in S : n \in Nat /\ n <= finish
    BY <2>7, <2>8, MaxMeaning
  <2>11. call.max + Sample(call, {}).depth = finish
    <3>1. Sample(call, {}).depth = finish - call.max
      BY DEF Sample, finish
    <3> QED
      BY <2>3, <2>10, <3>1
  <2>12. ASSUME NEW g \in Gates \ frames[Top].before
         PROVE  end[g] <= finish
    <3>1. ~ failing /\ Top \in 2 .. Len(depthCalls)
      BY <1>7, <2>1 DEF InOperation
    <3>2. Covered(E, Top, g) /\ E[g] \in Nat /\ end[g] = E[g]
      BY <1>2, <1>3, <1>5, <3>1 DEF CallsCover
    <3>3. CASE \E j \in Top .. Len(depthCalls) : Reported(E, g, depthCalls[j])
      <4>1. Reported(E, g, call)
        BY <2>1, <2>2, <3>3
      <4> QED
        BY <2>3, <2>9, <2>10, <3>2, <4>1 DEF Reported
    <3>4. CASE \E o \in ScopeOf(frames, Top) : E[g] <= AvailableAt(o)
      <4>1. PICK o \in ScopeOf(frames, Top) : E[g] <= AvailableAt(o)
        BY <3>4
      <4>2. o \in call.inputs
        BY <1>1, <1>7, <2>1, <2>2, <4>1, ScopeOfLast
      <4>3. AvailableAt(o) \in Nat
        BY <1>1, <1>3, <2>4, <4>2, AvailableIsEnd
      <4>4. AvailableAt(o) <= MaxAvailableTime(call.inputs)
        BY <2>5, <4>2
      <4> QED
        BY <2>5, <2>9, <2>10, <3>2, <4>1, <4>3, <4>4
    <3> QED
      BY <3>2, <3>3, <3>4 DEF Covered
  <2>13. finish <= Latest(end)
    <3>1. Latest(end) = LatestOf(end, Gates)
      BY DEF Latest, LatestOf
    <3>2. LatestOf(end, Gates) \in Nat /\ \A g \in Gates : end[g] <= LatestOf(end, Gates)
      BY <1>3, <1>4, <1>5, LatestMeaning
    <3>3. finish = 0 \/ \E g \in Gates : finish <= end[g] /\ end[g] \in Nat
      BY <1>3, <1>5, <2>9, <2>10 DEF Bounded
    <3> QED
      BY <2>10, <3>1, <3>2, <3>3
  <2> QED
    BY <2>11, <2>12, <2>13 DEF call
<1> QED
  BY <1>6, <1>7 DEF DepthIsCriticalPath, end

\* Gates have ends, and what is known of calls covers them, in every run.
THEOREM PathsAreKept == Spec => []PathInv
<1>1. Init => PathInv
  BY InitialPath
<1>2. Inv /\ Inv' /\ PathInv /\ [Next]_vars => PathInv'
  BY StepKeepsPath
<1> QED
  BY <1>1, <1>2, TracerInvariance, PTL DEF Spec

\* What the tracer reports of depths is right in every run: qubits are available when the longest
\* chain of gates before them has ended, and a call that has given up its qubits ends after
\* every gate that it made, directly or in the calls it made, and not after the whole circuit.
\* Whatever the gates, their times, the borrowing and the call stack limit; with an exception
\* on its way nothing is said of calls.
THEOREM DepthsAreCriticalPaths == Spec => []DepthIsCriticalPath
<1>1. Inv /\ PathInv => DepthIsCriticalPath
  BY PathsMatch
<1> QED
  BY <1>1, TracerInvariance, PathsAreKept, PTL
=============================================================================
