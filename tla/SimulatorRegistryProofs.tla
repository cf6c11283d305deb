---------------------- MODULE SimulatorRegistryProofs ----------------------
(***************************************************************************)
(* Theorems about SimulatorRegistry, for any number of host threads, of    *)
(* simulators and of slots left by earlier ones.                           *)
(***************************************************************************)
EXTENDS SimulatorRegistry, FunctionTheorems, FiniteSetTheorems, SequenceTheorems,
        WellFoundedInduction, TLAPS

-----------------------------------------------------------------------------
(* The inductive invariant                                                  *)

Steps == {"none", "creating", "ready", "got", "calling"}
Simulators == Threads \X (1 .. MaxCreated)
Slots == 1 .. Len(psis)

Typing ==
    /\ psis \in Seq(Simulators \cup {Nobody})
    /\ mutex \in Threads \cup {Nobody}
    /\ pc \in [Threads -> Steps]
    /\ slot \in [Threads -> Nat]
    /\ created \in [Threads -> 0 .. MaxCreated]

\* The mutex is held by the thread that is in create, if there is one.
LockInv == \A t \in Threads : pc[t] = "creating" <=> mutex = t

\* A thread in create has the first empty slot, or one more than there are.
ChosenInv ==
    \A t \in Threads : pc[t] = "creating" =>
        /\ slot[t] \in 1 .. Len(psis) + 1 /\ created[t] \in 1 .. MaxCreated
        /\ slot[t] \in Slots => psis[slot[t]] = Nobody
        /\ \A i \in Slots : i < slot[t] => psis[i] # Nobody

\* The slot of a simulator's id holds that simulator, and every other slot is empty.
HeldInv ==
    /\ \A t \in Threads : Holding(t) =>
        slot[t] \in Slots /\ created[t] \in 1 .. MaxCreated /\ psis[slot[t]] = SimulatorOf(t)
    /\ \A i \in Slots : psis[i] # Nobody => \E t \in Threads : Holding(t) /\ slot[t] = i

RInv == Typing /\ LockInv /\ ChosenInv /\ HeldInv /\ SlotsAreRecycled

-----------------------------------------------------------------------------
(* Choosing a slot                                                          *)

\* A set of natural numbers that is not empty has a least element.
LEMMA LeastExists ==
    ASSUME NEW T \in SUBSET Nat, T # {}
    PROVE  \E x \in T : \A y \in T : x <= y
<1>1. PICK x \in T : \A y \in T : ~(<<y, x>> \in OpToRel(<, Nat))
  BY NatLessThanWellFounded, WFMin
<1>2. ASSUME NEW y \in T
      PROVE  x <= y
  <2>1. y < x => <<y, x>> \in OpToRel(<, Nat)
    BY DEF OpToRel
  <2>2. ~(y < x)
    BY <1>1, <2>1, Zenon
  <2>3. x \in Nat /\ y \in Nat
    OBVIOUS
  <2> QED  BY <2>2, <2>3
<1> QED  BY <1>2

\* create() takes the first empty slot; if there is none, one more.
LEMMA EmptySlotMeaning ==
    ASSUME Typing
    PROVE  /\ EmptySlot \in 1 .. Len(psis) + 1
           /\ EmptySlot \in Slots => psis[EmptySlot] = Nobody
           /\ \A i \in Slots : i < EmptySlot => psis[i] # Nobody
<1> DEFINE Candidate == EmptySlots \cup {Len(psis) + 1}
<1>1. Len(psis) \in Nat
  BY LenProperties DEF Typing
<1>2. Candidate \in SUBSET Nat /\ Candidate # {}
  BY <1>1 DEF EmptySlots
<1>3. \E x \in Candidate : \A y \in Candidate : x <= y
  BY <1>2, LeastExists
<1>4. EmptySlot \in Candidate /\ \A y \in Candidate : EmptySlot <= y
  BY <1>3 DEF EmptySlot
<1>5. \A i \in Slots : psis[i] = Nobody => i \in Candidate
  BY DEF EmptySlots, Slots
<1>6. EmptySlot \in Slots => psis[EmptySlot] = Nobody
  BY <1>1, <1>4 DEF EmptySlots, Slots
<1>7. \A i \in Slots : i < EmptySlot => psis[i] # Nobody
  BY <1>1, <1>2, <1>4, <1>5 DEF Slots
<1>8. EmptySlot \in 1 .. Len(psis) + 1
  BY <1>1, <1>4 DEF EmptySlots
<1> QED  BY <1>6, <1>7, <1>8

\* Two simulators that exist at one time have different slots.
LEMMA SlotsDiffer ==
    ASSUME HeldInv, NEW t \in Threads, NEW u \in Threads, Holding(t), Holding(u),
           slot[t] = slot[u]
    PROVE  t = u
BY DEF HeldInv, SimulatorOf

\* No simulator is Nobody.
LEMMA SimulatorExists ==
    ASSUME NEW t \in Threads, created[t] \in 1 .. MaxCreated
    PROVE  SimulatorOf(t) # Nobody /\ SimulatorOf(t) \in Simulators
BY ConstantsAssumption DEF SimulatorOf, Simulators

\* When every slot is taken there are fewer slots than threads.
LEMMA FullIsFewer ==
    ASSUME Typing, HeldInv, NEW t \in Threads, ~Holding(t), \A i \in Slots : psis[i] # Nobody
    PROVE  Len(psis) + 1 <= Cardinality(Threads)
<1> DEFINE Holders == {u \in Threads : Holding(u)}
           f == [u \in Holders |-> slot[u]]
<1>1. Len(psis) \in Nat /\ IsFiniteSet(Threads)
  BY LenProperties, ConstantsAssumption DEF Typing
<1>2. Holders \in SUBSET (Threads \ {t})
  OBVIOUS
<1>3. /\ IsFiniteSet(Threads \ {t}) /\ Cardinality(Threads) \in Nat
      /\ Cardinality(Threads \ {t}) = Cardinality(Threads) - 1
  BY <1>1, FS_RemoveElement, FS_CardinalityType
<1>4. IsFiniteSet(Holders) /\ Cardinality(Holders) <= Cardinality(Threads) - 1
      /\ Cardinality(Holders) \in Nat
  BY <1>2, <1>3, FS_Subset, FS_CardinalityType
<1>5. f \in Surjection(Holders, Slots)
  <2>1. f \in [Holders -> Slots]
    BY DEF HeldInv
  <2>2. \A i \in Slots : \E u \in Holders : f[u] = i
    BY DEF HeldInv
  <2> QED  BY <2>1, <2>2 DEF Surjection
<1>6. Cardinality(Slots) <= Cardinality(Holders)
  BY <1>4, <1>5, FS_Surjection
<1>7. Cardinality(Slots) = Len(psis)
  <2>1. Cardinality(1 .. Len(psis)) = IF 1 > Len(psis) THEN 0 ELSE Len(psis) - 1 + 1
    BY <1>1, FS_Interval
  <2> QED  BY <1>1, <2>1 DEF Slots
<1> QED  BY <1>1, <1>3, <1>4, <1>6, <1>7

-----------------------------------------------------------------------------
(* The steps                                                                *)

\* A thread goes on to its next step and the registry stays as it is.
LEMMA MovesOn ==
    ASSUME RInv, NEW t \in Threads, NEW next \in Steps,
           pc[t] # "creating", next # "creating", (next = "none") <=> (pc[t] = "none"),
           pc' = [pc EXCEPT ![t] = next], UNCHANGED <<psis, mutex, slot, created>>
    PROVE  RInv'
<1>1. Typing /\ LockInv /\ ChosenInv /\ HeldInv /\ SlotsAreRecycled
  BY DEF RInv
<1>2. \A u \in Threads : pc'[u] = IF u = t THEN next ELSE pc[u]
  BY <1>1 DEF Typing
<1>3. \A u \in Threads : /\ (pc'[u] = "creating" <=> pc[u] = "creating")
                         /\ Holding(u)' <=> Holding(u)
  BY <1>1, <1>2 DEF Holding, Typing, Steps
<1>4. Slots' = Slots /\ \A u \in Threads : SimulatorOf(u)' = SimulatorOf(u)
  BY DEF Slots, SimulatorOf
<1>5. Typing'
  BY <1>1 DEF Typing
<1>6. LockInv'
  BY <1>1, <1>3 DEF LockInv
<1>7. ChosenInv'
  BY <1>1, <1>3, <1>4 DEF ChosenInv
<1>8. HeldInv'
  BY <1>1, <1>3, <1>4 DEF HeldInv
<1>9. SlotsAreRecycled'
  BY <1>1 DEF SlotsAreRecycled
<1> QED  BY <1>5, <1>6, <1>7, <1>8, <1>9 DEF RInv

\* create() locks the registry and chooses a slot.
LEMMA BeginsStep ==
    ASSUME RInv, NEW t \in Threads, CreateBegins(t)
    PROVE  RInv'
<1>1. /\ Typing /\ LockInv /\ ChosenInv /\ HeldInv /\ SlotsAreRecycled
      /\ MaxCreated \in Nat /\ Nobody \notin Threads
  BY ConstantsAssumption DEF RInv
<1>2. /\ pc[t] = "none" /\ mutex = Nobody /\ created[t] < MaxCreated /\ mutex' = t
      /\ UNCHANGED psis
      /\ slot' = [slot EXCEPT ![t] = EmptySlot] /\ created' = [created EXCEPT ![t] = @ + 1]
      /\ pc' = [pc EXCEPT ![t] = "creating"]
  BY DEF CreateBegins
<1>3. /\ EmptySlot \in 1 .. Len(psis) + 1
      /\ EmptySlot \in Slots => psis[EmptySlot] = Nobody
      /\ \A i \in Slots : i < EmptySlot => psis[i] # Nobody
      /\ EmptySlot \in Nat
  <2>1. Len(psis) \in Nat
    BY <1>1, LenProperties DEF Typing
  <2> QED  BY <1>1, <2>1, EmptySlotMeaning
<1>4. created[t] + 1 \in 1 .. MaxCreated
  BY <1>1, <1>2 DEF Typing
<1>5. \A u \in Threads :
        /\ pc'[u] = IF u = t THEN "creating" ELSE pc[u]
        /\ slot'[u] = IF u = t THEN EmptySlot ELSE slot[u]
        /\ created'[u] = IF u = t THEN created[t] + 1 ELSE created[u]
        /\ pc[u] # "creating"
  BY <1>1, <1>2 DEF Typing, LockInv
<1>6. Slots' = Slots /\ Len(psis') = Len(psis)
  BY <1>2 DEF Slots
<1>7. Typing'
  <2>1. pc' \in [Threads -> Steps]
    BY <1>1, <1>2 DEF Typing, Steps
  <2>2. slot' \in [Threads -> Nat]
    BY <1>1, <1>2, <1>3 DEF Typing
  <2>3. created' \in [Threads -> 0 .. MaxCreated]
    BY <1>1, <1>2, <1>4 DEF Typing
  <2> QED  BY <1>1, <1>2, <2>1, <2>2, <2>3 DEF Typing
<1>8. LockInv'
  BY <1>2, <1>5 DEF LockInv
<1>9. ChosenInv'
  BY <1>2, <1>3, <1>4, <1>5, <1>6 DEF ChosenInv
<1>10. HeldInv'
  <2>1. \A u \in Threads : Holding(u)' <=> Holding(u)
    BY <1>2, <1>5 DEF Holding
  <2>2. \A u \in Threads : Holding(u) => u # t
    BY <1>2 DEF Holding
  <2> QED  BY <1>1, <1>2, <1>5, <1>6, <2>1, <2>2 DEF HeldInv, SimulatorOf
<1>11. SlotsAreRecycled'
  BY <1>1, <1>2 DEF SlotsAreRecycled
<1> QED  BY <1>7, <1>8, <1>9, <1>10, <1>11 DEF RInv

\* create() puts the new simulator in the slot it chose, which nobody took meanwhile.
LEMMA EndsStep ==
    ASSUME RInv, NEW t \in Threads, CreateEnds(t)
    PROVE  RInv'
<1>1. /\ Typing /\ LockInv /\ ChosenInv /\ HeldInv /\ SlotsAreRecycled
      /\ Nobody \notin Threads
  BY ConstantsAssumption DEF RInv
<1>2. /\ pc[t] = "creating" /\ mutex = t /\ mutex' = Nobody /\ UNCHANGED <<slot, created>>
      /\ pc' = [pc EXCEPT ![t] = "ready"]
  BY <1>1 DEF CreateEnds, LockInv
<1>3. /\ slot[t] \in 1 .. Len(psis) + 1 /\ created[t] \in 1 .. MaxCreated
      /\ slot[t] \in Slots => psis[slot[t]] = Nobody
      /\ \A i \in Slots : i < slot[t] => psis[i] # Nobody
      /\ Len(psis) \in Nat /\ psis \in Seq(Simulators \cup {Nobody})
      /\ SimulatorOf(t) # Nobody /\ SimulatorOf(t) \in Simulators \cup {Nobody}
  BY <1>1, <1>2, LenProperties, SimulatorExists DEF ChosenInv, Typing
<1>4. /\ psis' \in Seq(Simulators \cup {Nobody})
      /\ Slots' = Slots \cup {slot[t]}
      /\ Len(psis') = IF slot[t] \in Slots THEN Len(psis) ELSE Len(psis) + 1
      /\ psis'[slot[t]] = SimulatorOf(t)
      /\ \A i \in Slots : i # slot[t] => psis'[i] = psis[i]
  <2>1. CASE slot[t] <= Len(psis)
    <3>1. slot[t] \in 1 .. Len(psis) /\ psis' = [psis EXCEPT ![slot[t]] = SimulatorOf(t)]
      BY <1>3, <2>1 DEF CreateEnds
    <3>2. /\ psis' \in Seq(Simulators \cup {Nobody}) /\ Len(psis') = Len(psis)
          /\ \A i \in 1 .. Len(psis) : psis'[i] = IF i = slot[t] THEN SimulatorOf(t) ELSE psis[i]
      BY <1>3, <3>1, ExceptSeq
    <3> QED  BY <3>1, <3>2 DEF Slots
  <2>2. CASE ~(slot[t] <= Len(psis))
    <3>1. slot[t] = Len(psis) + 1 /\ psis' = Append(psis, SimulatorOf(t))
      BY <1>3, <2>2 DEF CreateEnds
    <3>2. /\ psis' \in Seq(Simulators \cup {Nobody}) /\ Len(psis') = Len(psis) + 1
          /\ \A i \in 1 .. Len(psis) : psis'[i] = psis[i]
          /\ psis'[Len(psis) + 1] = SimulatorOf(t)
      BY <1>3, <3>1, AppendProperties
    <3>3. 1 .. Len(psis) + 1 = (1 .. Len(psis)) \cup {Len(psis) + 1}
      BY <1>3
    <3> QED  BY <1>3, <3>1, <3>2, <3>3 DEF Slots
  <2> QED  BY <2>1, <2>2
<1>5. \A u \in Threads : /\ pc'[u] = IF u = t THEN "ready" ELSE pc[u]
                         /\ pc[u] = "creating" => u = t
                         /\ SimulatorOf(u)' = SimulatorOf(u)
                         /\ Holding(u)' <=> Holding(u) \/ u = t
                         /\ Holding(u) => u # t
  BY <1>1, <1>2 DEF Typing, LockInv, SimulatorOf, Holding
<1>6. Typing'
  BY <1>1, <1>2, <1>4 DEF Typing, Steps
<1>7. LockInv'
  BY <1>1, <1>2, <1>5 DEF LockInv
<1>8. ChosenInv'
  BY <1>2, <1>5 DEF ChosenInv
<1>9. HeldInv'
  <2>1. ASSUME NEW u \in Threads, Holding(u)'
        PROVE  slot[u] \in Slots' /\ created[u] \in 1 .. MaxCreated /\ psis'[slot[u]] = SimulatorOf(u)
    <3>1. CASE u = t
      BY <1>3, <1>4, <3>1
    <3>2. CASE u # t
      <4>1. slot[u] \in Slots /\ created[u] \in 1 .. MaxCreated /\ psis[slot[u]] = SimulatorOf(u)
            /\ SimulatorOf(u) # Nobody
        BY <1>1, <1>5, <2>1, <3>2, SimulatorExists DEF HeldInv
      <4>2. slot[u] # slot[t]
        BY <1>3, <4>1
      <4> QED  BY <1>4, <4>1, <4>2
    <3> QED  BY <3>1, <3>2
  <2>2. ASSUME NEW i \in Slots', psis'[i] # Nobody
        PROVE  \E u \in Threads : Holding(u)' /\ slot[u] = i
    <3>1. CASE i = slot[t]
      BY <1>5, <3>1
    <3>2. CASE i # slot[t]
      <4>1. i \in Slots /\ psis[i] # Nobody
        BY <1>4, <2>2, <3>2
      <4> QED  BY <1>1, <1>5, <4>1 DEF HeldInv
    <3> QED  BY <3>1, <3>2
  <2> QED  BY <1>2, <1>5, <2>1, <2>2 DEF HeldInv
<1>10. SlotsAreRecycled'
  <2>1. CASE slot[t] \in Slots
    BY <1>1, <1>4, <2>1 DEF SlotsAreRecycled
  <2>2. CASE slot[t] \notin Slots
    <3>1. \A i \in Slots : psis[i] # Nobody
      BY <1>3, <2>2 DEF Slots
    <3>2. ~Holding(t)
      BY <1>2 DEF Holding
    <3>3. Len(psis) + 1 <= Cardinality(Threads)
      BY <1>1, <3>1, <3>2, FullIsFewer
    <3>4. Warm \in Nat /\ Cardinality(Threads) \in Nat
      BY ConstantsAssumption, FS_CardinalityType
    <3> QED  BY <1>3, <1>4, <2>2, <3>3, <3>4 DEF SlotsAreRecycled
  <2> QED  BY <2>1, <2>2
<1> QED  BY <1>6, <1>7, <1>8, <1>9, <1>10 DEF RInv

\* destroy() empties its own slot and no other.
LEMMA DestroyStep ==
    ASSUME RInv, NEW t \in Threads, Destroy(t)
    PROVE  RInv'
<1>1. /\ Typing /\ LockInv /\ ChosenInv /\ HeldInv /\ SlotsAreRecycled
      /\ Nobody \notin Threads
  BY ConstantsAssumption DEF RInv
<1>2. /\ pc[t] = "ready" /\ mutex = Nobody /\ UNCHANGED <<mutex, slot, created>>
      /\ pc' = [pc EXCEPT ![t] = "none"] /\ psis' = [psis EXCEPT ![slot[t]] = Nobody]
      /\ Holding(t)
  BY DEF Destroy, Holding
<1>3. /\ slot[t] \in Slots /\ psis \in Seq(Simulators \cup {Nobody})
  BY <1>1, <1>2 DEF HeldInv, Typing
<1>4. /\ psis' \in Seq(Simulators \cup {Nobody}) /\ Len(psis') = Len(psis) /\ Slots' = Slots
      /\ \A i \in Slots : psis'[i] = IF i = slot[t] THEN Nobody ELSE psis[i]
  <2>1. Nobody \in Simulators \cup {Nobody} /\ slot[t] \in 1 .. Len(psis)
    BY <1>3 DEF Slots
  <2>2. /\ psis' \in Seq(Simulators \cup {Nobody}) /\ Len(psis') = Len(psis)
        /\ \A i \in 1 .. Len(psis) : psis'[i] = IF i = slot[t] THEN Nobody ELSE psis[i]
    BY <1>2, <1>3, <2>1, ExceptSeq
  <2> QED  BY <2>2 DEF Slots
<1>5. \A u \in Threads : /\ pc'[u] = IF u = t THEN "none" ELSE pc[u]
                         /\ pc[u] # "creating"
                         /\ SimulatorOf(u)' = SimulatorOf(u)
                         /\ Holding(u)' <=> Holding(u) /\ u # t
  BY <1>1, <1>2 DEF Typing, LockInv, SimulatorOf, Holding
<1>6. Typing'
  BY <1>1, <1>2, <1>4 DEF Typing, Steps
<1>7. LockInv'
  BY <1>1, <1>2, <1>5 DEF LockInv
<1>8. ChosenInv'
  BY <1>2, <1>5 DEF ChosenInv
<1>9. HeldInv'
  <2>1. ASSUME NEW u \in Threads, Holding(u)'
        PROVE  slot[u] \in Slots' /\ created[u] \in 1 .. MaxCreated /\ psis'[slot[u]] = SimulatorOf(u)
    <3>1. Holding(u) /\ u # t
      BY <1>5, <2>1
    <3>2. slot[u] # slot[t]
      BY <1>1, <1>2, <3>1, SlotsDiffer
    <3> QED  BY <1>1, <1>4, <3>1, <3>2 DEF HeldInv
  <2>2. ASSUME NEW i \in Slots', psis'[i] # Nobody
        PROVE  \E u \in Threads : Holding(u)' /\ slot[u] = i
    <3>1. i \in Slots /\ i # slot[t] /\ psis[i] # Nobody
      BY <1>4, <2>2
    <3> QED  BY <1>1, <1>5, <3>1 DEF HeldInv
  <2> QED  BY <1>2, <1>5, <2>1, <2>2 DEF HeldInv
<1>10. SlotsAreRecycled'
  BY <1>1, <1>4 DEF SlotsAreRecycled
<1> QED  BY <1>6, <1>7, <1>8, <1>9, <1>10 DEF RInv

\* Every step of every thread keeps the invariant.
LEMMA RegistryStep ==
    ASSUME RInv, [Next]_vars
    PROVE  RInv'
<1>1. ASSUME NEW t \in Threads, Get(t)
      PROVE  RInv'
  <2>1. "got" \in Steps
    BY DEF Steps
  <2> QED  BY <1>1, <2>1, MovesOn DEF Get
<1>2. ASSUME NEW t \in Threads, CallBegins(t)
      PROVE  RInv'
  <2>1. "calling" \in Steps
    BY DEF Steps
  <2> QED  BY <1>2, <2>1, MovesOn DEF CallBegins
<1>3. ASSUME NEW t \in Threads, CallEnds(t)
      PROVE  RInv'
  <2>1. "ready" \in Steps
    BY DEF Steps
  <2> QED  BY <1>3, <2>1, MovesOn DEF CallEnds
<1>4. CASE UNCHANGED vars
  BY <1>4 DEF vars, RInv, Typing, LockInv, ChosenInv, HeldInv, SlotsAreRecycled, Slots,
     SimulatorOf, Holding
<1> QED  BY <1>1, <1>2, <1>3, <1>4, BeginsStep, EndsStep, DestroyStep DEF Next

LEMMA RegistryInit ==
    ASSUME Init
    PROVE  RInv
<1>1. /\ Warm \in Nat /\ MaxCreated \in Nat /\ Nobody \notin Threads
      /\ Cardinality(Threads) \in Nat
  BY ConstantsAssumption, FS_CardinalityType
<1>2. /\ psis \in Seq(Simulators \cup {Nobody}) /\ Len(psis) = Warm
      /\ \A i \in Slots : psis[i] = Nobody
  BY <1>1 DEF Init, Slots
<1>3. Typing
  BY <1>1, <1>2 DEF Init, Typing, Steps
<1>4. \A t \in Threads : pc[t] = "none" /\ ~Holding(t) /\ mutex # t
  BY <1>1 DEF Init, Holding
<1> QED  BY <1>1, <1>2, <1>3, <1>4 DEF RInv, LockInv, ChosenInv, HeldInv, SlotsAreRecycled

LEMMA RegistryInvariance == Spec => []RInv
BY RegistryInit, RegistryStep, PTL DEF Spec

-----------------------------------------------------------------------------
(* The theorems                                                             *)

\* Whatever other threads create and destroy meanwhile, an id names the simulator it was
\* given for until that simulator is destroyed, and no other thread's (factory.cpp:62-94).
THEOREM SimulatorIdsAreExclusive == Spec => []IdsAreExclusive
<1>1. RInv => IdsAreExclusive
  BY SlotsDiffer DEF RInv, HeldInv, IdsAreExclusive
<1> QED  BY <1>1, RegistryInvariance, PTL

\* The vector never has more slots than there are threads, or than there were at first:
\* create() reuses what destroy() left (factory.cpp:62-75).
THEOREM DestroyedSlotsAreRecycled == Spec => []SlotsAreRecycled
<1>1. RInv => SlotsAreRecycled
  BY DEF RInv
<1> QED  BY <1>1, RegistryInvariance, PTL

-----------------------------------------------------------------------------
(* Calls, when the vector does not move                                     *)

\* While the vector stays in its first buffer a reference that get returned is to the
\* slot of its thread, and a call runs on the simulator there.
CallInv ==
    /\ Len(psis) = Warm /\ buffer = 0
    /\ ref \in [Threads -> [buffer : Nat, slot : Nat]]
    /\ reached \in [Threads -> Simulators \cup {Nobody, Garbage}]
    /\ \A t \in Threads : pc[t] = "got" => ref[t] = [buffer |-> 0, slot |-> slot[t]]
    /\ CallsReachTheirSimulator

\* create() finds a slot if there are as many as threads.
LEMMA SlotFound ==
    ASSUME RInv, CallInv, Cardinality(Threads) <= Warm, NEW t \in Threads, pc[t] = "creating"
    PROVE  slot[t] \in Slots
<1>1. Typing /\ HeldInv /\ Warm \in Nat /\ Cardinality(Threads) \in Nat
  BY ConstantsAssumption, FS_CardinalityType DEF RInv
<1>2. /\ slot[t] \in 1 .. Len(psis) + 1 /\ Len(psis) = Warm /\ ~Holding(t)
      /\ \A i \in Slots : i < slot[t] => psis[i] # Nobody
  BY DEF RInv, ChosenInv, CallInv, Holding
<1>3. SUFFICES ASSUME slot[t] \notin Slots
               PROVE  FALSE
  OBVIOUS
<1>4. \A i \in Slots : psis[i] # Nobody
  BY <1>1, <1>2, <1>3 DEF Slots
<1>5. Len(psis) + 1 <= Cardinality(Threads)
  BY <1>1, <1>2, <1>4, FullIsFewer
<1> QED  BY <1>1, <1>2, <1>5

LEMMA CallStep ==
    ASSUME RInv, CallInv, Cardinality(Threads) <= Warm, [Next]_vars
    PROVE  CallInv'
<1>1. /\ Typing /\ HeldInv /\ LockInv /\ ChosenInv /\ Len(psis) = Warm /\ buffer = 0
      /\ Warm \in Nat /\ Nobody \notin Threads
      /\ ref \in [Threads -> [buffer : Nat, slot : Nat]]
      /\ reached \in [Threads -> Simulators \cup {Nobody, Garbage}]
      /\ \A u \in Threads : pc[u] = "got" => ref[u] = [buffer |-> 0, slot |-> slot[u]]
      /\ \A u \in Threads : pc[u] = "calling" => reached[u] = SimulatorOf(u)
  BY ConstantsAssumption DEF RInv, CallInv, CallsReachTheirSimulator
<1>2. ASSUME NEW t \in Threads, CreateBegins(t)
      PROVE  CallInv'
  <2>1. \A u \in Threads : /\ pc'[u] \in {"got", "calling"} => pc'[u] = pc[u] /\ u # t
                           /\ u # t => slot'[u] = slot[u] /\ SimulatorOf(u)' = SimulatorOf(u)
    BY <1>1, <1>2 DEF CreateBegins, Typing, SimulatorOf
  <2>2. UNCHANGED <<psis, buffer, ref, reached>>
    BY <1>2 DEF CreateBegins
  <2> QED  BY <1>1, <2>1, <2>2 DEF CallInv, CallsReachTheirSimulator
<1>3. ASSUME NEW t \in Threads, CreateEnds(t)
      PROVE  CallInv'
  <2>1. /\ pc[t] = "creating" /\ pc' = [pc EXCEPT ![t] = "ready"]
        /\ UNCHANGED <<slot, created, ref, reached>>
    BY <1>3 DEF CreateEnds
  <2>2. slot[t] \in 1 .. Len(psis)
    BY <2>1, SlotFound DEF Slots
  <2>3. psis' = [psis EXCEPT ![slot[t]] = SimulatorOf(t)] /\ buffer' = buffer
    BY <1>1, <1>3, <2>2 DEF CreateEnds
  <2>4. Len(psis') = Len(psis)
    BY <1>1, <2>2, <2>3 DEF Typing
  <2>5. \A u \in Threads : /\ pc'[u] \in {"got", "calling"} => pc'[u] = pc[u]
                           /\ SimulatorOf(u)' = SimulatorOf(u)
    BY <1>1, <2>1 DEF Typing, SimulatorOf
  <2> QED  BY <1>1, <2>1, <2>3, <2>4, <2>5 DEF CallInv, CallsReachTheirSimulator
<1>4. ASSUME NEW t \in Threads, Destroy(t)
      PROVE  CallInv'
  <2>1. /\ pc[t] = "ready" /\ pc' = [pc EXCEPT ![t] = "none"]
        /\ psis' = [psis EXCEPT ![slot[t]] = Nobody]
        /\ UNCHANGED <<buffer, slot, created, ref, reached>>
    BY <1>4 DEF Destroy
  <2>2. Len(psis') = Len(psis)
    BY <1>1, <2>1 DEF Typing
  <2>3. \A u \in Threads : /\ pc'[u] \in {"got", "calling"} => pc'[u] = pc[u]
                           /\ SimulatorOf(u)' = SimulatorOf(u)
    BY <1>1, <2>1 DEF Typing, SimulatorOf
  <2> QED  BY <1>1, <2>1, <2>2, <2>3 DEF CallInv, CallsReachTheirSimulator
<1>5. ASSUME NEW t \in Threads, Get(t)
      PROVE  CallInv'
  <2>1. /\ pc[t] = "ready" /\ pc' = [pc EXCEPT ![t] = "got"]
        /\ ref' = [ref EXCEPT ![t] = [buffer |-> 0, slot |-> slot[t]]]
        /\ UNCHANGED <<psis, buffer, slot, created, reached>>
    BY <1>1, <1>5 DEF Get
  <2>2. slot[t] \in Nat /\ ref' \in [Threads -> [buffer : Nat, slot : Nat]]
    BY <1>1, <2>1 DEF Typing
  <2>3. \A u \in Threads : pc'[u] = "got" => ref'[u] = [buffer |-> 0, slot |-> slot[u]]
    BY <1>1, <2>1 DEF Typing
  <2>4. \A u \in Threads : /\ pc'[u] = "calling" => pc[u] = "calling"
                           /\ SimulatorOf(u)' = SimulatorOf(u)
    BY <1>1, <2>1 DEF Typing, SimulatorOf
  <2> QED  BY <1>1, <2>1, <2>2, <2>3, <2>4 DEF CallInv, CallsReachTheirSimulator
<1>6. ASSUME NEW t \in Threads, CallBegins(t)
      PROVE  CallInv'
  <2>1. /\ pc[t] = "got" /\ pc' = [pc EXCEPT ![t] = "calling"]
        /\ UNCHANGED <<psis, buffer, slot, created, ref>>
    BY <1>6 DEF CallBegins
  <2>2. /\ ref[t].buffer = buffer /\ ref[t].slot = slot[t]
        /\ psis[slot[t]] = SimulatorOf(t) /\ SimulatorOf(t) \in Simulators
    BY <1>1, <2>1, SimulatorExists DEF HeldInv, Holding
  <2>3. reached' = [reached EXCEPT ![t] = SimulatorOf(t)]
    BY <1>6, <2>2 DEF CallBegins
  <2>4. \A u \in Threads : /\ pc'[u] = "got" => pc[u] = "got"
                           /\ pc'[u] = "calling" => pc[u] = "calling" \/ u = t
                           /\ SimulatorOf(u)' = SimulatorOf(u)
                           /\ reached'[u] = IF u = t THEN SimulatorOf(t) ELSE reached[u]
    BY <1>1, <2>1, <2>3 DEF Typing, SimulatorOf
  <2>5. reached' \in [Threads -> Simulators \cup {Nobody, Garbage}]
    BY <1>1, <2>2, <2>3
  <2> QED  BY <1>1, <2>1, <2>4, <2>5 DEF CallInv, CallsReachTheirSimulator
<1>7. ASSUME NEW t \in Threads, CallEnds(t)
      PROVE  CallInv'
  <2>1. /\ pc[t] = "calling" /\ pc' = [pc EXCEPT ![t] = "ready"]
        /\ reached' = [reached EXCEPT ![t] = Nobody]
        /\ UNCHANGED <<psis, buffer, slot, created, ref>>
    BY <1>7 DEF CallEnds
  <2>2. \A u \in Threads : /\ pc'[u] \in {"got", "calling"} => pc'[u] = pc[u] /\ u # t
                           /\ u # t => reached'[u] = reached[u]
                           /\ SimulatorOf(u)' = SimulatorOf(u)
    BY <1>1, <2>1 DEF Typing, SimulatorOf
  <2>3. reached' \in [Threads -> Simulators \cup {Nobody, Garbage}]
    BY <1>1, <2>1
  <2> QED  BY <1>1, <2>1, <2>2, <2>3 DEF CallInv, CallsReachTheirSimulator
<1>8. CASE UNCHANGED vars
  BY <1>1, <1>8 DEF vars, CallInv, CallsReachTheirSimulator, SimulatorOf
<1> QED  BY <1>2, <1>3, <1>4, <1>5, <1>6, <1>7, <1>8 DEF Next

\* As long as create() need not move the vector, every call runs on the simulator whose id
\* it was given: a call goes astray, as the model's runs show, only if the vector grows
\* between get and the use of what it returned (factory.cpp:100).
THEOREM CallsArriveUnlessVectorGrows ==
    Cardinality(Threads) <= Warm => (Spec => []CallsReachTheirSimulator)
<1> SUFFICES ASSUME Cardinality(Threads) <= Warm
             PROVE  Spec => []CallsReachTheirSimulator
  OBVIOUS
<1>1. Init => CallInv
  BY ConstantsAssumption DEF Init, CallInv, CallsReachTheirSimulator
<1>2. RInv /\ CallInv /\ [Next]_vars => CallInv'
  BY CallStep
<1>3. CallInv => CallsReachTheirSimulator
  BY DEF CallInv
<1> QED  BY <1>1, <1>2, <1>3, RegistryInvariance, PTL DEF Spec
=============================================================================
