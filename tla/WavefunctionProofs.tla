------------------------- MODULE WavefunctionProofs -------------------------
(***************************************************************************)
(* Theorems about Wavefunction, for any number of qubits, any length of    *)
(* the queue, any fuse depth and fuse spans: the positions follow the      *)
(* qubits, and clustering keeps, for every qubit, the order in which the   *)
(* program called its gates.                                               *)
(*                                                                         *)
(* The argument.  On(gates, q) are the numbers of those gates that act on  *)
(* q. One step of a pass leaves On of the whole list as it was, for every  *)
(* q: a cluster that moves shares no qubit with those it overtakes.  So a  *)
(* pass does, so make_clusters does, so what a flush applies is, qubit by  *)
(* qubit, what was waiting (AppliedKeepsOrder).  Ordered, which holds      *)
(* between flushes, says that a qubit's history and what waits for it make *)
(* up its calls.  Passes, clusters and FlattenSeq are functions of         *)
(* sequences of any length; the inductions over them are done with sets,   *)
(* through the theorem that the naturals are well-founded                  *)
(* (SequenceInduction).                                                    *)
(***************************************************************************)
EXTENDS Wavefunction, SequenceTheorems, FiniteSetTheorems, NaturalsInduction,
        WellFoundedInduction, TLAPS

-----------------------------------------------------------------------------
(* Induction.  The theorem that the order of the naturals is well-founded,   *)
(* in terms of sets.                                                        *)

Below == {pair \in Nat \X Nat : pair[1] < pair[2]}

\* A set of naturals that is not empty has a least element.
LEMMA LeastNatural ==
    ASSUME NEW T, T \subseteq Nat, T # {}
    PROVE  \E n \in T : \A m \in T : n <= m
<1>1. IsWellFoundedOn(Below, Nat)
  BY NatLessThanWellFounded DEF OpToRel, Below
<1>2. PICK n \in T : \A m \in T : <<m, n>> \notin Below
  BY <1>1, WFMin
<1>3. \A m \in T : ~(m < n)
  BY <1>2 DEF Below
<1> QED
  BY <1>3

\* A set with 0 and the successor of each of its naturals has all of them.
LEMMA NaturalInduction ==
    ASSUME NEW T, 0 \in T, \A n \in Nat : n \in T => n + 1 \in T
    PROVE  Nat \subseteq T
<1> SUFFICES ASSUME Nat \ T # {} PROVE FALSE
  OBVIOUS
<1>1. PICK n \in Nat \ T : \A m \in Nat \ T : n <= m
  BY LeastNatural
<1>2. n # 0 /\ n - 1 \in Nat /\ n - 1 \in T
  BY <1>1
<1> QED
  BY <1>1, <1>2

\* A set with the empty sequence and, with a sequence, all that append an element to
\* it has all sequences.
LEMMA SequenceInduction ==
    ASSUME NEW S, NEW T, <<>> \in T, \A s \in Seq(S), e \in S : s \in T => Append(s, e) \in T
    PROVE  Seq(S) \subseteq T
<1> DEFINE Lengths == {n \in Nat : \A s \in Seq(S) : Len(s) = n => s \in T}
<1>1. 0 \in Lengths
  BY EmptySeq
<1>2. ASSUME NEW n \in Nat, n \in Lengths
      PROVE  n + 1 \in Lengths
  <2> SUFFICES ASSUME NEW s \in Seq(S), Len(s) = n + 1 PROVE s \in T
    OBVIOUS
  <2>1. PICK t \in Seq(S), e \in S : s = Append(t, e)
    BY SequenceEmptyOrAppend, EmptySeq
  <2>2. Len(t) = n
    BY <2>1, AppendProperties, LenProperties
  <2>3. t \in T
    BY <1>2, <2>2
  <2> QED
    BY <2>1, <2>3
<1>3. Nat \subseteq Lengths
  <2> HIDE DEF Lengths
  <2> QED BY <1>1, <1>2, NaturalInduction
<1> QED
  BY <1>3, LenProperties

\* A function on 1 .. n is a sequence of length n.
LEMMA FunctionIsSeq ==
    ASSUME NEW S, NEW n \in Nat, NEW f \in [1 .. n -> S]
    PROVE  f \in Seq(S) /\ Len(f) = n
  OBVIOUS

-----------------------------------------------------------------------------
(* FlattenSeq                                                               *)

\* f is the function by which FlattenSeq is defined.
IsFlattening(f, seqs) ==
    f = [i \in 1 .. Len(seqs) |-> IF i = 1 THEN seqs[i] ELSE f[i - 1] \o seqs[i]]

\* FlattenSeq of no sequences.
LEMMA FlattenEmpty == FlattenSeq(<<>>) = <<>>
  BY Len(<<>>) = 0 DEF FlattenSeq

\* There is only one such function: FlattenSeq gives its last value.
LEMMA FlattenByFunction ==
    ASSUME NEW S, NEW seqs \in Seq(Seq(S)), seqs # <<>>, NEW f, IsFlattening(f, seqs)
    PROVE  FlattenSeq(seqs) = f[Len(seqs)]
<1> DEFINE g == CHOOSE h : h = [i \in 1 .. Len(seqs) |-> IF i = 1 THEN seqs[i]
                                                        ELSE h[i - 1] \o seqs[i]]
<1>1. Len(seqs) \in Nat \ {0}
  BY EmptySeq
<1>2. FlattenSeq(seqs) = g[Len(seqs)]
  BY <1>1, Zenon DEF FlattenSeq
<1>3. g = [i \in 1 .. Len(seqs) |-> IF i = 1 THEN seqs[i] ELSE g[i - 1] \o seqs[i]]
  BY Zenon DEF IsFlattening
<1> HIDE DEF g
<1>4. \A i \in 1 .. Len(seqs) : g[i] = IF i = 1 THEN seqs[i] ELSE g[i - 1] \o seqs[i]
  BY <1>3
<1>5. \A i \in 1 .. Len(seqs) : f[i] = IF i = 1 THEN seqs[i] ELSE f[i - 1] \o seqs[i]
  BY DEF IsFlattening
<1> DEFINE Same == {n \in Nat : n \in 1 .. Len(seqs) => f[n] = g[n]}
<1>6. 0 \in Same
  OBVIOUS
<1>7. ASSUME NEW n \in Nat, n \in Same PROVE n + 1 \in Same
  <2> SUFFICES ASSUME n + 1 \in 1 .. Len(seqs) PROVE f[n + 1] = g[n + 1]
    OBVIOUS
  <2>1. f[n + 1] = IF n + 1 = 1 THEN seqs[n + 1] ELSE f[n + 1 - 1] \o seqs[n + 1]
    BY <1>5
  <2>2. g[n + 1] = IF n + 1 = 1 THEN seqs[n + 1] ELSE g[n + 1 - 1] \o seqs[n + 1]
    BY <1>4
  <2>3. n # 0 => f[n] = g[n]
    BY <1>1, <1>7
  <2>4. n + 1 - 1 = n
    OBVIOUS
  <2> QED
    BY <2>1, <2>2, <2>3, <2>4
<1>8. Nat \subseteq Same
  <2> HIDE DEF Same
  <2> QED BY <1>6, <1>7, NaturalInduction
<1> QED
  BY <1>1, <1>2, <1>8

\* What Append does to such a function.
LEMMA FlatteningAppends ==
    ASSUME NEW S, NEW seqs \in Seq(Seq(S)), NEW last \in Seq(S), NEW f, IsFlattening(f, seqs)
    PROVE  \E g : /\ IsFlattening(g, Append(seqs, last))
                  /\ g[Len(seqs) + 1] = IF seqs = <<>> THEN last ELSE f[Len(seqs)] \o last
<1> DEFINE more == Append(seqs, last)
           n == Len(seqs)
           g == [i \in 1 .. n + 1 |-> IF i <= n THEN f[i]
                                      ELSE IF n = 0 THEN last ELSE f[n] \o last]
<1>1. n \in Nat /\ (n = 0 <=> seqs = <<>>)
  BY EmptySeq, LenProperties
<1>2. /\ Len(more) = n + 1 /\ more[n + 1] = last
      /\ \A i \in 1 .. n : more[i] = seqs[i]
  BY AppendProperties
<1>3. \A i \in 1 .. n : f[i] = IF i = 1 THEN seqs[i] ELSE f[i - 1] \o seqs[i]
  BY DEF IsFlattening
<1>4. ASSUME NEW i \in 1 .. n + 1
      PROVE  g[i] = IF i = 1 THEN more[i] ELSE g[i - 1] \o more[i]
  <2>1. CASE i <= n
    <3>1. i \in 1 .. n /\ g[i] = f[i] /\ more[i] = seqs[i]
      BY <1>1, <1>2, <2>1
    <3>2. i # 1 => i - 1 \in 1 .. n + 1 /\ g[i - 1] = f[i - 1]
      BY <1>1, <2>1
    <3> QED
      BY <1>3, <3>1, <3>2
  <2>2. CASE i = n + 1
    <3>1. more[i] = last /\ g[i] = IF n = 0 THEN last ELSE f[n] \o last
      BY <1>1, <1>2, <2>2
    <3>2. n # 0 => i # 1 /\ g[i - 1] = f[n]
      BY <1>1, <2>2
    <3> QED
      BY <1>1, <2>2, <3>1, <3>2
  <2> QED
    BY <1>1, <2>1, <2>2
<1>5. g = [i \in 1 .. n + 1 |-> IF i = 1 THEN more[i] ELSE g[i - 1] \o more[i]]
  <2> HIDE DEF more
  <2>1. g = [i \in 1 .. n + 1 |-> g[i]]
    OBVIOUS
  <2> HIDE DEF g
  <2> QED BY <1>4, <2>1
<1>6. IsFlattening(g, more)
  <2> HIDE DEF g, more
  <2> QED BY <1>2, <1>5 DEF IsFlattening
<1>7. g[n + 1] = IF seqs = <<>> THEN last ELSE f[n] \o last
  BY <1>1
<1> QED
  BY <1>6, <1>7

\* FlattenSeq's function exists for every sequence of sequences.
LEMMA FlatteningExists ==
    ASSUME NEW S
    PROVE  \A seqs \in Seq(Seq(S)) : \E f : IsFlattening(f, seqs)
<1> DEFINE T == {seqs \in Seq(Seq(S)) : \E f : IsFlattening(f, seqs)}
<1>1. <<>> \in T
  <2>1. IsFlattening([i \in {} |-> i], <<>>)
    BY 1 .. Len(<<>>) = {} DEF IsFlattening
  <2> QED
    BY <2>1, EmptySeq
<1>2. ASSUME NEW s \in Seq(Seq(S)), NEW e \in Seq(S), s \in T PROVE Append(s, e) \in T
  BY <1>2, FlatteningAppends, AppendProperties
<1> HIDE DEF T
<1>3. Seq(Seq(S)) \subseteq T
  BY <1>1, <1>2, SequenceInduction
<1> QED
  BY <1>3 DEF T

\* FlattenSeq follows Append, and gives a sequence of the same elements.
LEMMA FlattenAppend ==
    ASSUME NEW S, NEW seqs \in Seq(Seq(S)), NEW last \in Seq(S)
    PROVE  FlattenSeq(Append(seqs, last)) = FlattenSeq(seqs) \o last
<1>1. PICK f : IsFlattening(f, seqs)
  BY FlatteningExists
<1>2. PICK g : /\ IsFlattening(g, Append(seqs, last))
               /\ g[Len(seqs) + 1] = IF seqs = <<>> THEN last ELSE f[Len(seqs)] \o last
  BY <1>1, FlatteningAppends
<1>3. /\ Append(seqs, last) \in Seq(Seq(S)) /\ Append(seqs, last) # <<>>
      /\ Len(Append(seqs, last)) = Len(seqs) + 1
  BY AppendProperties
<1>4. FlattenSeq(Append(seqs, last)) = g[Len(seqs) + 1]
  BY <1>2, <1>3, FlattenByFunction
<1>5. CASE seqs = <<>>
  BY <1>2, <1>4, <1>5, FlattenEmpty, ConcatEmptySeq
<1>6. CASE seqs # <<>>
  <2>1. FlattenSeq(seqs) = f[Len(seqs)]
    BY <1>1, <1>6, FlattenByFunction
  <2> QED
    BY <1>2, <1>4, <1>6, <2>1
<1> QED
  BY <1>5, <1>6

\* FlattenSeq of sequences over S is one.
LEMMA FlattenType ==
    ASSUME NEW S
    PROVE  \A seqs \in Seq(Seq(S)) : FlattenSeq(seqs) \in Seq(S)
<1> DEFINE T == {seqs \in Seq(Seq(S)) : FlattenSeq(seqs) \in Seq(S)}
<1>1. <<>> \in T
  BY FlattenEmpty, EmptySeq
<1>2. ASSUME NEW s \in Seq(Seq(S)), NEW e \in Seq(S), s \in T PROVE Append(s, e) \in T
  BY <1>2, FlattenAppend, AppendProperties, ConcatProperties
<1> HIDE DEF T
<1>3. Seq(Seq(S)) \subseteq T
  BY <1>1, <1>2, SequenceInduction
<1> QED
  BY <1>3 DEF T

\* FlattenSeq distributes over concatenation.
LEMMA FlattenConcat ==
    ASSUME NEW S, NEW s \in Seq(Seq(S))
    PROVE  \A t \in Seq(Seq(S)) : FlattenSeq(s \o t) = FlattenSeq(s) \o FlattenSeq(t)
<1> DEFINE T == {t \in Seq(Seq(S)) : FlattenSeq(s \o t) = FlattenSeq(s) \o FlattenSeq(t)}
<1>1. <<>> \in T
  BY FlattenEmpty, FlattenType, ConcatEmptySeq, EmptySeq
<1>2. ASSUME NEW t \in Seq(Seq(S)), NEW e \in Seq(S), t \in T PROVE Append(t, e) \in T
  <2>1. s \o Append(t, e) = Append(s \o t, e)
    <3> DEFINE one == <<e>>
    <3>1. Append(t, e) = t \o one /\ one \in Seq(Seq(S))
      BY AppendIsConcat
    <3>2. s \o t \in Seq(Seq(S)) /\ Append(s \o t, e) = (s \o t) \o one
      BY ConcatProperties, AppendIsConcat
    <3> HIDE DEF one
    <3>3. (s \o t) \o one = s \o (t \o one)
      BY <3>1, ConcatAssociative, SMTT(60)
    <3> QED
      BY <3>1, <3>2, <3>3, Zenon
  <2>2. FlattenSeq(s \o Append(t, e)) = FlattenSeq(s \o t) \o e
    BY <2>1, FlattenAppend, ConcatProperties
  <2>3. FlattenSeq(s \o t) = FlattenSeq(s) \o FlattenSeq(t)
    BY <1>2
  <2>4. (FlattenSeq(s) \o FlattenSeq(t)) \o e = FlattenSeq(s) \o (FlattenSeq(t) \o e)
    BY FlattenType, ConcatAssociative
  <2>5. FlattenSeq(Append(t, e)) = FlattenSeq(t) \o e
    BY FlattenAppend
  <2> QED
    BY <2>2, <2>3, <2>4, <2>5, AppendProperties
<1> HIDE DEF T
<1>3. Seq(Seq(S)) \subseteq T
  BY <1>1, <1>2, SequenceInduction
<1> QED
  BY <1>3 DEF T

-----------------------------------------------------------------------------
(* Concatenation, as an operator whose definition stays hidden: the provers  *)
(* take an equation between concatenations apart, element by element.       *)

Cat(s, t) == s \o t

\* The library's theorem on the type of a concatenation, for Cat.
LEMMA CatType ==
    ASSUME NEW S, NEW s \in Seq(S), NEW t \in Seq(S)
    PROVE  Cat(s, t) \in Seq(S)
  BY ConcatProperties DEF Cat

\* The empty sequence is neutral.
LEMMA CatEmpty ==
    ASSUME NEW S, NEW s \in Seq(S)
    PROVE  Cat(s, <<>>) = s /\ Cat(<<>>, s) = s
  BY ConcatEmptySeq DEF Cat

\* Cat is associative.
LEMMA CatAssociative ==
    ASSUME NEW S, NEW s \in Seq(S), NEW t \in Seq(S), NEW u \in Seq(S)
    PROVE  Cat(Cat(s, t), u) = Cat(s, Cat(t, u))
  BY ConcatAssociative DEF Cat

\* Append adds a sequence of one element.
LEMMA CatOne ==
    ASSUME NEW S, NEW s \in Seq(S), NEW e \in S
    PROVE  Cat(s, <<e>>) = Append(s, e)
  BY AppendIsConcat DEF Cat

\* FlattenSeq distributes over Cat.
LEMMA FlattenCat ==
    ASSUME NEW S, NEW s \in Seq(Seq(S)), NEW t \in Seq(Seq(S))
    PROVE  FlattenSeq(Cat(s, t)) = Cat(FlattenSeq(s), FlattenSeq(t))
  BY FlattenConcat DEF Cat

-----------------------------------------------------------------------------
(* The gates a qubit goes through.                                          *)

GatesOn(D) == [controls : SUBSET D, target : D, number : Nat]

Numbers(gates, q) ==
    [i \in DOMAIN gates |-> IF q \in Qids(gates[i]) THEN <<gates[i].number>> ELSE <<>>]

\* The numbers of those gates that act on q, in their order.
On(gates, q) == FlattenSeq(Numbers(gates, q))

\* The same for clusters in their order.
OnAll(clusters, q) == On(FlattenSeq(clusters), q)

\* Numbers gives a sequence of numbers for each gate.
LEMMA NumbersType ==
    ASSUME NEW D, NEW gates \in Seq(GatesOn(D)), NEW q
    PROVE  Numbers(gates, q) \in Seq(Seq(Nat)) /\ Len(Numbers(gates, q)) = Len(gates)
<1>1. Len(gates) \in Nat /\ DOMAIN gates = 1 .. Len(gates)
  BY LenProperties
<1>2. \A i \in 1 .. Len(gates) :
        (IF q \in Qids(gates[i]) THEN <<gates[i].number>> ELSE <<>>) \in Seq(Nat)
  <2> TAKE i \in 1 .. Len(gates)
  <2>1. gates[i] \in GatesOn(D)
    BY ElementOfSeq
  <2> QED
    BY <2>1 DEF GatesOn
<1>3. Numbers(gates, q) \in [1 .. Len(gates) -> Seq(Nat)]
  BY <1>1, <1>2 DEF Numbers
<1> QED
  BY <1>1, <1>3

\* What a qubit goes through is a sequence of gate numbers.
LEMMA OnType ==
    ASSUME NEW D, NEW gates \in Seq(GatesOn(D)), NEW q
    PROVE  On(gates, q) \in Seq(Nat)
  BY NumbersType, FlattenType DEF On

\* Without gates, a qubit goes through none.
LEMMA OnEmpty == \A q : On(<<>>, q) = <<>>
<1> SUFFICES ASSUME NEW q PROVE On(<<>>, q) = <<>>
  OBVIOUS
<1>1. Numbers(<<>>, q) = <<>>
  BY DEF Numbers
<1> QED
  BY <1>1, FlattenEmpty DEF On

\* A qubit goes through a gate that acts on it, and through no other.
LEMMA OnOne ==
    ASSUME NEW D, NEW gate \in GatesOn(D), NEW q
    PROVE  On(<<gate>>, q) = IF q \in Qids(gate) THEN <<gate.number>> ELSE <<>>
<1> DEFINE number == IF q \in Qids(gate) THEN <<gate.number>> ELSE <<>>
<1>1. number \in Seq(Nat)
  BY DEF GatesOn
<1>2. Numbers(<<gate>>, q) = Append(<<>>, number)
  BY DEF Numbers
<1> HIDE DEF number
<1>3. FlattenSeq(Append(<<>>, number)) = FlattenSeq(<<>>) \o number
  BY <1>1, FlattenAppend, EmptySeq
<1> QED
  BY <1>1, <1>2, <1>3, FlattenEmpty, ConcatEmptySeq DEF On, number

\* A qubit goes through the gates of two sequences in their order.
LEMMA OnConcat ==
    ASSUME NEW D, NEW g \in Seq(GatesOn(D)), NEW h \in Seq(GatesOn(D)), NEW q
    PROVE  On(Cat(g, h), q) = Cat(On(g, q), On(h, q))
<1>1. g \o h \in Seq(GatesOn(D)) /\ Len(g \o h) = Len(g) + Len(h)
  BY ConcatProperties
<1>2. Numbers(g \o h, q) = Numbers(g, q) \o Numbers(h, q)
  <2>1. /\ Numbers(g, q) \o Numbers(h, q) \in Seq(Seq(Nat))
        /\ Len(Numbers(g, q) \o Numbers(h, q)) = Len(g) + Len(h)
    <3>1. /\ Numbers(g, q) \in Seq(Seq(Nat)) /\ Len(Numbers(g, q)) = Len(g)
          /\ Numbers(h, q) \in Seq(Seq(Nat)) /\ Len(Numbers(h, q)) = Len(h)
      BY NumbersType
    <3>2. /\ Numbers(g, q) \o Numbers(h, q) \in Seq(Seq(Nat))
          /\ Len(Numbers(g, q) \o Numbers(h, q)) = Len(Numbers(g, q)) + Len(Numbers(h, q))
      BY <3>1, ConcatProperties, Zenon
    <3> QED
      BY <3>1, <3>2
  <2>2. /\ Numbers(g \o h, q) \in Seq(Seq(Nat))
        /\ Len(Numbers(g \o h, q)) = Len(g) + Len(h)
    BY <1>1, NumbersType
  <2>3. ASSUME NEW i \in 1 .. Len(g) + Len(h)
        PROVE  Numbers(g \o h, q)[i] = (Numbers(g, q) \o Numbers(h, q))[i]
    <3>1. /\ (g \o h)[i] = IF i <= Len(g) THEN g[i] ELSE h[i - Len(g)]
          /\ (Numbers(g, q) \o Numbers(h, q))[i]
                = IF i <= Len(g) THEN Numbers(g, q)[i] ELSE Numbers(h, q)[i - Len(g)]
      <4>1. /\ Numbers(g, q) \in Seq(Seq(Nat)) /\ Len(Numbers(g, q)) = Len(g)
            /\ Numbers(h, q) \in Seq(Seq(Nat)) /\ Len(Numbers(h, q)) = Len(h)
        BY NumbersType
      <4>2. (g \o h)[i] = IF i <= Len(g) THEN g[i] ELSE h[i - Len(g)]
        BY ConcatProperties
      <4> QED
        BY <4>1, <4>2, ConcatProperties
    <3>2. /\ DOMAIN (g \o h) = 1 .. Len(g) + Len(h)
          /\ DOMAIN g = 1 .. Len(g) /\ DOMAIN h = 1 .. Len(h)
          /\ Len(g) \in Nat /\ Len(h) \in Nat
      BY <1>1, LenProperties
    <3> QED
      BY <3>1, <3>2 DEF Numbers
  <2> QED
    BY <2>1, <2>2, <2>3, SeqEqual
<1> QED
  <2>1. Numbers(Cat(g, h), q) = Cat(Numbers(g, q), Numbers(h, q))
    BY <1>2 DEF Cat
  <2>2. FlattenSeq(Cat(Numbers(g, q), Numbers(h, q))) = Cat(On(g, q), On(h, q))
    BY NumbersType, FlattenCat DEF On
  <2> QED
    BY <2>1, <2>2 DEF On

\* A gate called after the others comes last on its qubits and is not seen by the rest.
LEMMA OnAppend ==
    ASSUME NEW D, NEW gates \in Seq(GatesOn(D)), NEW gate \in GatesOn(D), NEW q
    PROVE  On(Append(gates, gate), q)
             = IF q \in Qids(gate) THEN Append(On(gates, q), gate.number) ELSE On(gates, q)
<1> DEFINE one == <<gate>>
<1>1. one \in Seq(GatesOn(D)) /\ Append(gates, gate) = Cat(gates, one)
  BY CatOne
<1>2. On(one, q) = IF q \in Qids(gate) THEN <<gate.number>> ELSE <<>>
  BY OnOne
<1> HIDE DEF one
<1>3. On(Cat(gates, one), q) = Cat(On(gates, q), On(one, q))
  BY <1>1, OnConcat
<1>4. On(gates, q) \in Seq(Nat) /\ gate.number \in Nat
  BY OnType DEF GatesOn
<1>5. /\ Cat(On(gates, q), <<gate.number>>) = Append(On(gates, q), gate.number)
      /\ Cat(On(gates, q), <<>>) = On(gates, q)
  BY <1>4, CatOne, CatEmpty
<1> QED
  BY <1>1, <1>2, <1>3, <1>5

\* A qubit goes through none of the gates that do not act on it.
LEMMA OnNone ==
    ASSUME NEW D, NEW gates \in Seq(GatesOn(D)), NEW q,
           \A i \in 1 .. Len(gates) : q \notin Qids(gates[i])
    PROVE  On(gates, q) = <<>>
<1>1. Numbers(gates, q) \in Seq(Seq({}))
  <2>1. Len(gates) \in Nat /\ DOMAIN gates = 1 .. Len(gates) /\ <<>> \in Seq({})
    BY LenProperties, EmptySeq
  <2>2. Numbers(gates, q) \in [1 .. Len(gates) -> Seq({})]
    BY <2>1 DEF Numbers
  <2> QED
    BY <2>1, <2>2
<1>2. On(gates, q) \in Seq({})
  BY <1>1, FlattenType DEF On
<1>3. \A s \in Seq({}) : s = <<>>
  <2> SUFFICES ASSUME NEW s \in Seq({}), s # <<>> PROVE FALSE
    OBVIOUS
  <2>1. 1 \in 1 .. Len(s)
    BY EmptySeq
  <2> QED
    BY <2>1, ElementOfSeq
<1> QED
  BY <1>2, <1>3

\* The same for sequences of clusters.
LEMMA OnAllConcat ==
    ASSUME NEW D, NEW s \in Seq(Seq(GatesOn(D))), NEW t \in Seq(Seq(GatesOn(D))), NEW q
    PROVE  OnAll(Cat(s, t), q) = Cat(OnAll(s, q), OnAll(t, q))
<1>1. FlattenSeq(s) \in Seq(GatesOn(D)) /\ FlattenSeq(t) \in Seq(GatesOn(D))
  BY FlattenType
<1> QED
  BY <1>1, FlattenCat, OnConcat DEF OnAll

\* What a qubit goes through in clusters is a sequence of gate numbers.
LEMMA OnAllType ==
    ASSUME NEW D, NEW clusters \in Seq(Seq(GatesOn(D))), NEW q
    PROVE  OnAll(clusters, q) \in Seq(Nat)
  BY FlattenType, OnType DEF OnAll

\* A list of one cluster is that cluster.
LEMMA OnAllOne ==
    ASSUME NEW D, NEW cluster \in Seq(GatesOn(D)), NEW q
    PROVE  OnAll(<<cluster>>, q) = On(cluster, q)
<1>1. <<cluster>> = Append(<<>>, cluster) /\ <<>> \in Seq(Seq(GatesOn(D)))
  OBVIOUS
<1>2. FlattenSeq(<<cluster>>) = FlattenSeq(<<>>) \o cluster
  BY <1>1, FlattenAppend
<1> QED
  BY <1>2, FlattenEmpty, ConcatEmptySeq DEF OnAll

\* A qubit goes through none of the clusters that do not act on it.
LEMMA OnAllNone ==
    ASSUME NEW D, NEW clusters \in Seq(Seq(GatesOn(D))), NEW q,
           \A i \in 1 .. Len(clusters) : q \notin ClusterQids(clusters[i])
    PROVE  OnAll(clusters, q) = <<>>
<1> DEFINE others == {gate \in GatesOn(D) : q \notin Qids(gate)}
<1>1. ASSUME NEW i \in 1 .. Len(clusters) PROVE clusters[i] \in Seq(others)
  <2>1. clusters[i] \in Seq(GatesOn(D))
    BY ElementOfSeq
  <2>2. DOMAIN clusters[i] = 1 .. Len(clusters[i]) /\ Len(clusters[i]) \in Nat
    BY <2>1, LenProperties
  <2>3. \A j \in 1 .. Len(clusters[i]) : clusters[i][j] \in others
    BY <2>1, <2>2, ElementOfSeq DEF ClusterQids
  <2>4. clusters[i] = [j \in 1 .. Len(clusters[i]) |-> clusters[i][j]]
    BY <2>1, LenProperties
  <2>5. clusters[i] \in [1 .. Len(clusters[i]) -> others]
    BY <2>3, <2>4
  <2>6. Len(clusters[i]) \in Nat
    BY <2>2
  <2> QED
    BY <2>5, <2>6, FunctionIsSeq
<1>2. clusters \in Seq(Seq(others))
  BY <1>1, SeqDef, LenProperties
<1>3. FlattenSeq(clusters) \in Seq(others)
  BY <1>2, FlattenType
<1>4. \A i \in 1 .. Len(FlattenSeq(clusters)) : q \notin Qids(FlattenSeq(clusters)[i])
  BY <1>3, ElementOfSeq
<1> QED
  BY <1>4, FlattenType, OnNone DEF OnAll

-----------------------------------------------------------------------------
(* Clustering keeps the order of the gates of every qubit.                  *)

IsPass(D, pass) ==
    pass \in [current : Seq(GatesOn(D)), next : Seq(Seq(GatesOn(D))),
              done : Seq(Seq(GatesOn(D)))]

\* What q goes through when the clusters of a pass are applied as they stand.
OnPass(pass, q) == Cat(OnAll(pass.done, q), Cat(On(pass.current, q), OnAll(pass.next, q)))

\* A cluster may leave the list for the front of it if every qubit it acts on is one
\* that no cluster before it acts on.
LEMMA OnRemoved ==
    ASSUME NEW D, NEW next \in Seq(Seq(GatesOn(D))), NEW i \in 1 .. Len(next), NEW q,
           \A j \in 1 .. i - 1 : ClusterQids(next[i]) \cap ClusterQids(next[j]) = {}
    PROVE  Cat(On(next[i], q), OnAll(RemoveAt(next, i), q)) = OnAll(next, q)
<1> DEFINE G == Seq(GatesOn(D))
           before == SubSeq(next, 1, i - 1)
           behind == SubSeq(next, i + 1, Len(next))
           chosen == <<next[i]>>
<1>1. Len(next) \in Nat /\ \A j \in 1 .. Len(next) : next[j] \in G
  BY LenProperties, ElementOfSeq
<1>2. /\ before \in Seq(G) /\ Len(before) = i - 1
      /\ \A j \in 1 .. i - 1 : before[j] = next[j]
  BY <1>1, SubSeqProperties
<1>3. behind \in Seq(G)
  BY <1>1, SubSeqProperties
<1>4. chosen \in Seq(G) /\ OnAll(chosen, q) = On(next[i], q)
  BY <1>1, OnAllOne
<1>5. next = Cat(before, Cat(chosen, behind))
  <2>1. SubSeq(next, i, Len(next)) = chosen \o behind
    BY <1>1, SubSeqRecursiveFirst
  <2>2. SubSeq(next, 1, i - 1) \o SubSeq(next, i, Len(next)) = SubSeq(next, 1, Len(next))
    <3>1. 1 \in 1 .. Len(next) + 1 /\ i - 1 \in 1 - 1 .. Len(next)
          /\ Len(next) \in i - 1 .. Len(next) /\ i - 1 + 1 = i
      BY <1>1
    <3> QED
      BY <3>1, ConcatAdjacentSubSeq
  <2> QED
    BY <2>1, <2>2, SubSeqFull DEF Cat
<1>6. RemoveAt(next, i) = Cat(before, behind)
  BY DEF RemoveAt, Cat
<1> HIDE DEF before, behind, chosen
<1>7. /\ OnAll(next, q) = Cat(OnAll(before, q), Cat(On(next[i], q), OnAll(behind, q)))
      /\ OnAll(RemoveAt(next, i), q) = Cat(OnAll(before, q), OnAll(behind, q))
  <2>1. Cat(chosen, behind) \in Seq(G)
    BY <1>3, <1>4, CatType
  <2> QED
    BY <1>2, <1>3, <1>4, <1>5, <1>6, <2>1, OnAllConcat
<1>8. OnAll(before, q) \in Seq(Nat) /\ OnAll(behind, q) \in Seq(Nat) /\ On(next[i], q) \in Seq(Nat)
  BY <1>1, <1>2, <1>3, OnAllType, OnType
<1>9. CASE q \in ClusterQids(next[i])
  <2>1. \A j \in 1 .. Len(before) : q \notin ClusterQids(before[j])
    BY <1>2, <1>9
  <2>2. OnAll(before, q) = <<>>
    BY <1>2, <2>1, OnAllNone
  <2> QED
    BY <1>7, <1>8, <2>2, CatEmpty, CatType
<1>10. CASE q \notin ClusterQids(next[i])
  <2>1. next[i] \in G /\ DOMAIN next[i] = 1 .. Len(next[i])
    BY <1>1, LenProperties
  <2>2. \A j \in 1 .. Len(next[i]) : q \notin Qids(next[i][j])
    BY <1>10, <2>1 DEF ClusterQids
  <2>3. On(next[i], q) = <<>>
    BY <2>1, <2>2, OnNone
  <2> QED
    BY <1>7, <1>8, <2>3, CatEmpty, CatType
<1> QED
  BY <1>9, <1>10

\* find_compatible_cluster returns the first one when there is one.
LEMMA FirstCompatible ==
    ASSUME NEW D, NEW pass, IsPass(D, pass), NEW width,
           Compatible(pass.current, pass.next, width) # {}
    PROVE  LET found == Compatible(pass.current, pass.next, width)
           IN  (CHOOSE i \in found : \A j \in found : i <= j) \in found
<1> DEFINE found == Compatible(pass.current, pass.next, width)
<1>1. found \subseteq DOMAIN pass.next
  BY DEF Compatible
<1>2. DOMAIN pass.next \subseteq Nat
  BY LenProperties DEF IsPass
<1> HIDE DEF found
<1>3. \E i \in found : \A j \in found : i <= j
  BY <1>1, <1>2, LeastNatural DEF found
<1> QED
  BY <1>3 DEF found

\* One step of a pass: the list is one shorter, no qubit sees a difference, and no
\* cluster has more qubits than it had, or than the pass allows.
LEMMA MergeKeepsOrder ==
    ASSUME NEW D, NEW pass, IsPass(D, pass), pass.next # <<>>, NEW width
    PROVE  /\ IsPass(D, Merge(pass, width))
           /\ Len(Merge(pass, width).next) = Len(pass.next) - 1
           /\ \A q : OnPass(Merge(pass, width), q) = OnPass(pass, q)
<1> DEFINE G == Seq(GatesOn(D))
           found == Compatible(pass.current, pass.next, width)
           first == CHOOSE i \in found : \A j \in found : i <= j
<1>1. pass.current \in G /\ pass.next \in Seq(G) /\ pass.done \in Seq(G)
  BY DEF IsPass
<1>2. CASE found = {} \/ Len(pass.current) >= MaxFusedDepth
  <2>1. Merge(pass, width) = [current |-> Head(pass.next), next |-> Tail(pass.next),
                              done |-> Append(pass.done, pass.current)]
    BY <1>2 DEF Merge
  <2>2. /\ Head(pass.next) \in G /\ Tail(pass.next) \in Seq(G)
        /\ Len(Tail(pass.next)) = Len(pass.next) - 1
    BY <1>1, HeadTailProperties
  <2>3. Append(pass.done, pass.current) \in Seq(G)
    BY <1>1, AppendProperties
  <2>4. ASSUME NEW q PROVE OnPass(Merge(pass, width), q) = OnPass(pass, q)
    <3> DEFINE one == <<pass.current>>
               head == <<Head(pass.next)>>
               tail == Tail(pass.next)
    <3>1. one \in Seq(G) /\ head \in Seq(G) /\ tail \in Seq(G)
      BY <1>1, <2>2
    <3>2. OnAll(one, q) = On(pass.current, q) /\ OnAll(head, q) = On(Head(pass.next), q)
      BY <1>1, <2>2, OnAllOne
    <3>3. Append(pass.done, pass.current) = Cat(pass.done, one)
      BY <1>1, CatOne
    <3>4. pass.next = Cat(head, tail)
      BY <1>1 DEF Cat
    <3> HIDE DEF one, head, tail
    <3>5. OnAll(Cat(pass.done, one), q) = Cat(OnAll(pass.done, q), OnAll(one, q))
      BY <1>1, <3>1, OnAllConcat
    <3>6. OnAll(Cat(head, tail), q) = Cat(OnAll(head, q), OnAll(tail, q))
      BY <3>1, OnAllConcat
    <3>7. /\ OnAll(pass.done, q) \in Seq(Nat) /\ On(pass.current, q) \in Seq(Nat)
          /\ On(Head(pass.next), q) \in Seq(Nat) /\ OnAll(tail, q) \in Seq(Nat)
          /\ OnAll(pass.next, q) \in Seq(Nat)
      BY <1>1, <2>2, <3>1, OnAllType, OnType
    <3>8. OnPass(Merge(pass, width), q)
            = Cat(Cat(OnAll(pass.done, q), On(pass.current, q)), OnAll(pass.next, q))
      BY <2>1, <3>2, <3>3, <3>4, <3>5, <3>6 DEF OnPass, tail
    <3> QED
      BY <3>7, <3>8, CatAssociative DEF OnPass
  <2>5. IsPass(D, Merge(pass, width))
    BY <1>1, <2>1, <2>2, <2>3 DEF IsPass
  <2>6. Merge(pass, width).next = Tail(pass.next)
    BY <2>1
  <2> QED
    BY <2>2, <2>4, <2>5, <2>6
<1>3. CASE found # {} /\ ~(Len(pass.current) >= MaxFusedDepth)
  <2>1. first \in found
    BY <1>3, FirstCompatible
  <2>2. Merge(pass, width) = [pass EXCEPT !.current = @ \o pass.next[first],
                                          !.next = RemoveAt(pass.next, first)]
    BY <1>3 DEF Merge
  <2> HIDE DEF first
  <2>3. /\ first \in 1 .. Len(pass.next)
        /\ \A j \in 1 .. first - 1 :
            /\ ClusterQids(pass.next[j]) \cap ClusterQids(pass.current) = {}
            /\ (ClusterQids(pass.next[first]) \ ClusterQids(pass.current))
                    \cap ClusterQids(pass.next[j]) = {}
    BY <1>1, <2>1, LenProperties DEF Compatible, Reachable
  <2>4. \A j \in 1 .. first - 1 :
            ClusterQids(pass.next[first]) \cap ClusterQids(pass.next[j]) = {}
    BY <2>3
  <2>5. pass.next[first] \in G
    BY <1>1, <2>3, ElementOfSeq
  <2>6. RemoveAt(pass.next, first) \in Seq(G) /\ Len(RemoveAt(pass.next, first)) = Len(pass.next) - 1
    <3>1. Len(pass.next) \in Nat /\ \A j \in 1 .. Len(pass.next) : pass.next[j] \in G
      BY <1>1, LenProperties, ElementOfSeq
    <3>2. /\ SubSeq(pass.next, 1, first - 1) \in Seq(G)
          /\ Len(SubSeq(pass.next, 1, first - 1)) = first - 1
      BY <2>3, <3>1, SubSeqProperties
    <3>3. /\ SubSeq(pass.next, first + 1, Len(pass.next)) \in Seq(G)
          /\ Len(SubSeq(pass.next, first + 1, Len(pass.next))) = Len(pass.next) - first
      BY <2>3, <3>1, SubSeqProperties
    <3> DEFINE before == SubSeq(pass.next, 1, first - 1)
               behind == SubSeq(pass.next, first + 1, Len(pass.next))
    <3>4. RemoveAt(pass.next, first) = before \o behind
      BY DEF RemoveAt
    <3> HIDE DEF before, behind
    <3>5. before \in Seq(G) /\ behind \in Seq(G)
      BY <3>2, <3>3 DEF before, behind
    <3>6. before \o behind \in Seq(G) /\ Len(before \o behind) = Len(before) + Len(behind)
      BY <3>5, ConcatProperties
    <3>7. Len(before) + Len(behind) = Len(pass.next) - 1
      <4>1. Len(before) = first - 1 /\ Len(behind) = Len(pass.next) - first
        BY <3>2, <3>3 DEF before, behind
      <4>2. first \in Nat /\ Len(pass.next) \in Nat
        BY <2>3, <3>1
      <4> QED
        BY <4>1, <4>2
    <3> QED
      BY <3>4, <3>6, <3>7
  <2>7. ASSUME NEW q PROVE OnPass(Merge(pass, width), q) = OnPass(pass, q)
    <3>1. Cat(On(pass.next[first], q), OnAll(RemoveAt(pass.next, first), q)) = OnAll(pass.next, q)
      BY <1>1, <2>3, <2>4, OnRemoved
    <3>2. On(Cat(pass.current, pass.next[first]), q)
            = Cat(On(pass.current, q), On(pass.next[first], q))
      BY <1>1, <2>5, OnConcat
    <3>3. /\ On(pass.current, q) \in Seq(Nat) /\ On(pass.next[first], q) \in Seq(Nat)
          /\ OnAll(RemoveAt(pass.next, first), q) \in Seq(Nat)
      BY <1>1, <2>5, <2>6, OnAllType, OnType
    <3>4. Cat(Cat(On(pass.current, q), On(pass.next[first], q)), OnAll(RemoveAt(pass.next, first), q))
            = Cat(On(pass.current, q), OnAll(pass.next, q))
      BY <3>1, <3>3, CatAssociative
    <3>5. /\ Merge(pass, width).done = pass.done
          /\ Merge(pass, width).current = Cat(pass.current, pass.next[first])
          /\ Merge(pass, width).next = RemoveAt(pass.next, first)
      BY <2>2 DEF IsPass, Cat
    <3> QED
      BY <3>2, <3>4, <3>5 DEF OnPass
  <2>8. pass.current \o pass.next[first] \in G
    BY <1>1, <2>5, ConcatProperties
  <2> QED
    BY <2>2, <2>6, <2>7, <2>8 DEF IsPass
<1> QED
  BY <1>2, <1>3

-----------------------------------------------------------------------------
(* There is a kernel for every cluster, if no span is wider than the widest. *)

HasKernel(cluster) == Cardinality(FusedQids(cluster)) <= MaxKernelSpan

AllHaveKernels(clusters) == \A i \in 1 .. Len(clusters) : HasKernel(clusters[i])

PassHasKernels(pass) ==
    HasKernel(pass.current) /\ AllHaveKernels(pass.next) /\ AllHaveKernels(pass.done)

\* A cluster acts on finitely many qubits.
LEMMA ClusterQidsFinite ==
    ASSUME NEW D, IsFiniteSet(D), NEW cluster \in Seq(GatesOn(D))
    PROVE  ClusterQids(cluster) \subseteq D /\ IsFiniteSet(ClusterQids(cluster))
<1>1. \A i \in DOMAIN cluster : cluster[i] \in GatesOn(D)
  BY LenProperties, ElementOfSeq
<1>2. ClusterQids(cluster) \subseteq D
  BY <1>1 DEF ClusterQids, Qids, GatesOn
<1> QED
  BY <1>2, FS_Subset

\* The controls of a gate are common to all gates of a cluster that has no other.
LEMMA OneGateHasKernel ==
    ASSUME NEW gate, MaxKernelSpan >= 1
    PROVE  HasKernel(<<gate>>)
<1>1. FusedQids(<<gate>>) \subseteq {gate.target}
  BY DEF FusedQids, ClusterQids, Qids
<1>2. IsFiniteSet({gate.target}) /\ Cardinality({gate.target}) = 1
  BY FS_Singleton
<1>3. /\ Cardinality(FusedQids(<<gate>>)) <= 1
      /\ Cardinality(FusedQids(<<gate>>)) \in Nat
  BY <1>1, <1>2, FS_Subset, FS_CardinalityType
<1> QED
  BY <1>3, ConstantsAssumption DEF HasKernel, ConstantsAssumption

\* Two clusters that fit into a width have a kernel for it together.
LEMMA JoinedHasKernel ==
    ASSUME NEW D, IsFiniteSet(D), NEW c \in Seq(GatesOn(D)), NEW d \in Seq(GatesOn(D)),
           NEW width \in Nat, width <= MaxKernelSpan,
           Cardinality(ClusterQids(c) \cup ClusterQids(d)) <= width
    PROVE  HasKernel(c \o d)
<1>1. c \o d \in Seq(GatesOn(D)) /\ DOMAIN (c \o d) = 1 .. Len(c) + Len(d)
  BY ConcatProperties, LenProperties
<1>2. ClusterQids(c \o d) \subseteq ClusterQids(c) \cup ClusterQids(d)
  <2>1. DOMAIN c = 1 .. Len(c) /\ DOMAIN d = 1 .. Len(d) /\ Len(c) \in Nat /\ Len(d) \in Nat
    BY LenProperties
  <2>2. ASSUME NEW i \in 1 .. Len(c) + Len(d)
        PROVE  \/ \E j \in DOMAIN c : (c \o d)[i] = c[j]
               \/ \E j \in DOMAIN d : (c \o d)[i] = d[j]
    <3>1. (c \o d)[i] = IF i <= Len(c) THEN c[i] ELSE d[i - Len(c)]
      BY ConcatProperties
    <3>2. (i <= Len(c) => i \in DOMAIN c) /\ (~(i <= Len(c)) => i - Len(c) \in DOMAIN d)
      BY <2>1
    <3> QED
      BY <3>1, <3>2
  <2> QED
    BY <1>1, <2>2 DEF ClusterQids
<1>3. FusedQids(c \o d) \subseteq ClusterQids(c) \cup ClusterQids(d)
  BY <1>2 DEF FusedQids
<1>4. IsFiniteSet(ClusterQids(c) \cup ClusterQids(d))
  BY ClusterQidsFinite, FS_Union
<1>5. /\ Cardinality(FusedQids(c \o d)) <= Cardinality(ClusterQids(c) \cup ClusterQids(d))
      /\ Cardinality(FusedQids(c \o d)) \in Nat
      /\ Cardinality(ClusterQids(c) \cup ClusterQids(d)) \in Nat
  BY <1>3, <1>4, FS_Subset, FS_CardinalityType
<1> QED
  BY <1>5, ConstantsAssumption DEF HasKernel, ConstantsAssumption

\* A step of a pass makes no cluster for which there is no kernel.
LEMMA MergeKeepsKernels ==
    ASSUME NEW D, IsFiniteSet(D), NEW pass, IsPass(D, pass), pass.next # <<>>,
           NEW width \in Nat, width <= MaxKernelSpan, PassHasKernels(pass)
    PROVE  PassHasKernels(Merge(pass, width))
<1> DEFINE G == Seq(GatesOn(D))
           found == Compatible(pass.current, pass.next, width)
           first == CHOOSE i \in found : \A j \in found : i <= j
<1>1. pass.current \in G /\ pass.next \in Seq(G) /\ pass.done \in Seq(G)
  BY DEF IsPass
<1>2. Len(pass.next) \in Nat \ {0} /\ \A j \in 1 .. Len(pass.next) : pass.next[j] \in G
  BY <1>1, EmptySeq, ElementOfSeq
<1>3. CASE found = {} \/ Len(pass.current) >= MaxFusedDepth
  <2>1. Merge(pass, width) = [current |-> Head(pass.next), next |-> Tail(pass.next),
                              done |-> Append(pass.done, pass.current)]
    BY <1>3 DEF Merge
  <2>2. HasKernel(Head(pass.next))
    BY <1>1, <1>2 DEF PassHasKernels, AllHaveKernels
  <2>3. AllHaveKernels(Tail(pass.next))
    <3>1. /\ Len(Tail(pass.next)) = Len(pass.next) - 1
          /\ \A i \in 1 .. Len(Tail(pass.next)) : Tail(pass.next)[i] = pass.next[i + 1]
      BY <1>1, HeadTailProperties
    <3>2. \A i \in 1 .. Len(pass.next) - 1 : i + 1 \in 1 .. Len(pass.next)
      BY <1>2
    <3> QED
      BY <3>1, <3>2 DEF PassHasKernels, AllHaveKernels
  <2>4. AllHaveKernels(Append(pass.done, pass.current))
    <3>1. /\ Len(Append(pass.done, pass.current)) = Len(pass.done) + 1
          /\ \A i \in 1 .. Len(pass.done) : Append(pass.done, pass.current)[i] = pass.done[i]
          /\ Append(pass.done, pass.current)[Len(pass.done) + 1] = pass.current
      BY <1>1, AppendProperties
    <3>2. Len(pass.done) \in Nat
      BY <1>1, LenProperties
    <3>3. \A i \in 1 .. Len(pass.done) + 1 : i \in 1 .. Len(pass.done) \/ i = Len(pass.done) + 1
      BY <3>2
    <3> QED
      BY <3>1, <3>3 DEF PassHasKernels, AllHaveKernels
  <2> QED
    BY <2>1, <2>2, <2>3, <2>4 DEF PassHasKernels
<1>4. CASE found # {} /\ ~(Len(pass.current) >= MaxFusedDepth)
  <2>1. first \in found
    BY <1>4, FirstCompatible
  <2>2. Merge(pass, width) = [pass EXCEPT !.current = @ \o pass.next[first],
                                          !.next = RemoveAt(pass.next, first)]
    BY <1>4 DEF Merge
  <2> HIDE DEF first
  <2>3. /\ first \in 1 .. Len(pass.next)
        /\ Cardinality(ClusterQids(pass.current) \cup ClusterQids(pass.next[first])) <= width
    BY <1>1, <2>1, LenProperties DEF Compatible, Fits
  <2>4. HasKernel(pass.current \o pass.next[first])
    BY <1>1, <1>2, <2>3, JoinedHasKernel
  <2>5. AllHaveKernels(RemoveAt(pass.next, first))
    <3> DEFINE before == SubSeq(pass.next, 1, first - 1)
               behind == SubSeq(pass.next, first + 1, Len(pass.next))
    <3>1. /\ before \in Seq(G) /\ Len(before) = first - 1
          /\ \A i \in 1 .. first - 1 : before[i] = pass.next[i]
      BY <1>2, <2>3, SubSeqProperties
    <3>2. /\ behind \in Seq(G) /\ Len(behind) = Len(pass.next) - first
          /\ \A i \in 1 .. Len(pass.next) - first : behind[i] = pass.next[first + i]
      BY <1>2, <2>3, SubSeqProperties
    <3>3. RemoveAt(pass.next, first) = before \o behind
      BY DEF RemoveAt
    <3> HIDE DEF before, behind
    <3>4. /\ Len(before \o behind) = Len(before) + Len(behind)
          /\ \A i \in 1 .. Len(before) + Len(behind) :
                (before \o behind)[i] = IF i <= Len(before) THEN before[i]
                                        ELSE behind[i - Len(before)]
      BY <3>1, <3>2, ConcatProperties
    <3>5. ASSUME NEW i \in 1 .. Len(before) + Len(behind) PROVE HasKernel((before \o behind)[i])
      <4>1. \E j \in 1 .. Len(pass.next) : (before \o behind)[i] = pass.next[j]
        <5>1. Len(before) \in Nat /\ Len(behind) \in Nat
          BY <3>1, <3>2, LenProperties
        <5>2. CASE i <= Len(before)
          BY <1>2, <2>3, <3>1, <3>4, <5>1, <5>2
        <5>3. CASE ~(i <= Len(before))
          <6>1. i - Len(before) \in 1 .. Len(pass.next) - first
            BY <1>2, <2>3, <3>1, <3>2, <5>1, <5>3
          <6>2. first + (i - Len(before)) \in 1 .. Len(pass.next)
            BY <1>2, <2>3, <6>1
          <6> QED
            BY <3>2, <3>4, <5>3, <6>1, <6>2
        <5> QED
          BY <5>2, <5>3
      <4> QED
        BY <4>1 DEF PassHasKernels, AllHaveKernels
    <3> QED
      BY <3>3, <3>4, <3>5 DEF AllHaveKernels
  <2>6. /\ Merge(pass, width).current = pass.current \o pass.next[first]
        /\ Merge(pass, width).next = RemoveAt(pass.next, first)
        /\ Merge(pass, width).done = pass.done
    BY <2>2 DEF IsPass
  <2> QED
    BY <2>4, <2>5, <2>6 DEF PassHasKernels
<1> QED
  BY <1>3, <1>4

-----------------------------------------------------------------------------
(* Passes, and what make_clusters makes of the gates.                       *)

Start(clusters) == [current |-> Head(clusters), next |-> Tail(clusters), done |-> <<>>]

\* The states of a pass exist: Pass takes the last of them.
LEMMA PassByFunction ==
    ASSUME NEW D, NEW clusters \in Seq(Seq(GatesOn(D))), clusters # <<>>, NEW width
    PROVE  \E f : /\ f[0] = Start(clusters)
                  /\ \A n \in 1 .. Len(clusters) - 1 : f[n] = Merge(f[n - 1], width)
                  /\ Pass(clusters, width) = Append(f[Len(clusters) - 1].done,
                                                    f[Len(clusters) - 1].current)
<1> DEFINE start == Start(clusters)
           last == Len(clusters) - 1
           Defines(f, n) ==
             f = [m \in 0 .. n |-> IF m = 0 THEN start ELSE Merge(f[m - 1], width)]
           g == CHOOSE f : Defines(f, last)
           Lengths == {n \in Nat : \E f : Defines(f, n)}
<1>0. last \in Nat
  BY EmptySeq
<1>1. 0 \in Lengths
  <2> DEFINE f == [m \in 0 .. 0 |-> start]
  <2>1. f = [m \in 0 .. 0 |-> IF m = 0 THEN start ELSE Merge(f[m - 1], width)]
    OBVIOUS
  <2> QED
    BY <2>1
<1>2. ASSUME NEW n \in Nat, n \in Lengths PROVE n + 1 \in Lengths
  <2>1. PICK f : Defines(f, n)
    BY <1>2
  <2> DEFINE h == [m \in 0 .. n + 1 |-> IF m = n + 1 THEN Merge(f[n], width) ELSE f[m]]
  <2>2. \A m \in 0 .. n : f[m] = IF m = 0 THEN start ELSE Merge(f[m - 1], width)
    BY <2>1
  <2> HIDE DEF start
  <2>3. ASSUME NEW m \in 0 .. n + 1
        PROVE  h[m] = IF m = 0 THEN start ELSE Merge(h[m - 1], width)
    <3>1. CASE m = n + 1
      <4>1. m # 0 /\ m - 1 = n /\ n \in 0 .. n + 1 /\ n # n + 1
        BY <3>1
      <4>2. h[m] = Merge(f[n], width) /\ h[n] = f[n]
        BY <3>1, <4>1
      <4> HIDE DEF h
      <4> QED
        BY <4>1, <4>2
    <3>2. CASE m # n + 1
      <4>1. m \in 0 .. n /\ (m # 0 => m - 1 \in 0 .. n + 1 /\ m - 1 # n + 1)
        BY <3>2
      <4>2. h[m] = f[m] /\ (m # 0 => h[m - 1] = f[m - 1])
        BY <3>2, <4>1
      <4> HIDE DEF h
      <4> QED
        BY <2>2, <4>1, <4>2
    <3> QED
      BY <3>1, <3>2
  <2>4. h = [m \in 0 .. n + 1 |-> IF m = 0 THEN start ELSE Merge(h[m - 1], width)]
    <3>1. h = [m \in 0 .. n + 1 |-> h[m]]
      OBVIOUS
    <3> HIDE DEF h
    <3> QED
      BY <2>3, <3>1
  <2>5. Defines(h, n + 1)
    BY <2>4
  <2> HIDE DEF Defines, h
  <2> QED
    BY <2>5
<1>3. Nat \subseteq Lengths
  <2> HIDE DEF Lengths
  <2> QED BY <1>1, <1>2, NaturalInduction
<1>4. \E f : Defines(f, last)
  BY <1>0, <1>3
<1>5. Defines(g, last)
  <2> HIDE DEF Defines
  <2> QED BY <1>4
<1>6. Pass(clusters, width) = Append(g[last].done, g[last].current)
  BY Zenon DEF Pass, Start
<1> HIDE DEF g
<1>7. \A n \in 0 .. last : g[n] = IF n = 0 THEN start ELSE Merge(g[n - 1], width)
  BY <1>5
<1>8. g[0] = start /\ \A n \in 1 .. last : g[n] = Merge(g[n - 1], width)
  <2> HIDE DEF start
  <2> QED BY <1>0, <1>7
<1> QED
  BY <1>6, <1>8

\* A pass over the clusters makes no difference to any qubit.
LEMMA PassKeepsOrder ==
    ASSUME NEW D, NEW clusters \in Seq(Seq(GatesOn(D))), clusters # <<>>, NEW width
    PROVE  /\ Pass(clusters, width) \in Seq(Seq(GatesOn(D)))
           /\ Pass(clusters, width) # <<>>
           /\ \A q : OnAll(Pass(clusters, width), q) = OnAll(clusters, q)
           /\ IsFiniteSet(D) /\ width \in Nat /\ width <= MaxKernelSpan
                /\ AllHaveKernels(clusters) => AllHaveKernels(Pass(clusters, width))
<1> DEFINE G == Seq(GatesOn(D))
           last == Len(clusters) - 1
           fits == /\ IsFiniteSet(D) /\ width \in Nat /\ width <= MaxKernelSpan
                   /\ AllHaveKernels(clusters)
<1>1. PICK f : /\ f[0] = Start(clusters)
               /\ \A n \in 1 .. last : f[n] = Merge(f[n - 1], width)
               /\ Pass(clusters, width) = Append(f[last].done, f[last].current)
  BY PassByFunction
<1>2. last \in Nat /\ Len(clusters) = last + 1
  BY EmptySeq
<1> HIDE DEF last
<1> DEFINE Good(n) == /\ IsPass(D, f[n]) /\ Len(f[n].next) = last - n
                      /\ \A q : OnPass(f[n], q) = OnAll(clusters, q)
                      /\ fits => PassHasKernels(f[n])
           Steps == {n \in Nat : n <= last => Good(n)}
<1> HIDE DEF fits, Good
<1>3. 0 \in Steps
  <2>1. Head(clusters) \in G /\ Tail(clusters) \in Seq(G) /\ Len(Tail(clusters)) = last
    BY <1>2, HeadTailProperties
  <2>2. IsPass(D, Start(clusters)) /\ Start(clusters).next = Tail(clusters)
    BY <2>1, EmptySeq DEF IsPass, Start
  <2>3. ASSUME NEW q PROVE OnPass(Start(clusters), q) = OnAll(clusters, q)
    <3> DEFINE head == <<Head(clusters)>>
               tail == Tail(clusters)
    <3>1. /\ head \in Seq(G) /\ tail \in Seq(G) /\ clusters = Cat(head, tail)
          /\ OnAll(head, q) = On(Head(clusters), q)
      BY <2>1, OnAllOne DEF Cat
    <3>2. /\ Start(clusters).current = Head(clusters) /\ Start(clusters).next = tail
          /\ Start(clusters).done = <<>>
      BY DEF Start
    <3> HIDE DEF head, tail
    <3>3. OnAll(Cat(head, tail), q) = Cat(OnAll(head, q), OnAll(tail, q))
      BY <3>1, OnAllConcat
    <3>4. OnAll(<<>>, q) = <<>>
      BY FlattenEmpty, OnEmpty DEF OnAll
    <3>5. Cat(OnAll(head, q), OnAll(tail, q)) \in Seq(Nat)
      BY <3>1, OnAllType, CatType
    <3> QED
      BY <3>1, <3>2, <3>3, <3>4, <3>5, CatEmpty DEF OnPass
  <2>4. ASSUME fits PROVE PassHasKernels(Start(clusters))
    <3>1. HasKernel(Head(clusters))
      BY <1>2, <2>4 DEF AllHaveKernels, fits
    <3>2. AllHaveKernels(Tail(clusters))
      <4>1. \A i \in 1 .. last : Tail(clusters)[i] = clusters[i + 1]
        BY <2>1, HeadTailProperties
      <4>2. \A i \in 1 .. last : i + 1 \in 1 .. Len(clusters)
        BY <1>2
      <4> QED
        BY <2>1, <2>4, <4>1, <4>2 DEF AllHaveKernels, fits
    <3>3. AllHaveKernels(<<>>)
      BY DEF AllHaveKernels
    <3> QED
      BY <3>1, <3>2, <3>3 DEF PassHasKernels, Start
  <2>5. Len(f[0].next) = last - 0
    BY <1>1, <1>2, <2>1, <2>2
  <2>6. Good(0)
    BY <1>1, <2>2, <2>3, <2>4, <2>5 DEF Good
  <2> QED
    BY <2>6
<1>4. ASSUME NEW n \in Nat, n \in Steps PROVE n + 1 \in Steps
  <2> SUFFICES ASSUME n + 1 <= last PROVE Good(n + 1)
    OBVIOUS
  <2>1. Good(n)
    BY <1>2, <1>4
  <2>2. f[n + 1] = Merge(f[n], width)
    <3>1. n + 1 \in 1 .. last /\ n + 1 - 1 = n
      BY <1>2
    <3> QED
      BY <1>1, <3>1
  <2>3. f[n].next # <<>>
    <3>1. Len(f[n].next) = last - n
      BY <2>1 DEF Good
    <3>2. last - n # 0
      BY <1>2
    <3>3. Len(<<>>) = 0
      OBVIOUS
    <3> QED
      BY <3>1, <3>2, <3>3
  <2>4. /\ IsPass(D, Merge(f[n], width)) /\ Len(Merge(f[n], width).next) = Len(f[n].next) - 1
        /\ \A q : OnPass(Merge(f[n], width), q) = OnPass(f[n], q)
    BY <2>1, <2>3, MergeKeepsOrder DEF Good
  <2>5. fits => PassHasKernels(Merge(f[n], width))
    BY <2>1, <2>3, MergeKeepsKernels DEF Good, fits
  <2>6. last - n - 1 = last - (n + 1)
    BY <1>2
  <2> QED
    BY <2>1, <2>2, <2>4, <2>5, <2>6 DEF Good
<1>5. Nat \subseteq Steps
  <2> HIDE DEF Steps
  <2> QED BY <1>3, <1>4, NaturalInduction
<1>6. Good(last)
  BY <1>2, <1>5
<1> DEFINE done == f[last].done
           current == f[last].current
<1>7. done \in Seq(G) /\ current \in G /\ f[last].next \in Seq(G)
  BY <1>6 DEF IsPass, Good
<1> HIDE DEF done, current
<1>8. f[last].next = <<>>
  <2>1. Len(f[last].next) = 0
    BY <1>2, <1>6 DEF Good
  <2> QED
    BY <1>7, <2>1, EmptySeq
<1>9. /\ Append(done, current) \in Seq(G) /\ Append(done, current) # <<>>
      /\ Len(Append(done, current)) = Len(done) + 1
      /\ \A i \in 1 .. Len(done) : Append(done, current)[i] = done[i]
      /\ Append(done, current)[Len(done) + 1] = current
  BY <1>7, AppendProperties
<1>10. ASSUME NEW q PROVE OnAll(Append(done, current), q) = OnAll(clusters, q)
  <2> DEFINE one == <<current>>
  <2>1. /\ one \in Seq(G) /\ Append(done, current) = Cat(done, one)
        /\ OnAll(one, q) = On(current, q)
    BY <1>7, OnAllOne, CatOne
  <2> HIDE DEF one
  <2>2. OnAll(Cat(done, one), q) = Cat(OnAll(done, q), OnAll(one, q))
    BY <1>7, <2>1, OnAllConcat
  <2>3. OnAll(<<>>, q) = <<>> /\ On(current, q) \in Seq(Nat)
    BY <1>7, FlattenEmpty, OnEmpty, OnType DEF OnAll
  <2>4. OnPass(f[last], q) = Cat(OnAll(done, q), On(current, q))
    BY <1>8, <2>3, CatEmpty DEF OnPass, done, current
  <2> QED
    BY <1>6, <2>1, <2>2, <2>4 DEF Good
<1>11. ASSUME fits PROVE AllHaveKernels(Append(done, current))
  <2>1. Len(done) \in Nat
    BY <1>7, LenProperties
  <2>2. \A i \in 1 .. Len(done) + 1 : i \in 1 .. Len(done) \/ i = Len(done) + 1
    BY <2>1
  <2>3. HasKernel(current) /\ AllHaveKernels(done)
    BY <1>6, <1>11 DEF PassHasKernels, Good, done, current
  <2> QED
    BY <1>9, <2>2, <2>3 DEF AllHaveKernels
<1> QED
  BY <1>1, <1>9, <1>10, <1>11 DEF fits, done, current

Singletons(s) == [i \in DOMAIN s |-> <<s[i]>>]

\* Clusters of one gate each are the gates in their order.
LEMMA FlattenSingletons ==
    ASSUME NEW S
    PROVE  \A s \in Seq(S) : Singletons(s) \in Seq(Seq(S)) /\ FlattenSeq(Singletons(s)) = s
<1> DEFINE T == {s \in Seq(S) : Singletons(s) \in Seq(Seq(S)) /\ FlattenSeq(Singletons(s)) = s}
<1>1. <<>> \in T
  <2>1. Singletons(<<>>) = <<>>
    BY DEF Singletons
  <2> QED
    BY <2>1, FlattenEmpty, EmptySeq
<1>2. ASSUME NEW s \in Seq(S), NEW e \in S, s \in T PROVE Append(s, e) \in T
  <2> DEFINE one == <<e>>
  <2>1. one \in Seq(S) /\ Append(s, e) = s \o one
    BY AppendIsConcat
  <2>2. Singletons(Append(s, e)) = Append(Singletons(s), one)
    <3>1. /\ Append(s, e) \in Seq(S) /\ Len(Append(s, e)) = Len(s) + 1
          /\ \A i \in 1 .. Len(s) : Append(s, e)[i] = s[i]
          /\ Append(s, e)[Len(s) + 1] = e
      BY AppendProperties
    <3>2. Len(s) \in Nat /\ DOMAIN s = 1 .. Len(s) /\ DOMAIN Append(s, e) = 1 .. Len(s) + 1
      BY <3>1, LenProperties
    <3>3. Len(Singletons(s)) = Len(s)
      BY <1>2, <3>2, LenProperties DEF Singletons
    <3>4. /\ Append(Singletons(s), one) \in Seq(Seq(S))
          /\ Len(Append(Singletons(s), one)) = Len(s) + 1
          /\ \A i \in 1 .. Len(s) : Append(Singletons(s), one)[i] = Singletons(s)[i]
          /\ Append(Singletons(s), one)[Len(s) + 1] = one
      BY <1>2, <2>1, <3>3, AppendProperties
    <3>5. Append(Singletons(s), one) = [i \in 1 .. Len(s) + 1 |-> Append(Singletons(s), one)[i]]
      BY <3>4, LenProperties
    <3>6. \A i \in 1 .. Len(s) + 1 : i \in 1 .. Len(s) \/ i = Len(s) + 1
      BY <3>2
    <3>7. \A i \in 1 .. Len(s) + 1 : <<Append(s, e)[i]>> = Append(Singletons(s), one)[i]
      BY <3>1, <3>2, <3>4, <3>6 DEF Singletons
    <3> QED
      BY <3>2, <3>5, <3>7 DEF Singletons
  <2> HIDE DEF one
  <2>3. Append(Singletons(s), one) \in Seq(Seq(S))
    BY <1>2, <2>1, AppendProperties
  <2>4. FlattenSeq(Append(Singletons(s), one)) = FlattenSeq(Singletons(s)) \o one
    BY <1>2, <2>1, FlattenAppend
  <2> QED
    BY <1>2, <2>1, <2>2, <2>3, <2>4, AppendProperties
<1> HIDE DEF T
<1>3. Seq(S) \subseteq T
  BY <1>1, <1>2, SequenceInduction
<1> QED
  BY <1>3 DEF T

\* The clusters that make_clusters returns, applied in order, take every qubit through
\* the gates the program called, in the order it called them.
LEMMA ClustersKeepOrder ==
    ASSUME NEW D, NEW gates \in Seq(GatesOn(D)), NEW span \in Nat
    PROVE  /\ MakeClusters(gates, span) \in Seq(Seq(GatesOn(D)))
           /\ \A q : OnAll(MakeClusters(gates, span), q) = On(gates, q)
           /\ IsFiniteSet(D) /\ MaxKernelSpan >= 1 /\ span <= MaxKernelSpan
                => AllHaveKernels(MakeClusters(gates, span))
<1>1. CASE gates = <<>>
  <2>1. MakeClusters(gates, span) = <<>>
    BY <1>1 DEF MakeClusters
  <2>2. \A q : OnAll(<<>>, q) = <<>> /\ On(<<>>, q) = <<>>
    BY FlattenEmpty, OnEmpty DEF OnAll
  <2>3. AllHaveKernels(<<>>)
    BY DEF AllHaveKernels
  <2> QED
    BY <1>1, <2>1, <2>2, <2>3, EmptySeq
<1>2. CASE gates # <<>>
  <2> DEFINE start == Singletons(gates)
             Defines(f, n) == f = [w \in 0 .. n |-> IF w = 0 THEN start ELSE Pass(f[w - 1], w)]
             g == CHOOSE f : Defines(f, span)
             Widths == {n \in Nat : \E f : Defines(f, n)}
  <2>1. 0 \in Widths
    <3> DEFINE f == [w \in 0 .. 0 |-> start]
    <3>1. f = [w \in 0 .. 0 |-> IF w = 0 THEN start ELSE Pass(f[w - 1], w)]
      OBVIOUS
    <3> QED
      BY <3>1
  <2>2. ASSUME NEW n \in Nat, n \in Widths PROVE n + 1 \in Widths
    <3>1. PICK f : Defines(f, n)
      BY <2>2
    <3> DEFINE h == [w \in 0 .. n + 1 |-> IF w = n + 1 THEN Pass(f[n], n + 1) ELSE f[w]]
    <3>2. \A w \in 0 .. n : f[w] = IF w = 0 THEN start ELSE Pass(f[w - 1], w)
      BY <3>1
    <3> HIDE DEF start
    <3>3. ASSUME NEW w \in 0 .. n + 1 PROVE h[w] = IF w = 0 THEN start ELSE Pass(h[w - 1], w)
      <4>1. CASE w = n + 1
        <5>1. w # 0 /\ w - 1 = n /\ n \in 0 .. n + 1 /\ n # n + 1
          BY <4>1
        <5>2. h[w] = Pass(f[n], n + 1) /\ h[n] = f[n]
          BY <4>1, <5>1
        <5> HIDE DEF h
        <5> QED
          BY <4>1, <5>1, <5>2
      <4>2. CASE w # n + 1
        <5>1. w \in 0 .. n /\ (w # 0 => w - 1 \in 0 .. n + 1 /\ w - 1 # n + 1)
          BY <4>2
        <5>2. h[w] = f[w] /\ (w # 0 => h[w - 1] = f[w - 1])
          BY <4>2, <5>1
        <5> HIDE DEF h
        <5> QED
          BY <3>2, <5>1, <5>2
      <4> QED
        BY <4>1, <4>2
    <3>4. h = [w \in 0 .. n + 1 |-> IF w = 0 THEN start ELSE Pass(h[w - 1], w)]
      <4>1. h = [w \in 0 .. n + 1 |-> h[w]]
        OBVIOUS
      <4> HIDE DEF h
      <4> QED
        BY <3>3, <4>1
    <3>5. Defines(h, n + 1)
      BY <3>4
    <3> HIDE DEF Defines, h
    <3> QED
      BY <3>5
  <2>3. Nat \subseteq Widths
    <3> HIDE DEF Widths
    <3> QED BY <2>1, <2>2, NaturalInduction
  <2>4. \E f : Defines(f, span)
    BY <2>3
  <2>5. Defines(g, span)
    <3> HIDE DEF Defines
    <3> QED BY <2>4
  <2>6. MakeClusters(gates, span) = g[span]
    BY <1>2, Zenon DEF MakeClusters, Singletons
  <2> HIDE DEF g
  <2>7. \A w \in 0 .. span : g[w] = IF w = 0 THEN start ELSE Pass(g[w - 1], w)
    BY <2>5
  <2> DEFINE fits == IsFiniteSet(D) /\ MaxKernelSpan >= 1 /\ span <= MaxKernelSpan
             Good(w) == /\ g[w] \in Seq(Seq(GatesOn(D))) /\ g[w] # <<>>
                        /\ \A q : OnAll(g[w], q) = On(gates, q)
                        /\ fits => AllHaveKernels(g[w])
             Steps == {n \in Nat : n <= span => Good(n)}
  <2> HIDE DEF fits, Good, Defines
  <2>8. 0 \in Steps
    <3>1. start \in Seq(Seq(GatesOn(D))) /\ FlattenSeq(start) = gates
      BY FlattenSingletons
    <3>2. Len(gates) \in Nat \ {0} /\ DOMAIN gates = 1 .. Len(gates)
      BY <1>2, EmptySeq, LenProperties
    <3>3. Len(start) = Len(gates) /\ \A i \in 1 .. Len(gates) : start[i] = <<gates[i]>>
      BY <3>1, <3>2, LenProperties DEF Singletons
    <3>4. ASSUME fits PROVE AllHaveKernels(start)
      BY <3>3, <3>4, OneGateHasKernel DEF AllHaveKernels, fits
    <3> HIDE DEF start
    <3>5. g[0] = start
      BY <2>7
    <3>6. start # <<>>
      BY <3>2, <3>3
    <3>7. Good(0)
      BY <3>1, <3>4, <3>5, <3>6 DEF Good, OnAll
    <3> QED
      BY <3>7
  <2>9. ASSUME NEW n \in Nat, n \in Steps PROVE n + 1 \in Steps
    <3> SUFFICES ASSUME n + 1 <= span PROVE Good(n + 1)
      OBVIOUS
    <3>1. Good(n) /\ n + 1 \in 0 .. span /\ n + 1 # 0 /\ n + 1 - 1 = n
      BY <2>9
    <3> HIDE DEF start
    <3>2. g[n + 1] = Pass(g[n], n + 1)
      BY <2>7, <3>1
    <3>3. /\ Pass(g[n], n + 1) \in Seq(Seq(GatesOn(D))) /\ Pass(g[n], n + 1) # <<>>
          /\ \A q : OnAll(Pass(g[n], n + 1), q) = OnAll(g[n], q)
          /\ IsFiniteSet(D) /\ n + 1 \in Nat /\ n + 1 <= MaxKernelSpan
               /\ AllHaveKernels(g[n]) => AllHaveKernels(Pass(g[n], n + 1))
      BY <3>1, PassKeepsOrder DEF Good
    <3>4. ASSUME fits PROVE IsFiniteSet(D) /\ n + 1 \in Nat /\ n + 1 <= MaxKernelSpan
      BY <3>4, ConstantsAssumption DEF fits, ConstantsAssumption
    <3> QED
      BY <3>1, <3>2, <3>3, <3>4 DEF Good
  <2>10. Nat \subseteq Steps
    <3> HIDE DEF Steps
    <3> QED BY <2>8, <2>9, NaturalInduction
  <2>11. Good(span)
    BY <2>10
  <2> QED
    BY <2>6, <2>11 DEF Good, fits
<1> QED
  BY <1>1, <1>2

\* What a flush applies.
Applied(pending, span) ==
    LET clusters == MakeClusters(pending, span)
    IN  FlattenSeq([i \in DOMAIN clusters |-> Fused(clusters[i])])

\* A flush applies gates that were waiting.
LEMMA AppliedType ==
    ASSUME NEW D, NEW pending \in Seq(GatesOn(D)), NEW span \in Nat
    PROVE  Applied(pending, span) \in Seq(GatesOn(D))
<1> DEFINE clusters == MakeClusters(pending, span)
<1>1. clusters \in Seq(Seq(GatesOn(D)))
  BY ClustersKeepOrder
<1> HIDE DEF clusters
<1>2. Len(clusters) \in Nat /\ DOMAIN clusters = 1 .. Len(clusters)
  BY <1>1, LenProperties
<1>3. \A i \in 1 .. Len(clusters) : Fused(clusters[i]) \in Seq(GatesOn(D))
  BY <1>1, ElementOfSeq, EmptySeq DEF Fused
<1>4. [i \in DOMAIN clusters |-> Fused(clusters[i])] \in Seq(Seq(GatesOn(D)))
  BY <1>2, <1>3
<1>5. FlattenSeq([i \in DOMAIN clusters |-> Fused(clusters[i])]) \in Seq(GatesOn(D))
  BY <1>4, FlattenType
<1> QED
  BY <1>5 DEF Applied, clusters

\* With a kernel for every span, a flush applies all gates that wait, in an order that no
\* qubit can tell from the program's.
LEMMA AppliedKeepsOrder ==
    ASSUME NEW D, IsFiniteSet(D), NEW pending \in Seq(GatesOn(D)),
           NEW span \in 1 .. MaxKernelSpan, NEW q
    PROVE  On(Applied(pending, span), q) = On(pending, q)
<1> DEFINE clusters == MakeClusters(pending, span)
<1>1. MaxKernelSpan \in Nat
  BY ConstantsAssumption DEF ConstantsAssumption
<1>2. /\ clusters \in Seq(Seq(GatesOn(D))) /\ OnAll(clusters, q) = On(pending, q)
      /\ AllHaveKernels(clusters)
  <2>1. span \in Nat /\ MaxKernelSpan >= 1 /\ span <= MaxKernelSpan
    BY <1>1
  <2> QED
    BY <2>1, ClustersKeepOrder
<1> HIDE DEF clusters
<1>3. Len(clusters) \in Nat /\ DOMAIN clusters = 1 .. Len(clusters)
      /\ clusters = [i \in 1 .. Len(clusters) |-> clusters[i]]
  BY <1>2, LenProperties
<1>4. \A i \in 1 .. Len(clusters) : Fused(clusters[i]) = clusters[i]
  BY <1>2 DEF AllHaveKernels, HasKernel, Fused
<1>5. [i \in DOMAIN clusters |-> Fused(clusters[i])] = clusters
  BY <1>3, <1>4
<1> QED
  BY <1>2, <1>5 DEF Applied, OnAll, clusters

-----------------------------------------------------------------------------
(* Qubits and positions.                                                    *)

AllocatedIn(map) == {q \in 0 .. Len(map) - 1 : map[q + 1] # Invalid}

\* map gives each qubit the position at which owners has it, and owners has no other.
Consistent(map, owners) ==
    /\ map \in Seq(Nat \cup {Invalid}) /\ owners \in Seq(Nat)
    /\ \A i \in 1 .. Len(map) :
        map[i] # Invalid => map[i] + 1 \in 1 .. Len(owners) /\ owners[map[i] + 1] = i - 1
    /\ \A p \in 1 .. Len(owners) :
        owners[p] + 1 \in 1 .. Len(map) /\ map[owners[p] + 1] = p - 1

\* What Consistent says of each allocated qubit.
LEMMA ConsistentFacts ==
    ASSUME NEW map, NEW owners, Consistent(map, owners)
    PROVE  /\ Len(map) \in Nat /\ Len(owners) \in Nat
           /\ \A i \in 1 .. Len(map) : map[i] \in Nat \cup {Invalid}
           /\ \A p \in 1 .. Len(owners) : owners[p] \in Nat /\ owners[p] \in AllocatedIn(map)
           /\ \A q \in AllocatedIn(map) :
                /\ q \in Nat /\ q + 1 \in 1 .. Len(map) /\ map[q + 1] \in Nat
                /\ map[q + 1] + 1 \in 1 .. Len(owners) /\ owners[map[q + 1] + 1] = q
           /\ Invalid \notin Nat
<1>1. Len(map) \in Nat /\ Len(owners) \in Nat
  BY LenProperties DEF Consistent
<1>2. \A i \in 1 .. Len(map) : map[i] \in Nat \cup {Invalid}
  BY ElementOfSeq DEF Consistent
<1>3. Invalid \notin Nat
  BY ConstantsAssumption DEF ConstantsAssumption
<1>4. ASSUME NEW p \in 1 .. Len(owners)
      PROVE  owners[p] \in Nat /\ owners[p] \in AllocatedIn(map)
  <2>1. owners[p] \in Nat
    BY ElementOfSeq DEF Consistent
  <2>2. owners[p] + 1 \in 1 .. Len(map) /\ map[owners[p] + 1] = p - 1
    BY DEF Consistent
  <2>3. p - 1 \in Nat
    BY <1>1
  <2>4. owners[p] \in 0 .. Len(map) - 1
    BY <1>1, <2>1, <2>2
  <2> QED
    BY <1>3, <2>1, <2>2, <2>3, <2>4 DEF AllocatedIn
<1>5. ASSUME NEW q \in AllocatedIn(map)
      PROVE  /\ q \in Nat /\ q + 1 \in 1 .. Len(map) /\ map[q + 1] \in Nat
             /\ map[q + 1] + 1 \in 1 .. Len(owners) /\ owners[map[q + 1] + 1] = q
  <2>1. q \in Nat /\ q + 1 \in 1 .. Len(map) /\ map[q + 1] # Invalid
    BY <1>1 DEF AllocatedIn
  <2>2. map[q + 1] \in Nat
    BY <1>2, <2>1
  <2>3. map[q + 1] + 1 \in 1 .. Len(owners) /\ owners[map[q + 1] + 1] = q + 1 - 1
    BY <2>1 DEF Consistent
  <2> QED
    BY <2>1, <2>2, <2>3
<1> QED
  BY <1>1, <1>2, <1>3, <1>4, <1>5

\* There are as many allocated qubits as positions.
LEMMA AllocatedFinite ==
    ASSUME NEW map, NEW owners, Consistent(map, owners)
    PROVE  IsFiniteSet(AllocatedIn(map)) /\ Cardinality(AllocatedIn(map)) = Len(owners)
<1>1. owners \in [1 .. Len(owners) -> AllocatedIn(map)]
  BY ConsistentFacts, LenProperties DEF Consistent
<1>2. \A p \in 1 .. Len(owners), r \in 1 .. Len(owners) : owners[p] = owners[r] => p = r
  <2> TAKE p \in 1 .. Len(owners), r \in 1 .. Len(owners)
  <2>1. map[owners[p] + 1] = p - 1 /\ map[owners[r] + 1] = r - 1
    BY DEF Consistent
  <2> QED
    BY <2>1, ConsistentFacts
<1>3. \A q \in AllocatedIn(map) : \E p \in 1 .. Len(owners) : owners[p] = q
  BY ConsistentFacts
<1>4. owners \in Bijection(1 .. Len(owners), AllocatedIn(map))
  BY <1>1, <1>2, <1>3 DEF Bijection, Injection, Surjection, IsInjective
<1>5. Len(owners) \in Nat /\ ExistsBijection(1 .. Len(owners), AllocatedIn(map))
  BY <1>4, ConsistentFacts DEF ExistsBijection
<1>6. IsFiniteSet(AllocatedIn(map))
  BY <1>5, FS_NatBijection
<1> QED
  BY <1>5, <1>6, FS_CountingElements

\* A sequence stays one when one of its elements is replaced.
LEMMA UpdatedSeq ==
    ASSUME NEW S, NEW s \in Seq(S), NEW i \in 1 .. Len(s), NEW e \in S,
           NEW t, t = [s EXCEPT ![i] = e]
    PROVE  /\ t \in Seq(S) /\ Len(t) = Len(s)
           /\ \A j \in 1 .. Len(s) : t[j] = IF j = i THEN e ELSE s[j]
  BY ExceptSeq

\* allocate_qubit puts the new qubit at the end of the vector, whether its id is new or one
\* that was released.
LEMMA ConsistentAllocate ==
    ASSUME NEW map, NEW owners, Consistent(map, owners), NEW q \in 0 .. Len(map),
           q \notin AllocatedIn(map), NEW map2, NEW owners2,
           map2 = IF q < Len(map) THEN [map EXCEPT ![q + 1] = Len(owners)]
                  ELSE Append(map, Len(owners)),
           owners2 = Append(owners, q)
    PROVE  Consistent(map2, owners2)
<1> DEFINE S == Nat \cup {Invalid}
           n == Len(map)
           m == Len(owners)
<1>1. /\ n \in Nat /\ m \in Nat /\ q \in Nat /\ m \in S
      /\ map \in Seq(S) /\ owners \in Seq(Nat)
  BY ConsistentFacts DEF Consistent
<1> HIDE DEF S
<1>2. /\ owners2 \in Seq(Nat) /\ Len(owners2) = m + 1 /\ owners2[m + 1] = q
      /\ \A p \in 1 .. m : owners2[p] = owners[p]
  BY <1>1, AppendProperties
<1>3. /\ map2 \in Seq(S) /\ Len(map2) \in {n, n + 1} /\ q + 1 \in 1 .. Len(map2)
      /\ n <= Len(map2)
      /\ map2[q + 1] = m
      /\ \A i \in 1 .. Len(map2) : i # q + 1 => i \in 1 .. n /\ map2[i] = map[i]
  <2>1. CASE q < n
    <3>1. q + 1 \in 1 .. n
      BY <1>1, <2>1
    <3>2. map2 = [map EXCEPT ![q + 1] = m]
      BY <2>1
    <3>3. /\ map2 \in Seq(S) /\ Len(map2) = n
          /\ \A i \in 1 .. n : map2[i] = IF i = q + 1 THEN m ELSE map[i]
      BY <1>1, <3>1, <3>2, UpdatedSeq
    <3> QED
      BY <1>1, <3>1, <3>3
  <2>2. CASE ~(q < n)
    <3>1. q = n /\ map2 = Append(map, m)
      BY <1>1, <2>2
    <3>2. /\ map2 \in Seq(S) /\ Len(map2) = n + 1 /\ map2[n + 1] = m
          /\ \A i \in 1 .. n : map2[i] = map[i]
      BY <1>1, <3>1, AppendProperties
    <3> HIDE DEF n, m
    <3>3. \A i \in 1 .. n + 1 : i # n + 1 => i \in 1 .. n
      BY <1>1
    <3> QED
      BY <1>1, <3>1, <3>2, <3>3
  <2> QED
    BY <2>1, <2>2
<1> HIDE DEF n, m
<1>4. ASSUME NEW i \in 1 .. Len(map2), map2[i] # Invalid
      PROVE  map2[i] + 1 \in 1 .. Len(owners2) /\ owners2[map2[i] + 1] = i - 1
  <2>1. CASE i = q + 1
    <3>1. map2[i] = m /\ m + 1 \in 1 .. m + 1 /\ i - 1 = q
      BY <1>1, <1>3, <2>1
    <3> QED
      BY <1>2, <3>1
  <2>2. CASE i # q + 1
    <3>1. i \in 1 .. n /\ map2[i] = map[i]
      BY <1>3, <2>2
    <3>2. map[i] + 1 \in 1 .. m /\ owners[map[i] + 1] = i - 1
      BY <1>4, <3>1 DEF Consistent, n, m
    <3>3. 1 .. m \subseteq 1 .. m + 1
      BY <1>1
    <3> QED
      BY <1>2, <3>1, <3>2, <3>3
  <2> QED
    BY <2>1, <2>2
<1>5. ASSUME NEW p \in 1 .. Len(owners2)
      PROVE  owners2[p] + 1 \in 1 .. Len(map2) /\ map2[owners2[p] + 1] = p - 1
  <2>1. CASE p = m + 1
    <3>1. owners2[p] = q /\ p - 1 = m
      BY <1>1, <1>2, <2>1
    <3> QED
      BY <1>3, <3>1
  <2>2. CASE p # m + 1
    <3>1. p \in 1 .. m
      BY <1>1, <1>2, <2>2
    <3>2. owners2[p] = owners[p] /\ owners[p] \in AllocatedIn(map) /\ owners[p] \in Nat
      BY <1>2, <3>1, ConsistentFacts DEF m
    <3>3. owners[p] + 1 \in 1 .. n /\ map[owners[p] + 1] = p - 1
      BY <3>1 DEF Consistent, n, m
    <3>4. owners[p] + 1 # q + 1
      BY <1>1, <3>2
    <3>5. owners[p] + 1 \in 1 .. Len(map2)
      BY <1>1, <1>3, <3>3
    <3> QED
      BY <1>3, <3>2, <3>3, <3>4, <3>5
  <2> QED
    BY <2>1, <2>2
<1> QED
  BY <1>2, <1>3, <1>4, <1>5 DEF Consistent, S

\* release shifts the positions behind the one that is gone.
LEMMA ConsistentRelease ==
    ASSUME NEW map, NEW owners, Consistent(map, owners), NEW q \in AllocatedIn(map),
           NEW map2 \in Seq(Nat \cup {Invalid}), Len(map2) = Len(map),
           \A i \in 1 .. Len(map) :
             map2[i] = IF i = q + 1 THEN Invalid
                       ELSE IF map[i] # Invalid /\ map[i] > map[q + 1] THEN map[i] - 1 ELSE map[i],
           NEW owners2 \in Seq(Nat), Len(owners2) = Len(owners) - 1,
           \A p \in 1 .. Len(owners) - 1 :
             owners2[p] = IF p <= map[q + 1] THEN owners[p] ELSE owners[p + 1]
    PROVE  Consistent(map2, owners2)
<1> DEFINE n == Len(map)
           m == Len(owners)
           gone == map[q + 1]
<1>1. /\ n \in Nat /\ m \in Nat /\ gone \in Nat /\ gone + 1 \in 1 .. m /\ q \in Nat
      /\ owners[gone + 1] = q /\ Invalid \notin Nat
      /\ \A i \in 1 .. n : map[i] \in Nat \cup {Invalid}
      /\ \A p \in 1 .. m : owners[p] \in Nat
  BY ConsistentFacts
<1>2. /\ \A i \in 1 .. n : map[i] # Invalid => map[i] + 1 \in 1 .. m /\ owners[map[i] + 1] = i - 1
      /\ \A p \in 1 .. m : owners[p] + 1 \in 1 .. n /\ map[owners[p] + 1] = p - 1
  BY DEF Consistent
<1> HIDE DEF n, m, gone
<1>3. ASSUME NEW i \in 1 .. n, map2[i] # Invalid
      PROVE  map2[i] + 1 \in 1 .. m - 1 /\ owners2[map2[i] + 1] = i - 1
  <2>1. i # q + 1 /\ map[i] # Invalid
    BY <1>1, <1>3 DEF n, gone
  <2>2. map[i] \in Nat /\ map[i] + 1 \in 1 .. m /\ owners[map[i] + 1] = i - 1
    BY <1>1, <1>2, <2>1
  <2>3. map[i] # gone
    BY <1>1, <2>1, <2>2
  <2>6. m \in Nat /\ gone \in Nat /\ gone + 1 <= m
    BY <1>1
  <2>4. CASE map[i] > gone
    <3>1. map2[i] = map[i] - 1
      BY <2>1, <2>4 DEF n, gone
    <3>2. map[i] \in 1 .. m - 1 /\ ~(map[i] <= gone)
      BY <2>2, <2>4, <2>6
    <3>3. owners2[map[i]] = owners[map[i] + 1]
      BY <3>2 DEF m, gone
    <3>4. map[i] - 1 + 1 = map[i]
      BY <2>2
    <3>5. map2[i] + 1 = map[i]
      BY <3>1, <3>4
    <3> QED
      BY <2>2, <3>2, <3>3, <3>5
  <2>5. CASE ~(map[i] > gone)
    <3>1. map2[i] = map[i]
      BY <2>1, <2>5 DEF n, gone
    <3>2. map[i] + 1 \in 1 .. m - 1 /\ map[i] + 1 <= gone
      BY <2>2, <2>3, <2>5, <2>6
    <3>3. owners2[map[i] + 1] = owners[map[i] + 1]
      BY <3>2 DEF m, gone
    <3> QED
      BY <2>2, <3>1, <3>2, <3>3
  <2> QED
    BY <2>4, <2>5
<1>4. ASSUME NEW p \in 1 .. m - 1
      PROVE  owners2[p] + 1 \in 1 .. n /\ map2[owners2[p] + 1] = p - 1
  <2>1. CASE p <= gone
    <3>1. owners2[p] = owners[p]
      BY <2>1 DEF m, gone
    <3>2. p \in 1 .. m
      BY <1>1
    <3>3. owners[p] \in Nat /\ owners[p] + 1 \in 1 .. n /\ map[owners[p] + 1] = p - 1
      <4>1. owners[p] \in Nat
        BY <1>1, <3>2
      <4>2. owners[p] + 1 \in 1 .. n /\ map[owners[p] + 1] = p - 1
        BY <1>2, <3>2
      <4> QED
        BY <4>1, <4>2
    <3>4. owners[p] + 1 # q + 1 /\ p - 1 # Invalid /\ ~(p - 1 > gone)
      <4>1. p - 1 \in Nat /\ p - 1 # gone /\ ~(p - 1 > gone)
        BY <1>1, <2>1, <3>2
      <4>2. owners[p] + 1 # q + 1
        BY <3>3, <4>1 DEF gone
      <4> QED
        BY <1>1, <4>1, <4>2
    <3>5. map2[owners[p] + 1] = map[owners[p] + 1]
      BY <3>3, <3>4 DEF n, gone
    <3> QED
      BY <3>1, <3>3, <3>5
  <2>2. CASE ~(p <= gone)
    <3>1. owners2[p] = owners[p + 1]
      BY <2>2 DEF m, gone
    <3>2. p + 1 \in 1 .. m /\ p + 1 - 1 = p /\ p > gone /\ p \in Nat
      BY <1>1, <2>2
    <3>3. owners[p + 1] \in Nat /\ owners[p + 1] + 1 \in 1 .. n /\ map[owners[p + 1] + 1] = p
      <4>1. owners[p + 1] \in Nat
        BY <1>1, <3>2
      <4>2. owners[p + 1] + 1 \in 1 .. n /\ map[owners[p + 1] + 1] = p + 1 - 1
        BY <1>2, <3>2
      <4> QED
        BY <3>2, <4>1, <4>2
    <3>4. owners[p + 1] + 1 # q + 1 /\ p # Invalid
      <4>1. p # gone
        BY <1>1, <3>2
      <4> QED
        BY <1>1, <3>2, <3>3, <4>1 DEF gone
    <3>5. map2[owners[p + 1] + 1] = p - 1
      BY <3>2, <3>3, <3>4 DEF n, gone
    <3> QED
      BY <3>1, <3>3, <3>5
  <2> QED
    BY <2>1, <2>2
<1> QED
  BY <1>3, <1>4 DEF Consistent, n, m

\* inject_state permutes the positions as its list of qubits says.
LEMMA ConsistentInject ==
    ASSUME NEW map, NEW owners, Consistent(map, owners),
           NEW qubits \in SetToSeqs(AllocatedIn(map)), NEW map2,
           map2 = [i \in DOMAIN map |->
                     IF i - 1 \in AllocatedIn(map)
                     THEN (CHOOSE p \in DOMAIN qubits : qubits[p] = i - 1) - 1 ELSE Invalid]
    PROVE  /\ Consistent(map2, qubits) /\ Len(qubits) = Len(owners)
           /\ DOMAIN qubits = 1 .. Len(owners)
           /\ AllocatedIn(map2) = AllocatedIn(map)
<1> DEFINE n == Len(map)
           m == Len(owners)
           ids == AllocatedIn(map)
           At(q) == CHOOSE p \in DOMAIN qubits : qubits[p] = q
<1>1. /\ n \in Nat /\ m \in Nat /\ Invalid \notin Nat
      /\ IsFiniteSet(ids) /\ Cardinality(ids) = m
      /\ \A q \in ids : q \in Nat /\ q + 1 \in 1 .. n
  BY ConsistentFacts, AllocatedFinite
<1>2. DOMAIN map = 1 .. n
  BY LenProperties DEF Consistent
<1> HIDE DEF ids, n, m
<1>3. /\ qubits \in [1 .. m -> ids]
      /\ \A p \in 1 .. m, r \in 1 .. m : p # r => qubits[p] # qubits[r]
  BY <1>1 DEF SetToSeqs, ids
<1>4. qubits \in Injection(1 .. m, ids)
  BY <1>3 DEF Injection, IsInjective
<1>5. IsFiniteSet(1 .. m) /\ Cardinality(1 .. m) = m
  BY <1>1, FS_Interval
<1>6. qubits \in Surjection(1 .. m, ids)
  BY <1>1, <1>4, <1>5, FS_Injection
<1>7. qubits \in Seq(Nat) /\ Len(qubits) = m /\ DOMAIN qubits = 1 .. m
  <2>1. qubits \in [1 .. m -> Nat]
    BY <1>1, <1>3
  <2> QED
    BY <1>1, <2>1
<1>8. \A q \in ids : At(q) \in 1 .. m /\ qubits[At(q)] = q
  <2> TAKE q \in ids
  <2>1. \E p \in DOMAIN qubits : qubits[p] = q
    BY <1>6, <1>7 DEF Surjection
  <2> QED
    BY <1>7, <2>1
<1> HIDE DEF At
<1>9. \A i \in 1 .. n : map2[i] = IF i - 1 \in ids THEN At(i - 1) - 1 ELSE Invalid
  BY <1>2 DEF At, ids
<1>10. map2 \in Seq(Nat \cup {Invalid}) /\ Len(map2) = n
  <2>1. \A i \in 1 .. n : map2[i] \in Nat \cup {Invalid}
    <3> TAKE i \in 1 .. n
    <3>1. CASE i - 1 \in ids
      <4>1. At(i - 1) - 1 \in Nat
        BY <1>1, <1>8, <3>1
      <4> QED
        BY <1>9, <3>1, <4>1
    <3>2. CASE i - 1 \notin ids
      BY <1>9, <3>2
    <3> QED
      BY <3>1, <3>2
  <2>2. map2 \in [1 .. n -> Nat \cup {Invalid}]
    BY <1>2, <2>1
  <2>3. n \in Nat
    BY <1>1
  <2> QED
    BY <2>2, <2>3, FunctionIsSeq
<1>11. ASSUME NEW i \in 1 .. n, map2[i] # Invalid
       PROVE  map2[i] + 1 \in 1 .. m /\ qubits[map2[i] + 1] = i - 1
  <2>1. i - 1 \in ids /\ map2[i] = At(i - 1) - 1
    BY <1>9, <1>11
  <2>2. At(i - 1) \in 1 .. m /\ qubits[At(i - 1)] = i - 1
    BY <1>8, <2>1
  <2> QED
    BY <1>1, <2>1, <2>2
<1>12. ASSUME NEW p \in 1 .. m
       PROVE  qubits[p] + 1 \in 1 .. n /\ map2[qubits[p] + 1] = p - 1
  <2>1. qubits[p] \in ids /\ qubits[p] \in Nat /\ qubits[p] + 1 \in 1 .. n
    BY <1>1, <1>3
  <2>2. At(qubits[p]) = p
    BY <1>3, <1>8, <2>1
  <2>3. qubits[p] + 1 - 1 = qubits[p]
    BY <2>1
  <2> QED
    <3> DEFINE i == qubits[p] + 1
    <3>1. i \in 1 .. n /\ i - 1 = qubits[p]
      BY <2>1
    <3> HIDE DEF i
    <3>2. map2[i] = At(i - 1) - 1
      BY <1>9, <2>1, <3>1
    <3>3. map2[i] = p - 1
      BY <2>2, <3>1, <3>2
    <3> QED
      BY <2>1, <3>3 DEF i
<1>13. AllocatedIn(map2) = ids
  <2>1. ASSUME NEW q \in 0 .. n - 1 PROVE map2[q + 1] # Invalid <=> q \in ids
    <3>1. q + 1 \in 1 .. n /\ q + 1 - 1 = q
      BY <1>1
    <3>2. q \in ids => At(q) - 1 \in Nat
      BY <1>1, <1>8
    <3> DEFINE i == q + 1
    <3>4. i \in 1 .. n /\ i - 1 = q
      BY <3>1
    <3> HIDE DEF i
    <3>5. map2[i] = IF i - 1 \in ids THEN At(i - 1) - 1 ELSE Invalid
      BY <1>9, <3>4
    <3>3. map2[q + 1] = IF q \in ids THEN At(q) - 1 ELSE Invalid
      BY <3>4, <3>5 DEF i
    <3> QED
      BY <1>1, <3>2, <3>3
  <2>2. ids \subseteq 0 .. n - 1
    BY <1>1
  <2> QED
    BY <1>10, <2>1, <2>2 DEF AllocatedIn
<1> QED
  BY <1>7, <1>10, <1>11, <1>12, <1>13 DEF Consistent, ids, m, n

-----------------------------------------------------------------------------
(* The invariant.                                                           *)

Vectors == Seq([owner : Nat, gates : Seq(Nat)])

Owners(w) == [p \in DOMAIN w |-> w[p].owner]

\* Types, and the positions of the qubits.
Inv ==
    /\ wfn \in Vectors
    /\ Consistent(qubitmap, Owners(wfn))
    /\ issued \in Seq(Seq(Nat)) /\ Len(issued) = Len(qubitmap)
    /\ pending_gates \in Seq(GatesOn(AllocatedIn(qubitmap)))
    /\ Len(pending_gates) <= MAX_PENDING_GATES

\* What a qubit went through and what waits for it is what the program called on it.
Ordered ==
    \A p \in DOMAIN wfn :
        issued[wfn[p].owner + 1] = Cat(wfn[p].gates, On(pending_gates, wfn[p].owner))

\* Allocated as a function of qubitmap.
LEMMA AllocatedIs == Allocated = AllocatedIn(qubitmap)
  BY DEF Allocated, AllocatedIn, LogicalIds, Position

\* The parts of a vector and their types.
LEMMA VectorFacts ==
    ASSUME NEW w \in Vectors
    PROVE  /\ Len(w) \in Nat /\ DOMAIN w = 1 .. Len(w)
           /\ \A p \in DOMAIN w : /\ w[p] \in [owner : Nat, gates : Seq(Nat)]
                                  /\ w[p].owner \in Nat /\ w[p].gates \in Seq(Nat)
                                  /\ Owners(w)[p] = w[p].owner
           /\ Owners(w) \in Seq(Nat) /\ Len(Owners(w)) = Len(w)
           /\ DOMAIN Owners(w) = DOMAIN w
<1>1. Len(w) \in Nat /\ DOMAIN w = 1 .. Len(w)
  BY LenProperties DEF Vectors
<1>2. \A p \in DOMAIN w : w[p] \in [owner : Nat, gates : Seq(Nat)]
  BY <1>1, ElementOfSeq DEF Vectors
<1>3. \A p \in DOMAIN w : w[p].owner \in Nat /\ w[p].gates \in Seq(Nat)
  BY <1>2
<1>4. Owners(w) \in [1 .. Len(w) -> Nat]
  BY <1>1, <1>3 DEF Owners
<1>5. Owners(w) \in Seq(Nat) /\ Len(Owners(w)) = Len(w)
  BY <1>1, <1>4, FunctionIsSeq
<1> QED
  BY <1>1, <1>2, <1>3, <1>5 DEF Owners

\* A function on the positions of a vector that gives records of its kind is one.
LEMMA VectorByOwners ==
    ASSUME NEW w \in Vectors, NEW v, v = [p \in DOMAIN w |-> v[p]],
           \A p \in DOMAIN w : v[p] \in [owner : Nat, gates : Seq(Nat)] /\ v[p].owner = w[p].owner
    PROVE  v \in Vectors /\ Owners(v) = Owners(w) /\ DOMAIN v = DOMAIN w
<1>1. Len(w) \in Nat /\ DOMAIN w = 1 .. Len(w)
  BY VectorFacts
<1>2. v \in [1 .. Len(w) -> [owner : Nat, gates : Seq(Nat)]]
  BY <1>1
<1>3. v \in Vectors
  BY <1>1, <1>2, FunctionIsSeq DEF Vectors
<1>4. DOMAIN v = DOMAIN w
  BY <1>1, <1>2
<1> QED
  BY <1>3, <1>4 DEF Owners

\* Forgetting the histories leaves the owners.
LEMMA ForgottenFacts ==
    ASSUME NEW w \in Vectors
    PROVE  /\ Forgotten(w) \in Vectors /\ Owners(Forgotten(w)) = Owners(w)
           /\ \A p \in DOMAIN Forgotten(w) : Forgotten(w)[p].gates = <<>>
<1> DEFINE v == Forgotten(w)
<1>1. v = [p \in DOMAIN w |-> [w[p] EXCEPT !.gates = <<>>]]
  BY DEF Forgotten
<1>2. ASSUME NEW p \in DOMAIN w
      PROVE  /\ v[p] \in [owner : Nat, gates : Seq(Nat)] /\ v[p].owner = w[p].owner
             /\ v[p].gates = <<>>
  <2>1. w[p] \in [owner : Nat, gates : Seq(Nat)]
    BY VectorFacts
  <2>2. v[p] = [w[p] EXCEPT !.gates = <<>>]
    BY <1>1
  <2>3. <<>> \in Seq(Nat)
    BY EmptySeq
  <2> QED
    BY <2>1, <2>2, <2>3
<1>3. v = [p \in DOMAIN w |-> v[p]]
  BY <1>1
<1> HIDE DEF v
<1>4. v \in Vectors /\ Owners(v) = Owners(w) /\ DOMAIN v = DOMAIN w
  BY <1>2, <1>3, VectorByOwners
<1> QED
  BY <1>2, <1>4 DEF v

\* When the state was looked at, the histories are forgotten: no order is left to keep.
LEMMA ForgettingKeepsInv ==
    ASSUME NEW w \in Vectors, NEW map, Consistent(map, Owners(w)), qubitmap' = map,
           Forget(w), pending_gates' = <<>>
    PROVE  Inv' /\ Ordered'
<1>1. /\ wfn' \in Vectors /\ Owners(wfn)' = Owners(w)
      /\ \A p \in DOMAIN wfn' : wfn'[p].gates = <<>>
  BY ForgottenFacts DEF Forget, Owners
<1>2. Len(map) \in Nat /\ DOMAIN map = 1 .. Len(map)
  BY LenProperties DEF Consistent
<1>3. /\ issued' \in Seq(Seq(Nat)) /\ Len(issued)' = Len(qubitmap)'
      /\ \A i \in 1 .. Len(map) : issued'[i] = <<>>
  <2>1. issued' = [i \in 1 .. Len(map) |-> <<>>]
    BY <1>2 DEF Forget
  <2>2. issued' \in [1 .. Len(map) -> Seq(Nat)]
    BY <2>1, EmptySeq
  <2>3. issued' \in Seq(Seq(Nat)) /\ Len(issued') = Len(map)
    BY <1>2, <2>2, FunctionIsSeq
  <2> QED
    BY <2>1, <2>3
<1>4. /\ pending_gates' \in Seq(GatesOn(AllocatedIn(qubitmap)'))
      /\ Len(pending_gates') <= MAX_PENDING_GATES
  BY EmptySeq, ConstantsAssumption DEF ConstantsAssumption
<1>5. Inv'
  BY <1>1, <1>3, <1>4 DEF Inv
<1>6. Ordered'
  <2> SUFFICES ASSUME NEW p \in DOMAIN wfn'
               PROVE  issued'[wfn'[p].owner + 1]
                        = Cat(wfn'[p].gates, On(pending_gates', wfn'[p].owner))
    BY DEF Ordered
  <2>1. DOMAIN wfn' = 1 .. Len(wfn') /\ Len(Owners(w)) = Len(wfn')
        /\ Owners(w)[p] = wfn'[p].owner
    BY <1>1, VectorFacts
  <2>2. wfn'[p].owner + 1 \in 1 .. Len(map)
    BY <2>1 DEF Consistent
  <2>3. Cat(<<>>, <<>>) = <<>>
    BY EmptySeq, CatEmpty
  <2> QED
    BY <1>1, <1>3, <2>2, <2>3, OnEmpty
<1> QED
  BY <1>5, <1>6

-----------------------------------------------------------------------------
(* A flush.                                                                 *)

\* A position is that of its owner and of no other qubit.
LEMMA OwnerAtPosition ==
    ASSUME Inv, NEW p \in DOMAIN wfn, NEW q \in AllocatedIn(qubitmap)
    PROVE  Position(q) = p - 1 <=> q = wfn[p].owner
<1>1. /\ DOMAIN wfn = 1 .. Len(wfn) /\ Len(wfn) \in Nat /\ Len(Owners(wfn)) = Len(wfn)
      /\ Owners(wfn)[p] = wfn[p].owner
  BY VectorFacts DEF Inv
<1>2. qubitmap[wfn[p].owner + 1] = p - 1
  BY <1>1 DEF Inv, Consistent
<1>3. qubitmap[q + 1] \in Nat /\ Owners(wfn)[qubitmap[q + 1] + 1] = q
  BY ConsistentFacts DEF Inv
<1> QED
  BY <1>1, <1>2, <1>3 DEF Position

\* The gates that act at a position are those that act on its owner.
LEMMA NumbersAtOwner ==
    ASSUME Inv, NEW p \in DOMAIN wfn, NEW gates \in Seq(GatesOn(AllocatedIn(qubitmap)))
    PROVE  NumbersAt(gates, p) = On(gates, wfn[p].owner)
<1>1. ASSUME NEW i \in DOMAIN gates
      PROVE  (\E q \in Qids(gates[i]) : Position(q) = p - 1) <=> wfn[p].owner \in Qids(gates[i])
  <2>1. gates[i] \in GatesOn(AllocatedIn(qubitmap))
    BY LenProperties, ElementOfSeq
  <2>2. Qids(gates[i]) \subseteq AllocatedIn(qubitmap)
    BY <2>1 DEF GatesOn, Qids
  <2>3. \A q \in Qids(gates[i]) : Position(q) = p - 1 <=> q = wfn[p].owner
    BY <2>2, OwnerAtPosition
  <2> QED
    BY <2>3
<1>2. [i \in DOMAIN gates |-> IF \E q \in Qids(gates[i]) : Position(q) = p - 1
                              THEN <<gates[i].number>> ELSE <<>>] = Numbers(gates, wfn[p].owner)
  BY <1>1 DEF Numbers
<1> QED
  BY <1>2 DEF NumbersAt, On

\* What a flush does to every position.
LEMMA FlushedFacts ==
    ASSUME Inv, NEW pending \in Seq(GatesOn(AllocatedIn(qubitmap))), NEW span \in FuseSpans,
           NEW w, w = Flushed(wfn, pending, span)
    PROVE  /\ w \in Vectors /\ Owners(w) = Owners(wfn) /\ DOMAIN w = DOMAIN wfn
           /\ \A p \in DOMAIN wfn :
                /\ w[p].owner = wfn[p].owner
                /\ w[p].gates = Cat(wfn[p].gates, On(Applied(pending, span), wfn[p].owner))
                /\ FuseSpans \subseteq 1 .. MaxKernelSpan =>
                     w[p].gates = Cat(wfn[p].gates, On(pending, wfn[p].owner))
<1> DEFINE applied == Applied(pending, span)
<1>1. span \in Nat
  BY ConstantsAssumption DEF ConstantsAssumption
<1>2. applied \in Seq(GatesOn(AllocatedIn(qubitmap)))
  BY <1>1, AppliedType
<1>3. w = [p \in DOMAIN wfn |-> [wfn[p] EXCEPT !.gates = @ \o NumbersAt(applied, p)]]
  BY DEF Flushed, Applied
<1> HIDE DEF applied
<1>4. ASSUME NEW p \in DOMAIN wfn
      PROVE  /\ w[p] \in [owner : Nat, gates : Seq(Nat)]
             /\ w[p].owner = wfn[p].owner
             /\ w[p].gates = Cat(wfn[p].gates, On(applied, wfn[p].owner))
  <2>1. wfn[p] \in [owner : Nat, gates : Seq(Nat)] /\ wfn[p].gates \in Seq(Nat)
    BY VectorFacts DEF Inv
  <2>2. NumbersAt(applied, p) = On(applied, wfn[p].owner)
    BY <1>2, NumbersAtOwner
  <2>3. w[p] = [wfn[p] EXCEPT !.gates = Cat(wfn[p].gates, On(applied, wfn[p].owner))]
    BY <1>3, <2>2 DEF Cat
  <2>4. Cat(wfn[p].gates, On(applied, wfn[p].owner)) \in Seq(Nat)
    BY <1>2, <2>1, OnType, CatType
  <2> QED
    BY <2>1, <2>3, <2>4
<1>5. w = [p \in DOMAIN wfn |-> w[p]]
  BY <1>3
<1>6. w \in Vectors /\ Owners(w) = Owners(wfn) /\ DOMAIN w = DOMAIN wfn
  BY <1>4, <1>5, VectorByOwners DEF Inv
<1>7. ASSUME FuseSpans \subseteq 1 .. MaxKernelSpan, NEW q
      PROVE  On(applied, q) = On(pending, q)
  <2>1. IsFiniteSet(AllocatedIn(qubitmap))
    BY AllocatedFinite DEF Inv
  <2>2. span \in 1 .. MaxKernelSpan
    BY <1>7
  <2> QED
    BY <2>1, <2>2, AppliedKeepsOrder DEF applied
<1> QED
  BY <1>4, <1>6, <1>7 DEF applied

-----------------------------------------------------------------------------
(* The number of the next gate.                                             *)

\* A sequence has finitely many elements.
LEMMA RangeFinite ==
    ASSUME NEW S, NEW s \in Seq(S)
    PROVE  IsFiniteSet(Range(s))
<1>1. Len(s) \in Nat /\ DOMAIN s = 1 .. Len(s)
  BY LenProperties
<1>2. s \in Surjection(1 .. Len(s), Range(s))
  <2>1. s \in [1 .. Len(s) -> Range(s)]
    BY <1>1, LenProperties DEF Range
  <2> QED
    BY <1>1, <2>1 DEF Surjection, Range
<1> QED
  BY <1>1, <1>2, FS_Interval, FS_Surjection

\* So have finitely many sequences together.
LEMMA RangesFinite ==
    ASSUME NEW S, NEW s \in Seq(Seq(S))
    PROVE  IsFiniteSet(UNION {Range(s[i]) : i \in DOMAIN s})
<1> DEFINE t == [i \in DOMAIN s |-> Range(s[i])]
<1>1. Len(s) \in Nat /\ DOMAIN s = 1 .. Len(s)
  BY LenProperties
<1>2. t \in Seq(SUBSET S)
  <2>1. \A i \in 1 .. Len(s) : Range(s[i]) \in SUBSET S
    BY ElementOfSeq, RangeOfSeq
  <2>2. t \in [1 .. Len(s) -> SUBSET S]
    BY <1>1, <2>1
  <2> QED
    BY <1>1, <2>2, FunctionIsSeq
<1>3. Range(t) = {Range(s[i]) : i \in DOMAIN s}
  BY DEF Range
<1>4. IsFiniteSet(Range(t))
  <2> HIDE DEF t
  <2> QED
    BY <1>2, RangeFinite
<1>5. \A T \in {Range(s[i]) : i \in DOMAIN s} : IsFiniteSet(T)
  BY <1>1, ElementOfSeq, RangeFinite
<1> QED
  BY <1>3, <1>4, <1>5, FS_UNION

\* The histories hold finitely many gates.
LEMMA NumberOfGatesType == Inv => NumberOfGates \in Nat
<1> SUFFICES ASSUME Inv PROVE NumberOfGates \in Nat
  OBVIOUS
<1> DEFINE gates == [p \in DOMAIN wfn |-> wfn[p].gates]
<1>1. gates \in Seq(Seq(Nat))
  <2>1. /\ Len(wfn) \in Nat /\ DOMAIN wfn = 1 .. Len(wfn)
        /\ \A p \in DOMAIN wfn : wfn[p].gates \in Seq(Nat)
    BY VectorFacts DEF Inv
  <2>2. gates \in [1 .. Len(wfn) -> Seq(Nat)]
    BY <2>1
  <2> QED
    BY <2>1, <2>2, FunctionIsSeq
<1>2. {Range(gates[p]) : p \in DOMAIN gates} = {Range(wfn[p].gates) : p \in DOMAIN wfn}
  OBVIOUS
<1>3. IsFiniteSet(UNION {Range(wfn[p].gates) : p \in DOMAIN wfn})
  <2>1. IsFiniteSet(UNION {Range(gates[p]) : p \in DOMAIN gates})
    <3> HIDE DEF gates
    <3> QED BY <1>1, RangesFinite
  <2> QED
    BY <1>2, <2>1
<1>4. IsFiniteSet(UNION {Range(issued[i]) : i \in DOMAIN issued})
  BY RangesFinite DEF Inv
<1> DEFINE applied == UNION {Range(wfn[p].gates) : p \in DOMAIN wfn}
           called == UNION {Range(issued[i]) : i \in DOMAIN issued}
<1> HIDE DEF applied, called
<1>5. NumberOfGates = Cardinality(called \cup applied)
  BY DEF NumberOfGates, applied, called
<1>6. IsFiniteSet(called \cup applied)
  BY <1>3, <1>4, FS_Union DEF applied, called
<1> QED
  BY <1>5, <1>6, FS_CardinalityType

-----------------------------------------------------------------------------
(* The steps.                                                               *)

\* allocate_qubit flushes and appends a position.
LEMMA AllocateKeepsInv ==
    ASSUME Inv, NEW q \in 0 .. Len(qubitmap), q \notin Allocated, NEW span \in FuseSpans,
           AllocateAs(q, span)
    PROVE  Inv' /\ Ordered'
<1>1. PICK v : v = Flushed(wfn, pending_gates, span)
  OBVIOUS
<1>2. PICK pending : pending = pending_gates
  OBVIOUS
<1>3. v \in Vectors /\ Owners(v) = Owners(wfn) /\ DOMAIN v = DOMAIN wfn
  BY <1>1, <1>2, FlushedFacts DEF Inv
<1> DEFINE new == [owner |-> q, gates |-> <<>>]
<1>4. PICK w : w = Append(v, new)
  OBVIOUS
<1>5. Len(qubitmap) \in Nat /\ Len(wfn) \in Nat /\ q \in Nat
  BY ConsistentFacts, VectorFacts DEF Inv
<1>6. new \in [owner : Nat, gates : Seq(Nat)]
  BY <1>5, EmptySeq
<1>7. /\ w \in Vectors /\ Len(w) = Len(v) + 1 /\ w[Len(v) + 1] = new
      /\ \A p \in 1 .. Len(v) : w[p] = v[p]
  BY <1>3, <1>4, <1>6, AppendProperties DEF Vectors
<1>8. Len(v) = Len(wfn) /\ Len(v) \in Nat
  BY <1>3, VectorFacts DEF Inv
<1>9. Owners(w) = Append(Owners(v), q)
  <2>1. /\ Owners(w) \in Seq(Nat) /\ Len(Owners(w)) = Len(v) + 1
        /\ DOMAIN w = 1 .. Len(v) + 1
        /\ \A p \in 1 .. Len(v) + 1 : Owners(w)[p] = w[p].owner
    BY <1>7, VectorFacts
  <2>2. /\ Owners(v) \in Seq(Nat) /\ Len(Owners(v)) = Len(v)
        /\ \A p \in 1 .. Len(v) : Owners(v)[p] = v[p].owner
    BY <1>3, VectorFacts
  <2>3. /\ Append(Owners(v), q) \in Seq(Nat) /\ Len(Append(Owners(v), q)) = Len(v) + 1
        /\ \A p \in 1 .. Len(v) : Append(Owners(v), q)[p] = Owners(v)[p]
        /\ Append(Owners(v), q)[Len(v) + 1] = q
    BY <1>5, <2>2, AppendProperties
  <2>4. \A p \in 1 .. Len(v) + 1 : p \in 1 .. Len(v) \/ p = Len(v) + 1
    BY <1>8
  <2>5. \A p \in 1 .. Len(v) + 1 : Owners(w)[p] = Append(Owners(v), q)[p]
    <3> TAKE p \in 1 .. Len(v) + 1
    <3>1. CASE p \in 1 .. Len(v)
      BY <1>7, <2>1, <2>2, <2>3, <3>1
    <3>2. CASE p = Len(v) + 1
      <4>1. Owners(w)[p] = w[p].owner /\ w[p] = new
        BY <1>7, <2>1, <3>2
      <4> QED
        BY <2>3, <3>2, <4>1
    <3> QED
      BY <2>4, <3>1, <3>2
  <2> QED
    BY <2>1, <2>3, <2>5, SeqEqual
<1>10. PICK map : map = IF q < Len(qubitmap) THEN [qubitmap EXCEPT ![q + 1] = Len(wfn)]
                        ELSE Append(qubitmap, Len(wfn))
  OBVIOUS
<1>11. Consistent(map, Owners(w))
  <2>1. PICK old, owners : old = qubitmap /\ owners = Owners(wfn)
    OBVIOUS
  <2>2. /\ Consistent(old, owners) /\ q \in 0 .. Len(old) /\ q \notin AllocatedIn(old)
        /\ Len(owners) = Len(wfn)
    BY <2>1, AllocatedIs, VectorFacts DEF Inv
  <2>3. map = IF q < Len(old) THEN [old EXCEPT ![q + 1] = Len(owners)]
              ELSE Append(old, Len(owners))
    BY <1>10, <2>1, <2>2
  <2>4. Owners(w) = Append(owners, q)
    BY <1>3, <1>9, <2>1
  <2> QED
    BY <2>2, <2>3, <2>4, ConsistentAllocate
<1>12. qubitmap' = map /\ Forget(w) /\ pending_gates' = <<>>
  BY <1>1, <1>4, <1>10 DEF AllocateAs
<1> QED
  BY <1>7, <1>11, <1>12, ForgettingKeepsInv

\* release flushes and takes a position out.
LEMMA ReleaseKeepsInv ==
    ASSUME Inv, NEW q \in Allocated, NEW span \in FuseSpans, Release(q, span)
    PROVE  Inv' /\ Ordered'
<1>1. PICK v : v = Flushed(wfn, pending_gates, span)
  OBVIOUS
<1>2. PICK pending : pending = pending_gates
  OBVIOUS
<1>3. v \in Vectors /\ Owners(v) = Owners(wfn) /\ DOMAIN v = DOMAIN wfn
  BY <1>1, <1>2, FlushedFacts DEF Inv
<1>4. PICK old, gone : old = qubitmap /\ gone = Position(q)
  OBVIOUS
<1>5. PICK w : w = RemoveAt(v, gone + 1)
  OBVIOUS
<1>6. PICK n : n = Len(v)
  OBVIOUS
<1>7. /\ Consistent(old, Owners(v)) /\ q \in AllocatedIn(old) /\ gone = old[q + 1]
  BY <1>3, <1>4, AllocatedIs DEF Inv, Position
<1>8. n \in Nat /\ gone \in Nat /\ gone + 1 \in 1 .. n /\ Len(Owners(v)) = n /\ DOMAIN v = 1 .. n
  BY <1>3, <1>6, <1>7, ConsistentFacts, VectorFacts
<1>9. /\ w \in Vectors /\ Len(w) = n - 1
      /\ \A p \in 1 .. n - 1 : w[p] = IF p <= gone THEN v[p] ELSE v[p + 1]
  <2> DEFINE S == [owner : Nat, gates : Seq(Nat)]
             before == SubSeq(v, 1, gone)
             behind == SubSeq(v, gone + 2, n)
  <2>1. \A p \in 1 .. n : v[p] \in S
    BY <1>3, <1>8, VectorFacts
  <2> HIDE DEF S
  <2>2. /\ before \in Seq(S) /\ Len(before) = gone
        /\ \A p \in 1 .. gone : before[p] = v[p]
    <3>1. \A p \in 1 .. gone : v[p] \in S /\ 1 + p - 1 = p
      BY <1>8, <2>1
    <3>2. /\ before \in Seq(S) /\ Len(before) = IF 1 <= gone THEN gone - 1 + 1 ELSE 0
          /\ \A p \in 1 .. gone - 1 + 1 : before[p] = v[1 + p - 1]
      BY <1>8, <3>1, SubSeqProperties
    <3> QED
      BY <1>8, <3>1, <3>2
  <2>3. /\ behind \in Seq(S) /\ Len(behind) = n - 1 - gone
        /\ \A p \in 1 .. n - 1 - gone : behind[p] = v[gone + 1 + p]
    <3>1. \A p \in gone + 2 .. n : v[p] \in S
      BY <1>8, <2>1
    <3>2. /\ behind \in Seq(S) /\ Len(behind) = IF gone + 2 <= n THEN n - (gone + 2) + 1 ELSE 0
          /\ \A p \in 1 .. n - (gone + 2) + 1 : behind[p] = v[gone + 2 + p - 1]
      BY <1>8, <3>1, SubSeqProperties
    <3>3. /\ n - (gone + 2) + 1 = n - 1 - gone
          /\ (~(gone + 2 <= n) => n - 1 - gone = 0)
          /\ \A p \in 1 .. n - 1 - gone : gone + 2 + p - 1 = gone + 1 + p
      BY <1>8
    <3> QED
      BY <3>2, <3>3
  <2>4. w = before \o behind
    <3> DEFINE k == gone + 1
    <3>1. k - 1 = gone /\ k + 1 = gone + 2
      BY <1>8
    <3> HIDE DEF k
    <3>2. w = RemoveAt(v, k)
      BY <1>5 DEF k
    <3>3. RemoveAt(v, k) = Cat(SubSeq(v, 1, k - 1), SubSeq(v, k + 1, Len(v)))
      BY DEF RemoveAt, Cat
    <3>4. w = Cat(before, behind)
      BY <1>6, <3>1, <3>2, <3>3
    <3> QED
      BY <3>4, Zenon DEF Cat
  <2> HIDE DEF before, behind
  <2>5. /\ before \o behind \in Seq(S)
        /\ Len(before \o behind) = Len(before) + Len(behind)
        /\ \A p \in 1 .. Len(before) + Len(behind) :
             (before \o behind)[p] = IF p <= Len(before) THEN before[p] ELSE behind[p - Len(before)]
    BY <2>2, <2>3, ConcatProperties
  <2>6. Len(before) + Len(behind) = n - 1
    BY <1>8, <2>2, <2>3
  <2>7. ASSUME NEW p \in 1 .. n - 1
        PROVE  (before \o behind)[p] = IF p <= gone THEN v[p] ELSE v[p + 1]
    <3>1. CASE p <= gone
      <4>1. (before \o behind)[p] = before[p] /\ p \in 1 .. gone
        BY <1>8, <2>2, <2>5, <2>6, <3>1
      <4> QED
        BY <2>2, <3>1, <4>1
    <3>2. CASE ~(p <= gone)
      <4>1. (before \o behind)[p] = behind[p - gone]
        BY <2>2, <2>5, <2>6, <3>2
      <4>2. p - gone \in 1 .. n - 1 - gone /\ gone + 1 + (p - gone) = p + 1
        BY <1>8, <3>2
      <4> QED
        BY <2>3, <3>2, <4>1, <4>2
    <3> QED
      BY <3>1, <3>2
  <2> QED
    BY <2>4, <2>5, <2>6, <2>7 DEF Vectors, S
<1>10. /\ Owners(w) \in Seq(Nat) /\ Len(Owners(w)) = n - 1
       /\ \A p \in 1 .. n - 1 :
            Owners(w)[p] = IF p <= gone THEN Owners(v)[p] ELSE Owners(v)[p + 1]
  <2>1. /\ Owners(w) \in Seq(Nat) /\ Len(Owners(w)) = n - 1
        /\ \A p \in 1 .. n - 1 : Owners(w)[p] = w[p].owner
    BY <1>9, VectorFacts
  <2>2. \A p \in 1 .. n : Owners(v)[p] = v[p].owner
    BY <1>3, <1>8, VectorFacts
  <2>3. \A p \in 1 .. n - 1 : p \in 1 .. n /\ p + 1 \in 1 .. n
    BY <1>8
  <2> QED
    BY <1>9, <2>1, <2>2, <2>3
<1>11. PICK map : map = [i \in DOMAIN qubitmap |-> IF i = q + 1 THEN Invalid
                                                   ELSE ShiftDown(i, Position(q))]
  OBVIOUS
<1>12. /\ map \in Seq(Nat \cup {Invalid}) /\ Len(map) = Len(old)
       /\ \A i \in 1 .. Len(old) :
            map[i] = IF i = q + 1 THEN Invalid
                     ELSE IF old[i] # Invalid /\ old[i] > old[q + 1] THEN old[i] - 1 ELSE old[i]
  <2>1. DOMAIN old = 1 .. Len(old) /\ Len(old) \in Nat
    BY <1>7, LenProperties DEF Consistent
  <2>2. map = [i \in 1 .. Len(old) |->
                 IF i = q + 1 THEN Invalid
                 ELSE IF old[i] # Invalid /\ old[i] > old[q + 1] THEN old[i] - 1 ELSE old[i]]
    BY <1>4, <1>7, <1>11, <2>1 DEF ShiftDown
  <2>3. ASSUME NEW i \in 1 .. Len(old) PROVE map[i] \in Nat \cup {Invalid}
    <3>1. old[i] \in Nat \cup {Invalid} /\ old[q + 1] \in Nat
      BY <1>7, ConsistentFacts
    <3>2. map[i] = IF i = q + 1 THEN Invalid
                   ELSE IF old[i] # Invalid /\ old[i] > old[q + 1] THEN old[i] - 1 ELSE old[i]
      BY <2>2
    <3>3. old[i] # Invalid /\ old[i] > old[q + 1] => old[i] - 1 \in Nat
      BY <3>1
    <3> QED
      BY <3>1, <3>2, <3>3
  <2>4. map \in [1 .. Len(old) -> Nat \cup {Invalid}]
    BY <2>2, <2>3
  <2>6. Len(old) \in Nat
    BY <2>1
  <2>5. map \in Seq(Nat \cup {Invalid}) /\ Len(map) = Len(old)
    BY <2>4, <2>6, FunctionIsSeq
  <2>7. \A i \in 1 .. Len(old) :
           map[i] = IF i = q + 1 THEN Invalid
                    ELSE IF old[i] # Invalid /\ old[i] > old[q + 1] THEN old[i] - 1 ELSE old[i]
    BY <2>2, Zenon
  <2> QED
    BY <2>5, <2>7, Zenon
<1>13. Consistent(map, Owners(w))
  <2>1. PICK owners, owners2 : owners = Owners(v) /\ owners2 = Owners(w)
    OBVIOUS
  <2>2. Consistent(old, owners) /\ q \in AllocatedIn(old) /\ gone = old[q + 1]
    BY <1>7, <2>1
  <2>3. owners2 \in Seq(Nat) /\ Len(owners2) = Len(owners) - 1
    BY <1>8, <1>10, <2>1
  <2>4. \A p \in 1 .. Len(owners) - 1 :
          owners2[p] = IF p <= old[q + 1] THEN owners[p] ELSE owners[p + 1]
    BY <1>8, <1>10, <2>1, <2>2
  <2>5. Consistent(map, owners2)
    BY <1>12, <2>2, <2>3, <2>4, ConsistentRelease, SMTT(60)
  <2> QED
    BY <2>1, <2>5
<1>14. qubitmap' = map /\ Forget(w) /\ pending_gates' = <<>>
  BY <1>1, <1>4, <1>5, <1>11 DEF Release
<1> QED
  BY <1>9, <1>13, <1>14, ForgettingKeepsInv

\* Looking at the state flushes.
LEMMA ObserveKeepsInv ==
    ASSUME Inv, NEW span \in FuseSpans, Observe(span)
    PROVE  Inv' /\ Ordered'
<1>1. PICK v, pending, map : /\ v = Flushed(wfn, pending_gates, span)
                             /\ pending = pending_gates /\ map = qubitmap
  OBVIOUS
<1>2. v \in Vectors /\ Owners(v) = Owners(wfn)
  BY <1>1, FlushedFacts DEF Inv
<1>3. Consistent(map, Owners(v))
  BY <1>1, <1>2 DEF Inv
<1>4. qubitmap' = map /\ Forget(v) /\ pending_gates' = <<>>
  BY <1>1 DEF Observe
<1> QED
  BY <1>2, <1>3, <1>4, ForgettingKeepsInv

\* inject_state replaces the vector and the positions.
LEMMA InjectKeepsInv ==
    ASSUME Inv, NEW qubits \in SetToSeqs(Allocated), InjectState(qubits)
    PROVE  Inv' /\ Ordered'
<1>1. PICK old, owners, w : /\ old = qubitmap /\ owners = Owners(wfn) /\ w = Injected(qubits)
  OBVIOUS
<1>2. PICK map : map = [i \in DOMAIN old |->
                          IF i - 1 \in AllocatedIn(old)
                          THEN (CHOOSE p \in DOMAIN qubits : qubits[p] = i - 1) - 1 ELSE Invalid]
  OBVIOUS
<1>3. Consistent(old, owners) /\ qubits \in SetToSeqs(AllocatedIn(old))
  BY <1>1, AllocatedIs DEF Inv
<1>4. /\ Consistent(map, qubits) /\ Len(qubits) = Len(owners)
      /\ DOMAIN qubits = 1 .. Len(owners)
  BY <1>2, <1>3, ConsistentInject
<1>5. Len(wfn) \in Nat /\ DOMAIN wfn = 1 .. Len(wfn) /\ Len(owners) = Len(wfn)
  BY <1>1, VectorFacts DEF Inv
<1>6. qubits \in Seq(Nat)
  BY <1>4 DEF Consistent
<1>7. w = [p \in 1 .. Len(wfn) |-> [owner |-> qubits[p], gates |-> <<>>]]
  BY <1>1, <1>5 DEF Injected
<1>8. w \in Vectors
  <2>1. \A p \in 1 .. Len(wfn) : qubits[p] \in Nat
    BY <1>4, <1>5, <1>6, ElementOfSeq
  <2>2. w \in [1 .. Len(wfn) -> [owner : Nat, gates : Seq(Nat)]]
    BY <1>7, <2>1, EmptySeq
  <2> QED
    BY <1>5, <2>2, FunctionIsSeq DEF Vectors
<1>9. Owners(w) = qubits
  <2>1. DOMAIN w = 1 .. Len(wfn) /\ \A p \in 1 .. Len(wfn) : w[p].owner = qubits[p]
    BY <1>7
  <2>2. qubits = [p \in 1 .. Len(wfn) |-> qubits[p]]
    BY <1>4, <1>5, <1>6
  <2> QED
    BY <2>1, <2>2 DEF Owners
<1>10. qubitmap' = map /\ Forget(w) /\ pending_gates' = <<>>
  BY <1>1, <1>2, AllocatedIs DEF InjectState
<1> QED
  BY <1>4, <1>8, <1>9, <1>10, ForgettingKeepsInv

-----------------------------------------------------------------------------
(* Gates.                                                                   *)

\* A call appends its number to what the program called on the qubits it acts on.
LEMMA IssuedFacts ==
    ASSUME Inv, NEW qids, Issue(qids), NEW number, number = NumberOfGates + 1
    PROVE  /\ number \in Nat
           /\ issued' \in Seq(Seq(Nat)) /\ Len(issued') = Len(issued)
           /\ \A i \in 1 .. Len(issued) :
                issued'[i] = IF i - 1 \in qids THEN Append(issued[i], number) ELSE issued[i]
<1>1. number \in Nat
  <2>1. NumberOfGates \in Nat
    BY NumberOfGatesType
  <2> QED
    BY <2>1
<1>2. /\ Len(issued) \in Nat /\ DOMAIN issued = 1 .. Len(issued)
      /\ \A i \in 1 .. Len(issued) : issued[i] \in Seq(Nat)
  BY LenProperties, ElementOfSeq DEF Inv
<1>3. issued' = [i \in 1 .. Len(issued) |->
                   IF i - 1 \in qids THEN Append(issued[i], number) ELSE issued[i]]
  BY <1>2 DEF Issue
<1>4. \A i \in 1 .. Len(issued) : Append(issued[i], number) \in Seq(Nat)
  BY <1>1, <1>2, AppendProperties
<1>5. issued' \in [1 .. Len(issued) -> Seq(Nat)]
  BY <1>2, <1>3, <1>4
<1> QED
  BY <1>1, <1>2, <1>3, <1>5, FunctionIsSeq

\* The owner of a position is a qubit whose calls are recorded.
LEMMA OwnersAreAllocated ==
    ASSUME Inv, NEW p \in DOMAIN wfn
    PROVE  /\ wfn[p].owner \in AllocatedIn(qubitmap)
           /\ wfn[p].owner + 1 \in 1 .. Len(issued) /\ wfn[p].owner + 1 - 1 = wfn[p].owner
           /\ p - 1 \in 0 .. Len(wfn) - 1
           /\ qubitmap[wfn[p].owner + 1] = p - 1
<1>1. /\ DOMAIN wfn = 1 .. Len(wfn) /\ Len(wfn) \in Nat /\ Len(Owners(wfn)) = Len(wfn)
      /\ Owners(wfn)[p] = wfn[p].owner /\ wfn[p].owner \in Nat
  BY VectorFacts DEF Inv
<1>2. /\ wfn[p].owner + 1 \in 1 .. Len(qubitmap) /\ qubitmap[wfn[p].owner + 1] = p - 1
  BY <1>1 DEF Inv, Consistent
<1>3. Len(qubitmap) \in Nat /\ Len(issued) = Len(qubitmap)
  BY LenProperties DEF Inv, Consistent
<1>4. p - 1 \in 0 .. Len(wfn) - 1 /\ p - 1 \in Nat
  BY <1>1
<1>5. p - 1 # Invalid
  BY <1>4, ConstantsAssumption DEF ConstantsAssumption
<1>6. wfn[p].owner \in AllocatedIn(qubitmap)
  BY <1>1, <1>2, <1>3, <1>5 DEF AllocatedIn
<1> QED
  BY <1>1, <1>2, <1>3, <1>4, <1>6

\* Append to the second of two sequences appends to both together.
LEMMA CatAppend ==
    ASSUME NEW S, NEW s \in Seq(S), NEW t \in Seq(S), NEW e \in S
    PROVE  Cat(s, Append(t, e)) = Append(Cat(s, t), e)
<1> DEFINE one == <<e>>
<1>1. one \in Seq(S) /\ Append(t, e) = Cat(t, one)
  BY CatOne
<1>2. Cat(s, t) \in Seq(S) /\ Append(Cat(s, t), e) = Cat(Cat(s, t), one)
  BY CatType, CatOne
<1> HIDE DEF one
<1> QED
  BY <1>1, <1>2, CatAssociative

\* A gate moves no qubit.
LEMMA GateKeepsInv ==
    ASSUME Inv, NEW w \in Vectors, Owners(w) = Owners(wfn), wfn' = w, qubitmap' = qubitmap,
           issued' \in Seq(Seq(Nat)), Len(issued') = Len(issued),
           NEW pending \in Seq(GatesOn(AllocatedIn(qubitmap))), pending_gates' = pending,
           Len(pending) <= MAX_PENDING_GATES
    PROVE  Inv'
<1>1. wfn' \in Vectors /\ Owners(wfn)' = Owners(wfn)
  BY DEF Owners
<1>2. Consistent(qubitmap', Owners(wfn)')
  BY <1>1 DEF Inv
<1>3. pending_gates' \in Seq(GatesOn(AllocatedIn(qubitmap)'))
  BY DEF AllocatedIn
<1> QED
  BY <1>1, <1>2, <1>3 DEF Inv

\* A gate that waits behind the others is the next that its qubits go through.
LEMMA CalledIsNext ==
    ASSUME Inv, Ordered, NEW gate \in GatesOn(AllocatedIn(qubitmap)),
           gate.number = NumberOfGates + 1, Issue(Qids(gate)), NEW p \in DOMAIN wfn
    PROVE  issued'[wfn[p].owner + 1]
             = Cat(wfn[p].gates, On(Append(pending_gates, gate), wfn[p].owner))
<1>1. PICK q, s, t, called, number :
        /\ q = wfn[p].owner /\ s = wfn[p].gates /\ t = On(pending_gates, wfn[p].owner)
        /\ called = issued[wfn[p].owner + 1] /\ number = gate.number
  OBVIOUS
<1>2. s \in Seq(Nat) /\ t \in Seq(Nat) /\ number \in Nat
  BY <1>1, VectorFacts, OnType DEF Inv, GatesOn
<1>3. called = Cat(s, t)
  BY <1>1 DEF Ordered
<1>4. On(Append(pending_gates, gate), q) = IF q \in Qids(gate) THEN Append(t, number) ELSE t
  BY <1>1, OnAppend DEF Inv
<1>5. issued'[q + 1] = IF q \in Qids(gate) THEN Append(called, number) ELSE called
  <2> DEFINE i == q + 1
  <2>3. wfn[p].owner \in Nat /\ wfn[p].owner + 1 \in 1 .. Len(issued)
    BY OwnersAreAllocated, VectorFacts DEF Inv
  <2>1. i \in 1 .. Len(issued) /\ i - 1 = q /\ called = issued[i]
    BY <1>1, <2>3
  <2> HIDE DEF i
  <2>2. issued'[i] = IF i - 1 \in Qids(gate) THEN Append(issued[i], number) ELSE issued[i]
    BY <1>1, <2>1, IssuedFacts
  <2>4. issued'[i] = IF q \in Qids(gate) THEN Append(called, number) ELSE called
    BY <2>1, <2>2
  <2> QED
    BY <2>4 DEF i
<1>6. Cat(s, Append(t, number)) = Append(Cat(s, t), number)
  BY <1>2, CatAppend
<1> QED
  BY <1>1, <1>3, <1>4, <1>5, <1>6

\* The gate that apply puts into the queue.
LEMMA ApplyFacts ==
    ASSUME Inv, NEW controls \in SUBSET Allocated, NEW target \in Allocated,
           NEW gate, gate = [controls |-> controls, target |-> target,
                             number |-> NumberOfGates + 1]
    PROVE  /\ gate \in GatesOn(AllocatedIn(qubitmap))
           /\ gate.number = NumberOfGates + 1 /\ Qids(gate) = controls \cup {target}
           /\ Append(pending_gates, gate) \in Seq(GatesOn(AllocatedIn(qubitmap)))
           /\ Len(Append(pending_gates, gate)) \in Nat
<1>1. NumberOfGates + 1 \in Nat
  <2>1. NumberOfGates \in Nat
    BY NumberOfGatesType
  <2> QED
    BY <2>1
<1>2. gate \in GatesOn(AllocatedIn(qubitmap))
  BY <1>1, AllocatedIs DEF GatesOn
<1>3. Append(pending_gates, gate) \in Seq(GatesOn(AllocatedIn(qubitmap)))
  BY <1>2, AppendProperties DEF Inv
<1>4. Len(Append(pending_gates, gate)) \in Nat
  BY <1>3, LenProperties
<1> QED
  BY <1>2, <1>3, <1>4 DEF Qids

\* apply and apply_controlled, with a flush when too many gates wait.
LEMMA ApplyKeepsInv ==
    ASSUME Inv, NEW controls \in SUBSET Allocated, NEW target \in Allocated,
           NEW span \in FuseSpans, Apply(controls, target, span)
    PROVE  /\ Inv'
           /\ Ordered /\ FuseSpans \subseteq 1 .. MaxKernelSpan => Ordered'
<1>1. PICK gate : gate = [controls |-> controls, target |-> target, number |-> NumberOfGates + 1]
  OBVIOUS
<1>2. PICK pending : pending = Append(pending_gates, gate)
  OBVIOUS
<1>3. PICK w : w = Flushed(wfn, pending, span)
  OBVIOUS
<1>4. PICK old : old = wfn
  OBVIOUS
<1>5. /\ gate \in GatesOn(AllocatedIn(qubitmap)) /\ gate.number = NumberOfGates + 1
      /\ Qids(gate) = controls \cup {target}
      /\ pending \in Seq(GatesOn(AllocatedIn(qubitmap))) /\ Len(pending) \in Nat
  BY <1>1, <1>2, ApplyFacts
<1>6. /\ qubitmap' = qubitmap /\ Issue(Qids(gate))
      /\ IF Len(pending) > MAX_PENDING_GATES THEN wfn' = w /\ pending_gates' = <<>>
         ELSE pending_gates' = pending /\ wfn' = wfn
  BY <1>1, <1>2, <1>3, <1>5 DEF Apply
<1>7. issued' \in Seq(Seq(Nat)) /\ Len(issued') = Len(issued)
  BY <1>6, IssuedFacts
<1>8. ASSUME Ordered, NEW p \in DOMAIN wfn
      PROVE  issued'[wfn[p].owner + 1] = Cat(wfn[p].gates, On(pending, wfn[p].owner))
  BY <1>2, <1>5, <1>6, <1>8, CalledIsNext
<1>9. CASE Len(pending) > MAX_PENDING_GATES
  <2>1. /\ w \in Vectors /\ Owners(w) = Owners(wfn) /\ DOMAIN w = DOMAIN wfn
        /\ \A p \in DOMAIN wfn :
             /\ w[p].owner = wfn[p].owner
             /\ FuseSpans \subseteq 1 .. MaxKernelSpan =>
                  w[p].gates = Cat(wfn[p].gates, On(pending, wfn[p].owner))
    BY <1>3, <1>5, FlushedFacts
  <2>2. /\ <<>> \in Seq(GatesOn(AllocatedIn(qubitmap)))
        /\ Len(<<>>) <= MAX_PENDING_GATES
    BY EmptySeq, ConstantsAssumption DEF ConstantsAssumption
  <2>3. wfn' = w /\ pending_gates' = <<>>
    BY <1>6, <1>9
  <2>4. Inv'
    BY <1>6, <1>7, <2>1, <2>2, <2>3, GateKeepsInv
  <2>5. ASSUME Ordered, FuseSpans \subseteq 1 .. MaxKernelSpan PROVE Ordered'
    <3> SUFFICES ASSUME NEW p \in DOMAIN w
                 PROVE  issued'[w[p].owner + 1] = Cat(w[p].gates, On(<<>>, w[p].owner))
      BY <2>3 DEF Ordered
    <3>1. issued'[w[p].owner + 1] = w[p].gates
      BY <1>8, <2>1, <2>5
    <3>2. Cat(w[p].gates, <<>>) = w[p].gates
      BY <2>1, VectorFacts, CatEmpty
    <3> QED
      BY <3>1, <3>2, OnEmpty
  <2> QED
    BY <2>4, <2>5
<1>10. CASE ~(Len(pending) > MAX_PENDING_GATES)
  <2>1. wfn' = old /\ pending_gates' = pending
    BY <1>4, <1>6, <1>10
  <2>2. Len(pending) <= MAX_PENDING_GATES
    BY <1>5, <1>10, ConstantsAssumption DEF ConstantsAssumption
  <2>3. old \in Vectors /\ Owners(old) = Owners(wfn)
    BY <1>4 DEF Inv
  <2>4. Inv'
    BY <1>5, <1>6, <1>7, <2>1, <2>2, <2>3, GateKeepsInv
  <2>5. ASSUME Ordered PROVE Ordered'
    BY <1>4, <1>8, <2>1, <2>5 DEF Ordered
  <2> QED
    BY <2>4, <2>5
<1> QED
  BY <1>9, <1>10

\* Gates that are applied at once come after those that waited.
LEMMA ApplyNowKeepsInv ==
    ASSUME Inv, NEW qids \in SUBSET Allocated, NEW span \in FuseSpans, ApplyNow(qids, span)
    PROVE  /\ Inv'
           /\ Ordered /\ FuseSpans \subseteq 1 .. MaxKernelSpan => Ordered'
<1>1. PICK v, number : /\ v = Flushed(wfn, pending_gates, span)
                       /\ number = NumberOfGates + 1
  OBVIOUS
<1>2. PICK pending : pending = pending_gates
  OBVIOUS
<1>3. /\ v \in Vectors /\ Owners(v) = Owners(wfn) /\ DOMAIN v = DOMAIN wfn
      /\ \A p \in DOMAIN wfn :
           /\ v[p].owner = wfn[p].owner
           /\ FuseSpans \subseteq 1 .. MaxKernelSpan =>
                v[p].gates = Cat(wfn[p].gates, On(pending, wfn[p].owner))
  BY <1>1, <1>2, FlushedFacts DEF Inv
<1>4. PICK w : w = [p \in DOMAIN v |-> IF \E q \in qids : Position(q) = p - 1
                     THEN [v[p] EXCEPT !.gates = Append(v[p].gates, number)] ELSE v[p]]
  OBVIOUS
<1>5. Issue(qids) /\ wfn' = w /\ pending_gates' = <<>> /\ qubitmap' = qubitmap
  BY <1>1, <1>4 DEF ApplyNow
<1>6. /\ number \in Nat /\ issued' \in Seq(Seq(Nat)) /\ Len(issued') = Len(issued)
      /\ \A i \in 1 .. Len(issued) :
           issued'[i] = IF i - 1 \in qids THEN Append(issued[i], number) ELSE issued[i]
  BY <1>1, <1>5, IssuedFacts
<1>7. ASSUME NEW p \in DOMAIN wfn
      PROVE  /\ w[p] = IF wfn[p].owner \in qids
                       THEN [v[p] EXCEPT !.gates = Append(v[p].gates, number)] ELSE v[p]
             /\ w[p] \in [owner : Nat, gates : Seq(Nat)] /\ w[p].owner = v[p].owner
  <2>1. (\E q \in qids : Position(q) = p - 1) <=> wfn[p].owner \in qids
    BY OwnerAtPosition, AllocatedIs
  <2>2. v[p] \in [owner : Nat, gates : Seq(Nat)] /\ v[p].gates \in Seq(Nat)
    BY <1>3, VectorFacts
  <2>3. Append(v[p].gates, number) \in Seq(Nat)
    BY <1>6, <2>2, AppendProperties
  <2>4. w[p] = IF wfn[p].owner \in qids
               THEN [v[p] EXCEPT !.gates = Append(v[p].gates, number)] ELSE v[p]
    BY <1>3, <1>4, <2>1
  <2> QED
    BY <2>2, <2>3, <2>4
<1>8. w \in Vectors /\ Owners(w) = Owners(wfn) /\ DOMAIN w = DOMAIN wfn
  <2>1. w = [p \in DOMAIN v |-> w[p]]
    BY <1>4
  <2> QED
    BY <1>3, <1>7, <2>1, VectorByOwners
<1>9. Inv'
  <2>1. /\ <<>> \in Seq(GatesOn(AllocatedIn(qubitmap)))
        /\ Len(<<>>) <= MAX_PENDING_GATES
    BY EmptySeq, ConstantsAssumption DEF ConstantsAssumption
  <2> QED
    BY <1>5, <1>6, <1>8, <2>1, GateKeepsInv
<1>10. ASSUME Ordered, FuseSpans \subseteq 1 .. MaxKernelSpan PROVE Ordered'
  <2> SUFFICES ASSUME NEW p \in DOMAIN w
               PROVE  issued'[w[p].owner + 1] = Cat(w[p].gates, On(<<>>, w[p].owner))
    BY <1>5 DEF Ordered
  <2>1. PICK q : q = wfn[p].owner
    OBVIOUS
  <2>2. w[p].owner = q /\ v[p].gates = issued[q + 1]
    BY <1>2, <1>3, <1>7, <1>8, <1>10, <2>1 DEF Ordered
  <2>3. issued'[q + 1] = IF q \in qids THEN Append(v[p].gates, number) ELSE v[p].gates
    <3> DEFINE i == q + 1
    <3>5. p \in DOMAIN wfn
      BY <1>8
    <3>6. wfn[p].owner \in Nat /\ wfn[p].owner + 1 \in 1 .. Len(issued)
      BY <3>5, OwnersAreAllocated, VectorFacts DEF Inv
    <3>1. i \in 1 .. Len(issued) /\ i - 1 = q
      BY <2>1, <3>6
    <3>2. v[p].gates = issued[i]
      BY <2>2
    <3> HIDE DEF i
    <3>3. issued'[i] = IF i - 1 \in qids THEN Append(issued[i], number) ELSE issued[i]
      BY <1>6, <3>1
    <3>4. issued'[i] = IF q \in qids THEN Append(v[p].gates, number) ELSE v[p].gates
      BY <3>1, <3>2, <3>3
    <3> QED
      BY <3>4 DEF i
  <2>4. w[p].gates = IF q \in qids THEN Append(v[p].gates, number) ELSE v[p].gates
    <3>1. v[p] \in [owner : Nat, gates : Seq(Nat)]
      BY <1>3, <1>8, VectorFacts
    <3> QED
      BY <1>7, <1>8, <2>1, <3>1
  <2>5. Cat(w[p].gates, <<>>) = w[p].gates
    BY <1>8, VectorFacts, CatEmpty
  <2> QED
    BY <2>2, <2>3, <2>4, <2>5, OnEmpty
<1> QED
  BY <1>9, <1>10

-----------------------------------------------------------------------------
(* The specification.                                                       *)

\* Nothing is allocated, nothing waits.
LEMMA Initially == Init => Inv /\ Ordered
<1> SUFFICES ASSUME Init PROVE Inv /\ Ordered
  OBVIOUS
<1>1. qubitmap = <<>> /\ wfn = <<>> /\ pending_gates = <<>> /\ issued = <<>>
  BY DEF Init
<1>2. DOMAIN wfn = {}
  BY <1>1
<1>3. Owners(wfn) = <<>>
  BY <1>1 DEF Owners
<1>4. Consistent(<<>>, <<>>)
  <2>1. Len(<<>>) = 0 /\ \A S : <<>> \in Seq(S)
    BY EmptySeq
  <2> QED
    BY <2>1 DEF Consistent
<1>5. Inv
  <2>1. \A S : <<>> \in Seq(S)
    BY EmptySeq
  <2>2. Len(<<>>) = 0 /\ 0 <= MAX_PENDING_GATES
    BY EmptySeq, ConstantsAssumption DEF ConstantsAssumption
  <2> QED
    BY <1>1, <1>3, <1>4, <2>1, <2>2 DEF Inv, Vectors
<1>6. Ordered
  BY <1>2 DEF Ordered
<1> QED
  BY <1>5, <1>6

\* Both ways to allocate take an id that no allocated qubit has, at most one beyond
\* the ids used so far.
LEMMA AllocatedIdIsNew ==
    ASSUME Inv, NEW q, q \in UnusedIds \cup {Len(qubitmap)}
    PROVE  q \in 0 .. Len(qubitmap) /\ q \notin Allocated
<1>1. Len(qubitmap) \in Nat
  BY ConsistentFacts DEF Inv
<1> QED
  BY <1>1 DEF UnusedIds, Allocated, LogicalIds

\* Inv is inductive.  So is Ordered with it, when there is a kernel for every fuse span.
LEMMA StepKeepsInv ==
    ASSUME Inv, [Next]_vars
    PROVE  /\ Inv'
           /\ Ordered /\ FuseSpans \subseteq 1 .. MaxKernelSpan => Ordered'
<1>1. CASE Next
  <2>1. PICK span \in FuseSpans :
          \/ \E q \in 0 .. MaxQubits - 1 : AllocateImplicit(q, span) \/ AllocateExplicit(q, span)
          \/ \E q \in Allocated : Release(q, span)
          \/ \E controls \in SUBSET Allocated, target \in Allocated :
               Apply(controls, target, span)
          \/ \E qids \in SUBSET Allocated \ {{}} : ApplyNow(qids, span)
          \/ Observe(span)
          \/ \E qubits \in SetToSeqs(Allocated) : InjectState(qubits)
    BY <1>1 DEF Next
  <2>2. ASSUME NEW q \in 0 .. MaxQubits - 1, AllocateImplicit(q, span)
        PROVE  Inv' /\ Ordered'
    <3>1. q \in UnusedIds \cup {Len(qubitmap)}
      BY <2>2 DEF AllocateImplicit
    <3> QED
      BY <2>2, <3>1, AllocatedIdIsNew, AllocateKeepsInv DEF AllocateImplicit
  <2>3. ASSUME NEW q \in 0 .. MaxQubits - 1, AllocateExplicit(q, span)
        PROVE  Inv' /\ Ordered'
    <3>1. q \in UnusedIds \cup {Len(qubitmap)}
      BY <2>3 DEF AllocateExplicit
    <3> QED
      BY <2>3, <3>1, AllocatedIdIsNew, AllocateKeepsInv DEF AllocateExplicit
  <2>4. ASSUME NEW q \in Allocated, Release(q, span) PROVE Inv' /\ Ordered'
    BY <2>4, ReleaseKeepsInv
  <2>5. ASSUME NEW controls \in SUBSET Allocated, NEW target \in Allocated,
               Apply(controls, target, span)
        PROVE  /\ Inv'
               /\ Ordered /\ FuseSpans \subseteq 1 .. MaxKernelSpan => Ordered'
    BY <2>5, ApplyKeepsInv
  <2>6. ASSUME NEW qids \in SUBSET Allocated \ {{}}, ApplyNow(qids, span)
        PROVE  /\ Inv'
               /\ Ordered /\ FuseSpans \subseteq 1 .. MaxKernelSpan => Ordered'
    BY <2>6, ApplyNowKeepsInv
  <2>7. ASSUME Observe(span) PROVE Inv' /\ Ordered'
    BY <2>7, ObserveKeepsInv
  <2>8. ASSUME NEW qubits \in SetToSeqs(Allocated), InjectState(qubits)
        PROVE  Inv' /\ Ordered'
    BY <2>8, InjectKeepsInv
  <2> QED
    BY <2>1, <2>2, <2>3, <2>4, <2>5, <2>6, <2>7, <2>8
<1>2. CASE UNCHANGED vars
  <2>1. /\ usage_' = usage_ /\ qubitmap' = qubitmap /\ wfn' = wfn
        /\ pending_gates' = pending_gates /\ issued' = issued
    BY <1>2 DEF vars
  <2> QED
    BY <2>1 DEF Inv, Ordered, Vectors, Owners, AllocatedIn
<1> QED
  BY <1>1, <1>2

\* TypeOK follows from Inv.
LEMMA InvImpliesTypeOK == Inv => TypeOK
<1> SUFFICES ASSUME Inv PROVE TypeOK
  OBVIOUS
<1>1. Len(wfn) \in Nat /\ DOMAIN wfn = 1 .. Len(wfn) /\ Len(Owners(wfn)) = Len(wfn)
  BY VectorFacts DEF Inv
<1>2. {Position(q) : q \in Allocated} = 0 .. Len(wfn) - 1
  <2>1. ASSUME NEW q \in Allocated PROVE Position(q) \in 0 .. Len(wfn) - 1
    <3>1. qubitmap[q + 1] \in Nat /\ qubitmap[q + 1] + 1 \in 1 .. Len(wfn)
      BY <1>1, AllocatedIs, ConsistentFacts DEF Inv
    <3> QED
      BY <1>1, <3>1 DEF Position
  <2>2. ASSUME NEW r \in 0 .. Len(wfn) - 1 PROVE \E q \in Allocated : Position(q) = r
    <3> DEFINE p == r + 1
    <3>1. p \in DOMAIN wfn /\ p - 1 = r
      BY <1>1
    <3> HIDE DEF p
    <3>2. wfn[p].owner \in Allocated /\ Position(wfn[p].owner) = p - 1
      BY <3>1, OwnersAreAllocated, AllocatedIs DEF Position
    <3> QED
      BY <3>1, <3>2
  <2> QED
    BY <2>1, <2>2
<1>3. Cardinality(Allocated) = Len(wfn)
  BY <1>1, AllocatedIs, AllocatedFinite DEF Inv
<1>4. \A i \in DOMAIN pending_gates : Qids(pending_gates[i]) \subseteq Allocated
  <2>1. \A i \in DOMAIN pending_gates : pending_gates[i] \in GatesOn(Allocated)
    BY AllocatedIs, LenProperties, ElementOfSeq DEF Inv
  <2> QED
    BY <2>1 DEF GatesOn, Qids
<1> QED
  BY <1>2, <1>3, <1>4 DEF TypeOK, Inv

\* PositionsFollowQubits follows from Inv.
LEMMA InvImpliesPositionsFollowQubits == Inv => PositionsFollowQubits
  BY OwnersAreAllocated DEF PositionsFollowQubits, Position

\* If every qubit's history and the gates that wait for it make up its calls, a flush, with
\* whatever span, completes the history.
LEMMA OrderedImpliesProgramOrder ==
    ASSUME Inv, Ordered, FuseSpans \subseteq 1 .. MaxKernelSpan
    PROVE  ProgramOrder
<1> SUFFICES ASSUME NEW span \in FuseSpans, NEW q \in Allocated
             PROVE  Flushed(wfn, pending_gates, span)[Position(q) + 1].gates = issued[q + 1]
  BY DEF ProgramOrder
<1>1. PICK w, p : w = Flushed(wfn, pending_gates, span) /\ p = Position(q) + 1
  OBVIOUS
<1>2. p \in DOMAIN wfn /\ wfn[p].owner = q
  <2>1. /\ DOMAIN wfn = 1 .. Len(wfn) /\ Len(Owners(wfn)) = Len(wfn)
        /\ \A r \in DOMAIN wfn : Owners(wfn)[r] = wfn[r].owner
    BY VectorFacts DEF Inv
  <2>2. qubitmap[q + 1] + 1 \in 1 .. Len(wfn) /\ Owners(wfn)[qubitmap[q + 1] + 1] = q
    BY <2>1, AllocatedIs, ConsistentFacts DEF Inv
  <2>3. p = qubitmap[q + 1] + 1
    BY <1>1 DEF Position
  <2> QED
    BY <2>1, <2>2, <2>3
<1>3. w[p].gates = Cat(wfn[p].gates, On(pending_gates, wfn[p].owner))
  BY <1>1, <1>2, FlushedFacts DEF Inv
<1>4. issued[q + 1] = w[p].gates
  BY <1>2, <1>3 DEF Ordered
<1> QED
  BY <1>1, <1>4

\* For any number of qubits, queue length, fuse depth and fuse spans: the positions of the
\* allocated qubits are those of the vector, each once, every gate in the queue acts on
\* allocated qubits, and the queue is never longer than MAX_PENDING_GATES.
THEOREM TypesAreRight == Spec => []TypeOK
<1>1. Init => Inv
  BY Initially
<1>2. Inv /\ [Next]_vars => Inv'
  BY StepKeepsInv
<1>3. Inv => TypeOK
  BY InvImpliesTypeOK
<1> QED
  BY <1>1, <1>2, <1>3, PTL DEF Spec

\* After any sequence of allocations, releases and injections the position a logical id maps
\* to carries that qubit's state (wavefunction.hpp:531-540, 593-603).
THEOREM PositionsAreRight == Spec => []PositionsFollowQubits
<1>1. Init => Inv
  BY Initially
<1>2. Inv /\ [Next]_vars => Inv'
  BY StepKeepsInv
<1>3. Inv => PositionsFollowQubits
  BY InvImpliesPositionsFollowQubits
<1> QED
  BY <1>1, <1>2, <1>3, PTL DEF Spec

\* Clustering is equivalent to the program: whenever the state is looked at, every qubit has
\* gone through the gates called on it, all of them and in that order, across flushes,
\* allocations, releases and injections.  The fuse spans the simulator sets itself are 2
\* and 4, and there are kernels for up to 7 qubits; the environment can ask for more, and
\* then gates are lost (fused.hpp:64-110).
THEOREM ProgramOrderIsKept ==
    ASSUME FuseSpans \subseteq 1 .. MaxKernelSpan
    PROVE  Spec => []ProgramOrder
<1>1. Init => Inv /\ Ordered
  BY Initially
<1>2. Inv /\ Ordered /\ [Next]_vars => (Inv /\ Ordered)'
  BY StepKeepsInv
<1>3. Inv /\ Ordered => ProgramOrder
  BY OrderedImpliesProgramOrder
<1> QED
  BY <1>1, <1>2, <1>3, PTL DEF Spec

=============================================================================
