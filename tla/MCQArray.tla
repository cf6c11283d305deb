------------------------------ MODULE MCQArray ------------------------------
(* QArray for TLC: arrays are interchangeable, and so are elements other than *)
(* the default one.                                                          *)
EXTENDS QArray, TLC

Symmetry == Permutations(Vars) \cup Permutations(Values \ {Default})

\* The names of the inner arrays, and what no array sees of them, make no difference
\* to the rest of a run.
Visible(n, c) == \E v \in Vars : /\ arrays[v].inner = n
                                 /\ \E i \in 0 .. arrays[v].length - 1 : ConvertIndex(arrays[v], i) = c - 1
Seen(n) == [inners[n] EXCEPT !.storage =
                [c \in DOMAIN @ |-> IF Visible(n, c) THEN @[c] ELSE Default]]
View == <<[v \in Vars |-> [arrays[v] EXCEPT !.inner =
                <<{w \in Vars : arrays[w].inner = @}, Seen(@)>>]], value, outside>>

UnitAndReverse == {-1, 1}
Reverse == {-1}
Negative == -1
=============================================================================
