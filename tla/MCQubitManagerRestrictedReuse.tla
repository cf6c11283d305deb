------------------- MODULE MCQubitManagerRestrictedReuse -------------------
(***************************************************************************)
(* Model-checking instances of QubitManagerRestrictedReuse: the ways to    *)
(* construct the manager.                                                  *)
(***************************************************************************)
EXTENDS QubitManagerRestrictedReuse

Configuration(capacity, mayExtend, encourageReuse) ==
    [capacity |-> capacity, MayExtendCapacity |-> mayExtend, EncourageReuse |-> encourageReuse]

\* Capacity that is fixed, that grows, and that grows while released qubits are
\* discarded.
FrontOnly == {Configuration(3, FALSE, TRUE), Configuration(1, TRUE, TRUE), Configuration(1, TRUE, FALSE)}

\* Released qubits go to the back of their list.
BackOnly == {Configuration(3, FALSE, FALSE)}
=============================================================================
