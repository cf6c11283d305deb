------------------------ MODULE MCSimulatorRegistry ------------------------
(***************************************************************************)
(* Model-checking instances of SimulatorRegistry.  Threads are             *)
(* interchangeable.                                                        *)
(***************************************************************************)
EXTENDS SimulatorRegistry, TLC

CONSTANTS t1, t2, t3

MCThreads == {t1, t2, t3}
Symmetry == Permutations(MCThreads)
=============================================================================
