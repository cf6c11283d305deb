--------------------------- MODULE MCWavefunction ---------------------------
(***************************************************************************)
(* Wavefunction for TLC.  With no more qubits than the widest kernel, it   *)
(* makes no difference which of a gate's qubits are controls: what a       *)
(* waiting gate does to the rest of a run depends on the set of its        *)
(* qubits.                                                                 *)
(***************************************************************************)
EXTENDS Wavefunction

ASSUME KernelsSuffice == MaxQubits <= MaxKernelSpan

View == <<usage_, qubitmap, wfn, issued,
          [i \in DOMAIN pending_gates |-> <<Qids(pending_gates[i]), pending_gates[i].number>>]>>
=============================================================================
