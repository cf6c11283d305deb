----------------------------- MODULE QubitPool ------------------------------
(***************************************************************************)
(* What a qubit manager promises, whatever it keeps its qubits in: a qubit *)
(* is granted to one owner at a time, a qubit granted to satisfy a borrow  *)
(* request lives exactly as long as it is on loan, a disabled qubit is out *)
(* for good, and one call of the manager changes the status of one qubit.  *)
(***************************************************************************)
EXTENDS Integers, Functions

CONSTANT QubitIds   \* every id a manager could ever hand out

VARIABLES
    owned,      \* ids granted by an allocation
    loans,      \* ids granted for borrowing, with the number of borrowers
    disabled

vars == <<owned, loans, disabled>>

InUse == owned \cup DOMAIN loans \cup disabled

TypeOK ==
    /\ owned \subseteq QubitIds
    /\ DOMAIN loans \subseteq QubitIds
    /\ \A id \in DOMAIN loans : loans[id] \in Nat \ {0}
    /\ disabled \subseteq QubitIds

Init ==
    /\ owned = {}
    /\ loans = [id \in {} |-> 0]
    /\ disabled = {}

Grant(id) ==
    /\ id \notin InUse
    /\ owned' = owned \cup {id}
    /\ UNCHANGED <<loans, disabled>>

GrantLoan(id) ==
    /\ id \notin InUse
    /\ loans' = [x \in DOMAIN loans \cup {id} |-> IF x = id THEN 1 ELSE loans[x]]
    /\ UNCHANGED <<owned, disabled>>

Share(id) ==
    /\ id \in DOMAIN loans
    /\ loans' = [loans EXCEPT ![id] = @ + 1]
    /\ UNCHANGED <<owned, disabled>>

Unshare(id) ==
    /\ id \in DOMAIN loans
    /\ loans' = IF loans[id] = 1 THEN Restrict(loans, DOMAIN loans \ {id})
                ELSE [loans EXCEPT ![id] = @ - 1]
    /\ UNCHANGED <<owned, disabled>>

Reclaim(id) ==
    /\ id \in owned
    /\ owned' = owned \ {id}
    /\ UNCHANGED <<loans, disabled>>

Disable(id) ==
    /\ id \in owned \cup DOMAIN loans
    /\ owned' = owned \ {id}
    /\ loans' = Restrict(loans, DOMAIN loans \ {id})
    /\ disabled' = disabled \cup {id}

Next ==
    \E id \in QubitIds :
        \/ Grant(id) \/ Reclaim(id)
        \/ GrantLoan(id) \/ Share(id) \/ Unshare(id)
        \/ Disable(id)

Spec == Init /\ [][Next]_vars
=============================================================================
