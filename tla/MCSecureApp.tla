---------------------------- MODULE MCSecureApp -----------------------------
(***************************************************************************)
(* The secure application for TLC: two technicians and a supervisor, a     *)
(* wrench whose price makes one piece an automatic order and two pieces    *)
(* one for the supervisor, and a restricted canister that always needs     *)
(* approval.                                                               *)
(***************************************************************************)
EXTENDS SecureRefinement, SecureInvariants, TLC

CONSTANTS avery, brooks, navarro, wrench, canister, woAvery

MCAccount == {avery, brooks, navarro}
MCRoleOf == [a \in MCAccount |-> IF a = navarro THEN "supervisor" ELSE "technician"]
MCLimit == [a \in MCAccount |-> IF a = navarro THEN None ELSE 10]

\* Cfgs that need one part only take the first set.
MCWrench == {wrench}
MCParts == {wrench, canister}
\* Less than two orders can ask for: pickup does not look at the shelf.
MCSeedStock == [p \in Part |-> 2]
MCPrice == [p \in Part |-> IF p = wrench THEN 10 ELSE 4]
MCRestricted == [p \in Part |-> p # wrench]
MCQuantities == {1, 2}

MCWorkOrder == {woAvery}
MCWorkOrderOwner == [wo \in MCWorkOrder |-> avery]

MCSymmetry == Permutations(Worker) \cup Permutations(OrderId) \cup Permutations(CodeId)
=============================================================================
