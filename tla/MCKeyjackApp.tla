---------------------------- MODULE MCKeyjackApp ----------------------------
(***************************************************************************)
(* The whole secure site for TLC: a technician and a supervisor who sign   *)
(* in and out while an order is placed, decided and collected.             *)
(***************************************************************************)
EXTENDS KeyjackInvariants, TLC

CONSTANTS avery, navarro, wrench, woAvery

MCAccount == {avery, navarro}
MCRoleOf == [a \in MCAccount |-> IF a = navarro THEN "supervisor" ELSE "technician"]
MCLimit == [a \in MCAccount |-> IF a = navarro THEN None ELSE 10]

MCPart == {wrench}
MCSeedStock == [p \in Part |-> 1]
MCPrice == [p \in Part |-> 10]
MCRestricted == [p \in Part |-> FALSE]

MCWorkOrder == {woAvery}
MCWorkOrderOwner == [wo \in MCWorkOrder |-> avery]

MCSymmetry ==
  Permutations(Worker) \cup Permutations(Token)
=============================================================================
