-------------------------- MODULE MCBodyTrustingApp -------------------------
(***************************************************************************)
(* The contrast applications for TLC: a technician and a supervisor, one   *)
(* part, and clients that sign with and without a verdict and a minted     *)
(* code, with nulls and converted values; all minted codes are the same    *)
(* string.                                                                 *)
(***************************************************************************)
EXTENDS BodyRefinement, TLC

CONSTANTS avery, navarro, wrench, woAvery, minted, textFalse, textTwo

MCAccount == {avery, navarro}
MCRoleOf == [a \in MCAccount |-> IF a = navarro THEN "supervisor" ELSE "technician"]
MCLimit == [a \in MCAccount |-> IF a = navarro THEN None ELSE 10]

MCPart == {wrench}
MCSeedStock == [p \in Part |-> 3]
MCWorkOrder == {woAvery}
MCWorkOrderOwner == [wo \in MCWorkOrder |-> avery]

Facts(quantity) ==
  [part_number |-> wrench, quantity |-> quantity, work_order_id |-> woAvery,
   unit_price_cents |-> 10, restricted |-> FALSE, line_total_cents |-> 10 * quantity]

Verdict(quantity) ==
  [within_limit |-> quantity = 1, requires_supervisor |-> quantity # 1]

Minted(epoch) == [pickup_code |-> minted, created_at_epoch |-> epoch]

\* The strings "false" for a flag, which JavaScript takes for a yes, and "2".
MCConverted == textFalse :> FALSE @@ textTwo :> 2
MCWritten == textFalse :> TRUE @@ textTwo :> 2

\* The forms of the client's history: facts only, then a verdict, then a code;
\* a code whose epoch is zero; then what only other clients post: half a verdict,
\* a string for a number, and a null and a string for flags.
MCForms ==
  {Facts(1) @@ Minted(0), Facts(1) @@ Verdict(1),
   Facts(2) @@ Verdict(2) @@ Minted(1),
   [quantity |-> textTwo, requires_supervisor |-> FALSE] @@ Facts(2),
   [within_limit |-> None, restricted |-> textFalse] @@ Facts(2) @@ Verdict(2)}

MCSymmetry ==
  Permutations(Worker) \cup Permutations(OrderId) \cup Permutations(CodeId)
=============================================================================
