------------------------------- MODULE Domain -------------------------------
(***************************************************************************)
(* The vocabulary of the parts desk and its one pure decision: what an     *)
(* order is routed to.  domain.py and the enumerations of models.py.       *)
(***************************************************************************)
EXTENDS Integers

CONSTANT None  \* SQL NULL and Python's None

Role == {"technician", "supervisor"}

OrderState ==
  {"auto_approved", "pending_supervisor", "approved", "rejected", "collected"}

\* States from which an owner may collect an order with its pickup code.
COLLECTABLE_STATES == {"auto_approved", "approved"}

\* compute_authorization: the verdict on a line total in cents.
ComputeAuthorization(limit, restricted, total) ==
  LET within == total <= limit
  IN  [within_limit |-> within, requires_supervisor |-> restricted \/ ~within]

\* Mutant: a state name the database does not know.
RouteStateMisnamed(authorization) ==
  IF authorization.requires_supervisor THEN "pending" ELSE "auto_approved"

\* route_state: the state a new order gets from a verdict.
RouteState(authorization) ==
  IF authorization.requires_supervisor
  THEN "pending_supervisor"
  ELSE "auto_approved"
=============================================================================
