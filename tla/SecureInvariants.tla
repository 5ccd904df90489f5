-------------------------- MODULE SecureInvariants --------------------------
(***************************************************************************)
(* The inductive invariant of the secure application.  The tables are      *)
(* consistent in every committed state (TablesOK), and what a thread       *)
(* remembers of its earlier reads is still true of whatever a commit of    *)
(* another thread cannot change (TaskOK).                                  *)
(***************************************************************************)
EXTENDS SecureApp, WorkflowInvariants

Authorised(o) ==
  \/ WithinOwnAuthority(orders[o].account, orders[o].part, orders[o].quantity)
  \/ orders[o].approved_by # None /\ RoleOf[orders[o].approved_by] = "supervisor"

TablesOK ==
  /\ OneCodePerOrder
  /\ CodeFollowsRelease
  /\ UsedIffCollected
  /\ CollectedInTime
  /\ \A c \in DOMAIN codes :
       /\ codes[c].created_at <= now
       /\ Authorised(codes[c].order_id)
  /\ \A o \in DOMAIN orders : orders[o].collected_at # None => HasCode(o)

InWindow(c, t) == codes[c].created_at <= t /\ t <= codes[c].expires_at

\* An order not yet inserted is untouched, and carries a code exactly if its
\* technician may have it without a supervisor.
CreateOK(u) ==
  u.reason = "order_created" =>
    /\ u.draft.approved_by = None
    /\ u.draft.collected_at = None
    /\ u.at <= now
    /\ \/ u.draft.state = "pending_supervisor" /\ u.code = None
       \/ /\ u.draft.state = "auto_approved"
          /\ u.code = Fresh
          /\ WithinOwnAuthority(u.draft.account, u.draft.part, u.draft.quantity)

DecisionOK(u) ==
  u.reason \in {"order_approved", "order_rejected"} =>
    /\ u.order \in DOMAIN orders
    /\ RoleOf[u.actor] = "supervisor"
    /\ u.reason = "order_approved" => u.at <= now

CollectOK(u) ==
  u.reason = "order_collected" =>
    /\ u.order \in DOMAIN orders
    /\ u.row \in DOMAIN codes
    /\ codes[u.row].order_id = u.order
    /\ InWindow(u.row, u.at)

ReadOK(t) ==
  t.pc \in {"order", "part"} => t.row \in DOMAIN codes /\ InWindow(t.row, t.at)

WorkOK(t) ==
  t.pc \in {"flush", "commit"} =>
    CreateOK(t.work) /\ DecisionOK(t.work) /\ CollectOK(t.work)

TaskOK(w) == ReadOK(task[w]) /\ WorkOK(task[w]) /\ IssueOK(task[w])

Consistent == TypeOK /\ LockOK /\ TablesOK /\ \A w \in Worker : TaskOK(w)
=============================================================================
