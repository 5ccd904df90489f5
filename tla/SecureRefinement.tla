-------------------------- MODULE SecureRefinement --------------------------
(***************************************************************************)
(* With a single thread the secure application implements PartsDesk: every *)
(* commit is one step of the desk, and every read, lock, rollback, crash   *)
(* and tick in between is invisible.                                       *)
(***************************************************************************)
EXTENDS SecureApp, WorkflowInvariants

Items ==
  [account : {a \in Account : RoleOf[a] = "technician" /\ Limit[a] # None},
   part : Part, quantity : Quantities]

AutoItems ==
  {i \in Items : WithinOwnAuthority(i.account, i.part, i.quantity)}

ItemOf(row) == [account |-> row.account, part |-> row.part, quantity |-> row.quantity]

ItemIn(table) == [o \in OrderId |-> IF o \in DOMAIN table THEN ItemOf(table[o]) ELSE None]

Desk == INSTANCE PartsDesk WITH
  Item <- Items,
  AutoItem <- AutoItems,
  NoItem <- None,
  status <- StatusIn(orders),
  item <- ItemIn(orders),
  shelf <- stock

\* Orders served one at a time behave as the desk promises (create_order,
\* approve_order, reject_order, pickup): no order is collected twice, or before
\* its release, and each collection takes exactly its quantity off the shelf.
ImplementsDesk == Desk!DeskSpec
-----------------------------------------------------------------------------
\* Why it does: what the thread remembers of its reads is still so when it commits
\* (Serial), and what create_order stages is an item the desk takes, released without
\* a supervisor exactly if it may be.
Routed ==
  \A w \in Worker :
    Staged(task[w]) =>
      LET draft == task[w].work.draft
      IN  /\ ItemOf(draft) \in Items
          /\ draft.state = IF ItemOf(draft) \in AutoItems THEN "auto_approved"
                           ELSE "pending_supervisor"
=============================================================================
