--------------------------- MODULE BodyRefinement ---------------------------
(***************************************************************************)
(* With a single thread the contrast applications implement PartsDesk too, *)
(* with other items: what is ordered is a signed body, and whether a       *)
(* supervisor is asked is up to the body.                                  *)
(***************************************************************************)
EXTENDS BodyTrustingApp, WorkflowInvariants

ItemFor(account, body) ==
  [account |-> account, part |-> body.part_number, quantity |-> body.quantity,
   body |-> body]

Buyers == {a \in Account : RoleOf[a] = "technician" /\ Limit[a] # None}

SignedItems ==
  {ItemFor(a, body) : a \in Buyers, body \in {b \in Bodies : b.part_number \in Part}}

\* What the body's verdict, or the facts in it, release without a supervisor.
ReleasedItems ==
  {i \in SignedItems : ~TrustedVerdict(i.account, i.body).requires_supervisor}

ItemIn(table, bodies) ==
  [o \in OrderId |->
     IF o \in DOMAIN table
     THEN [account |-> table[o].account, part |-> table[o].part,
           quantity |-> table[o].quantity, body |-> bodies[o]]
     ELSE None]

Desk == INSTANCE PartsDesk WITH
  Item <- SignedItems,
  AutoItem <- ReleasedItems,
  NoItem <- None,
  status <- StatusIn(orders),
  item <- ItemIn(orders, basis),
  shelf <- stock

\* Orders served one at a time behave as a desk promises that takes its clients'
\* word: the body in each item decides on its release, and from there on no order
\* is collected twice, before its release or for another quantity.
ImplementsSignedDesk == Desk!DeskSpec
-----------------------------------------------------------------------------
\* Why it does, beside Serial: what create_order stages is the item its thread's
\* signed body makes, routed by that body.
DraftsTrusted ==
  \A w \in Worker :
    Staged(task[w]) =>
      LET draft == task[w].work.draft
          body == signed[w]
      IN  /\ ItemFor(draft.account, body) \in SignedItems
          /\ draft = TrustedOrder(draft.account, body)
=============================================================================
