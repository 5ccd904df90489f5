------------------------- MODULE WorkflowInvariants -------------------------
(***************************************************************************)
(* What stays true of the workflow whichever create_order feeds it, in the *)
(* detail an induction needs: the write lock, the audit trail, the shelf.  *)
(* The applications' own invariants imply Known; the rest is inductive     *)
(* beside it.                                                              *)
(***************************************************************************)
EXTENDS WorkflowProperties

\* Whoever is committing holds the lock, and nobody else.
LockOK == \A w \in Worker : task[w].pc = "commit" <=> writer = w

\* Whether an approval brings a code was read under the lock, and is still right
\* when it commits.
IssueOK(t) ==
  t.pc = "commit" /\ t.work.reason = "order_approved" =>
    (t.work.issue <=> ~HasCode(t.work.order))

\* A unit of work inserts an untouched order, or is about one that is there.
WorkKnown(u) ==
  /\ u.reason = "order_created" =>
       u.draft.approved_by = None /\ u.draft.collected_at = None
  /\ u.reason \in {"order_approved", "order_rejected", "order_collected"} =>
       u.order \in DOMAIN orders

\* An order that is staged and not yet committed.
Staged(t) == t.pc \in {"flush", "commit"} /\ t.work.reason = "order_created"

TaskKnown(t) ==
  /\ t.pc \in {"order", "part"} => t.row \in DOMAIN codes
  /\ t.pc \in {"flush", "commit"} => WorkKnown(t.work)

\* Rows are never deleted, so every row a thread remembers is there.
Known ==
  /\ TypeOK
  /\ \A c \in DOMAIN codes : codes[c].order_id \in DOMAIN orders
  /\ \A w \in Worker : TaskKnown(task[w])
-----------------------------------------------------------------------------
(***************************************************************************)
(* The audit trail: rows that are there, and lines whose rows are yet to   *)
(* come or never will.                                                     *)
(***************************************************************************)

\* The threads whose event of this kind is logged and not yet persisted.
LineOut(t, r) ==
  /\ t.pc \in {"flush", "commit"}
  /\ t.work.reason = r
  /\ r = "order_approved" => t.pc = "commit"

Pending(r) == {w \in Worker : LineOut(task[w], r)}

LinesOK ==
  \A r \in Reason : IsFiniteSet(Pending(r)) /\ audit[r] + Cardinality(Pending(r)) <= log[r]

Decided == {o \in DOMAIN orders : orders[o].approved_by # None}
HandedOver == {o \in DOMAIN orders : orders[o].collected_at # None}

RowsOK ==
  /\ IsFiniteSet(DOMAIN orders)
  /\ audit["order_created"] = Cardinality(DOMAIN orders)
  /\ audit["order_approved"] + audit["order_rejected"] >= Cardinality(Decided)
  /\ audit["order_collected"] >= Cardinality(HandedOver)

Accounted == LinesOK /\ RowsOK
-----------------------------------------------------------------------------
(***************************************************************************)
(* The shelf: what a pickup will write is what some shelf count it read    *)
(* allows, and shelf counts only ever fall behind what was handed out.     *)
(***************************************************************************)

\* The shelf counts a collection of order o may leave.
ShelfLeft(u) ==
  LET p == orders[u.order].part
      quantity == orders[u.order].quantity
  IN  /\ u.stock <= SeedStock[p] - quantity
      /\ u.stock >= SeedStock[p] - HandedOut(p) - quantity

ShelfOK(t) ==
  t.pc \in {"flush", "commit"} /\ t.work.reason = "order_collected" =>
    ShelfLeft(t.work)

StockOK ==
  /\ IsFiniteSet(DOMAIN orders)
  /\ \A o \in OrderId \ DOMAIN orders : handed[o] = 0
  /\ \A p \in Part : stock[p] <= SeedStock[p]
  /\ StockNeverOverCounted
  /\ \A w \in Worker : ShelfOK(task[w])
-----------------------------------------------------------------------------
(***************************************************************************)
(* Requests served one at a time: what the thread remembers of its reads   *)
(* is still so when it commits.                                            *)
(***************************************************************************)

SingleThread == \A v, w \in Worker : v = w

\* The order a pickup's code belongs to is still there to be collected.
ReadCurrent(t) ==
  t.pc = "part" => orders[codes[t.row].order_id].state \in COLLECTABLE_STATES

\* A unit of work is still right about the order, and about the stock.
WorkCurrent(u) ==
  /\ u.reason = "order_created" => u.draft.state # "collected"
  /\ u.reason \in {"order_approved", "order_rejected"} =>
       orders[u.order].state = "pending_supervisor"
  /\ u.reason = "order_collected" =>
       /\ orders[u.order].state \in COLLECTABLE_STATES
       /\ u.stock = stock[orders[u.order].part] - orders[u.order].quantity

TaskCurrent(t) ==
  ReadCurrent(t) /\ (t.pc \in {"flush", "commit"} => WorkCurrent(t.work))

Collected(o) == o \in DOMAIN orders /\ orders[o].state = "collected"

\* Every collected order was handed out once, the others never.
HandedOK == \A o \in OrderId : handed[o] = IF Collected(o) THEN 1 ELSE 0

Serial == HandedOK /\ \A w \in Worker : TaskCurrent(task[w])

\* What one step may then do to the orders and the shelf: place an order, decide on
\* a waiting one, or hand a released one out.
Writes(o) ==
  /\ o \in OrderId
  /\ DOMAIN orders' = DOMAIN orders \cup {o}
  /\ \A x \in DOMAIN orders : x # o => orders'[x] = orders[x]

KeepsFacts(o) ==
  /\ o \in DOMAIN orders
  /\ orders'[o].account = orders[o].account
  /\ orders'[o].part = orders[o].part
  /\ orders'[o].quantity = orders[o].quantity

Places(w, o) ==
  /\ Writes(o) /\ o \notin DOMAIN orders
  /\ task[w].pc = "commit" /\ Staged(task[w])
  /\ orders'[o] = task[w].work.draft
  /\ UNCHANGED stock

Decides(o) ==
  /\ Writes(o) /\ KeepsFacts(o)
  /\ orders[o].state = "pending_supervisor"
  /\ orders'[o].state \in {"approved", "rejected"}
  /\ UNCHANGED stock

HandsOut(o) ==
  /\ Writes(o) /\ KeepsFacts(o)
  /\ orders[o].state \in COLLECTABLE_STATES
  /\ orders'[o].state = "collected"
  /\ stock' = [stock EXCEPT ![orders[o].part] = @ - orders[o].quantity]

Turn ==
  \E o \in OrderId : (\E w \in Worker : Places(w, o)) \/ Decides(o) \/ HandsOut(o)

\* The life of an order, as one step of OrderLifecycle sees it.
Lives ==
  \A o \in DOMAIN orders :
    o \in DOMAIN orders' /\ LegalTransition(orders[o].state, orders'[o].state)
-----------------------------------------------------------------------------
\* How far an order is, as the parts desk sees it.
StatusOf(state) ==
  CASE state = "pending_supervisor" -> "waiting"
    [] state \in COLLECTABLE_STATES -> "ready"
    [] OTHER -> state

StatusIn(table) ==
  [o \in OrderId |-> IF o \in DOMAIN table THEN StatusOf(table[o].state) ELSE "absent"]
=============================================================================
