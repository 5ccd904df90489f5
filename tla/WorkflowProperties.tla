------------------------- MODULE WorkflowProperties -------------------------
(***************************************************************************)
(* What the workflow promises whichever create_order feeds it.             *)
(***************************************************************************)
EXTENDS Workflow

-----------------------------------------------------------------------------
(***************************************************************************)
(* What holds however the threads interleave, fail or are killed.          *)
(***************************************************************************)

\* An order never has two pickup codes, even when two supervisors approve it at
\* the same time: approve_order reads order.pickup_code with the lock held.
OneCodePerOrder ==
  \A c, d \in DOMAIN codes : codes[c].order_id = codes[d].order_id => c = d

\* A code is used up exactly when its order has been collected: pickup writes
\* the code, the order and the stock in one commit, or none of them.
UsedIffCollected ==
  \A c \in DOMAIN codes :
    codes[c].used <=> orders[codes[c].order_id].collected_at # None

\* How many of a part the desk has handed out.
Pieces == [o \in DOMAIN orders |-> handed[o] * orders[o].quantity]
OrdersOf(p) == {o \in DOMAIN orders : orders[o].part = p}
HandedOut(p) == SumFunctionOnSet(Pieces, OrdersOf(p))

\* Stale stock reads lose decrements but never invent them, and once parts were
\* handed out at least one whole order is missing from the shelf: the last
\* commit's.
StockNeverOverCounted ==
  \A p \in Part :
    /\ stock[p] >= SeedStock[p] - HandedOut(p)
    /\ HandedOut(p) > 0 =>
         \E o \in DOMAIN orders :
           /\ orders[o].part = p
           /\ handed[o] > 0
           /\ stock[p] <= SeedStock[p] - orders[o].quantity

\* The audit table accounts for what the other tables show: one order_created
\* row for each order, a decision row for each decided order, an order_collected
\* row for each collected one; and no row lacks its log line.
AuditAccountsForTables ==
  /\ audit["order_created"] = Cardinality(DOMAIN orders)
  /\ audit["order_approved"] + audit["order_rejected"]
       >= Cardinality({o \in DOMAIN orders : orders[o].approved_by # None})
  /\ audit["order_collected"]
       >= Cardinality({o \in DOMAIN orders : orders[o].collected_at # None})
  /\ \A r \in Reason : audit[r] <= log[r]

\* The write lock is always given back: by a commit, by the rollback of a
\* handler that raised, or by a crash.
LockReleased == \A w \in Worker : writer = w ~> writer # w

\* Every request is answered in the end, also when another thread's write keeps
\* the lock away from it.
EveryRequestAnswered ==
  \A w \in Worker : task[w].pc # "idle" ~> task[w].pc = "idle"

-----------------------------------------------------------------------------
(***************************************************************************)
(* What the handlers' own comments say.  They hold while requests are      *)
(* served one at a time; two threads can break each of them.               *)
(***************************************************************************)

\* A pickup code is single-use: an order's parts are handed out at most once.
SingleUse == \A o \in OrderId : handed[o] <= 1

\* The stock is decremented exactly once for each collection.
StockExact == \A p \in Part : stock[p] = SeedStock[p] - HandedOut(p)

\* What one commit may do to an order.
LegalTransition(from, to) ==
  \/ from = to
  \/ from = "pending_supervisor" /\ to \in {"approved", "rejected"}
  \/ from \in COLLECTABLE_STATES /\ to = "collected"

\* The life of an order: a waiting order is approved or rejected, a collectable
\* one is collected, nothing else ever happens to either, and no row is deleted.
OrderLifecycle ==
  [][\A o \in DOMAIN orders :
       o \in DOMAIN orders' /\ LegalTransition(orders[o].state, orders'[o].state)]_vars

\* Once a supervisor's rejection is committed, the order's parts stay on the
\* shelf: rejected is not one of the COLLECTABLE_STATES.
RejectedNeverHandedOut ==
  [][\A o \in DOMAIN orders :
       orders[o].state = "rejected" => handed'[o] = handed[o]]_vars

\* When no request is under way every audit event was both logged and
\* persisted.
EventsLoggedAndPersisted ==
  (\A w \in Worker : task[w].pc = "idle") => log = audit
=============================================================================
