----------------------------- MODULE SecureApp ------------------------------
(***************************************************************************)
(* The secure application: the shared workflow with the create_order of    *)
(* apps/secure.py, which takes every fact it decides on from the server's  *)
(* own tables.                                                             *)
(***************************************************************************)
EXTENDS WorkflowProperties

CONSTANTS
  WorkOrder,         \* rows of the work_orders table
  WorkOrderOwner,    \* WorkOrder -> the account it is assigned to
  Price,             \* Part -> unit price in cents
  Restricted,        \* Part -> BOOLEAN
  Quantities         \* quantities a request may ask for (the schema: positive)

ASSUME CatalogAssumption ==
  /\ WorkOrderOwner \in [WorkOrder -> Account]
  /\ Price \in [Part -> Nat]
  /\ Restricted \in [Part -> BOOLEAN]
  /\ Quantities \subseteq Nat \ {0}

\* Only a technician with a server-held limit may order, known parts only, and
\* for a work order of their own.
MayOrder(a, p, wo) ==
  /\ RoleOf[a] = "technician"
  /\ Limit[a] # None
  /\ p \in Part
  /\ wo \in WorkOrder
  /\ WorkOrderOwner[wo] = a

\* Mutant: the limit is compared with the price of one piece.
ServerVerdictUnitPrice(a, p, quantity) ==
  ComputeAuthorization(Limit[a], Restricted[p], Price[p])

\* The verdict of the server on an order, from its own price and limit.
ServerVerdict(a, p, quantity) ==
  ComputeAuthorization(Limit[a], Restricted[p], Price[p] * quantity)

NewOrder(a, p, quantity) ==
  [account |-> a, part |-> p, quantity |-> quantity,
   line_total |-> Price[p] * quantity, restricted |-> Restricted[p],
   state |-> RouteState(ServerVerdict(a, p, quantity)),
   approved_by |-> None, collected_at |-> None]

\* Mutant: every order gets its code at once.
CreateOrderIssuing(w, a, p, wo, quantity) ==
  /\ MayOrder(a, p, wo)
  /\ StageOrder(w, NewOrder(a, p, quantity), Fresh, now)

CreateOrder(w, a, p, wo, quantity) ==
  /\ MayOrder(a, p, wo)
  /\ LET draft == NewOrder(a, p, quantity)
     IN  StageOrder(w, draft,
           IF draft.state = "auto_approved" THEN Fresh ELSE None, now)

CreateForbidden(w, a, p, wo) ==
  /\ ~MayOrder(a, p, wo)
  /\ Forbid(w)

\* A request may name a part or a work order that does not exist.
CreateRequest(w, a) ==
  \E p \in Part \cup {None}, wo \in WorkOrder \cup {None} :
    \/ \E quantity \in Quantities : CreateOrder(w, a, p, wo, quantity)
    \/ CreateForbidden(w, a, p, wo)

\* A pickup presents a code the server drew, so its clock is its read's.
SecureRequest(w, a) == WorkflowRequest(w, a, now) \/ CreateRequest(w, a)

Init == WorkflowInit

Next ==
  \/ WorkflowStep
  \/ AtBound
  \/ \E w \in Worker, a \in Account : SecureRequest(w, a)

Spec == Init /\ [][Next]_vars

\* What a thread does by itself while nothing goes wrong.
Proceed(w) ==
  ReadOrder(w) \/ ReadUncollectable(w) \/ ReadPart(w) \/ Flush(w) \/ Commit(w)

\* Threads run, and a lock that stays free is taken.  Nothing says that SQLite's
\* busy timeout, or any other exception, comes to anybody's help.
Fairness == \A w \in Worker : WF_vars(Proceed(w))

FairSpec == Spec /\ Fairness
-----------------------------------------------------------------------------
(***************************************************************************)
(* What holds however the threads interleave, fail or are killed.          *)
(***************************************************************************)

\* A code is bound to its order and to the account that placed it
\* (issue_pickup_code), and exists exactly from the moment the order was
\* released: never for an order that waits for a supervisor, always for one that
\* may be collected.
CodeFollowsRelease ==
  /\ \A c \in DOMAIN codes :
       /\ codes[c].order_id \in DOMAIN orders
       /\ codes[c].owner = orders[codes[c].order_id].account
       /\ orders[codes[c].order_id].state # "pending_supervisor"
  /\ \A o \in DOMAIN orders :
       orders[o].state \in COLLECTABLE_STATES => HasCode(o)

\* What an account may have without a supervisor: unrestricted parts worth no
\* more than its limit.
WithinOwnAuthority(a, p, quantity) ==
  ~Restricted[p] /\ Price[p] * quantity <= Limit[a]

\* No parts leave the desk without authority: the order was within the limit of
\* the technician and unrestricted, or a supervisor decided on it.
ReleaseAuthorised ==
  \A o \in DOMAIN orders :
    orders[o].collected_at # None =>
      \/ WithinOwnAuthority(orders[o].account, orders[o].part, orders[o].quantity)
      \/ orders[o].approved_by # None /\ RoleOf[orders[o].approved_by] = "supervisor"

\* A code that was used was used within its lifetime, however long the handler
\* took to commit: the order's collected_at lies between issue and expiry.
CollectedInTime ==
  \A c \in DOMAIN codes :
    codes[c].used =>
      /\ codes[c].created_at <= orders[codes[c].order_id].collected_at
      /\ orders[codes[c].order_id].collected_at <= codes[c].expires_at
=============================================================================
