---------------------------- MODULE SerialProofs ----------------------------
(***************************************************************************)
(* Proofs about the secure application when requests are served one at a   *)
(* time, failures and crashes included, for any orders, codes, accounts,   *)
(* parts, prices and numbers of requests: it implements PartsDesk.         *)
(***************************************************************************)
EXTENDS SecureRefinement, SecureAppProofs

-----------------------------------------------------------------------------
(* What create_order stages. *)

LEMMA NewOrderRouted ==
  ASSUME NEW a \in Account, NEW p \in Part \cup {None}, NEW wo, NEW quantity \in Quantities,
         MayOrder(a, p, wo)
  PROVE  LET draft == NewOrder(a, p, quantity)
         IN  /\ ItemOf(draft) \in Items
             /\ draft.state = IF ItemOf(draft) \in AutoItems THEN "auto_approved"
                              ELSE "pending_supervisor"
<1> DEFINE draft == NewOrder(a, p, quantity)
<1>1. ItemOf(draft) = [account |-> a, part |-> p, quantity |-> quantity]
  BY DEF NewOrder, ItemOf
<1>2. ItemOf(draft) \in Items
  BY <1>1 DEF MayOrder, Items
<1>3. /\ Limit[a] \in Nat /\ Price[p] * quantity \in Int
      /\ Restricted[p] \in BOOLEAN
  BY AccountsAssumption, CatalogAssumption DEF MayOrder
<1>4. draft.state = IF WithinOwnAuthority(a, p, quantity) THEN "auto_approved"
                    ELSE "pending_supervisor"
  BY <1>3 DEF NewOrder, ServerVerdict, RouteState, ComputeAuthorization,
              WithinOwnAuthority
<1>5. ItemOf(draft) \in AutoItems <=> WithinOwnAuthority(a, p, quantity)
  BY <1>1, <1>2 DEF AutoItems
<1> QED
  BY <1>2, <1>4, <1>5

LEMMA NextRouted ==
  ASSUME TypeOK, Routed, [Next]_vars
  PROVE  Routed'
<1> SUFFICES ASSUME NEW v \in Worker, Staged(task'[v])
             PROVE  LET draft == task'[v].work.draft
                    IN  /\ ItemOf(draft) \in Items
                        /\ draft.state = IF ItemOf(draft) \in AutoItems THEN "auto_approved"
                                         ELSE "pending_supervisor"
  BY DEF Routed, Staged
<1>1. CASE Staged(task[v]) /\ task'[v].work = task[v].work
  BY <1>1 DEF Routed
<1>2. ASSUME NEW w \in Worker, NEW a \in Account, NEW p \in Part \cup {None}, NEW wo,
             NEW quantity \in Quantities, CreateOrder(w, a, p, wo, quantity),
             ~(Staged(task[v]) /\ task'[v].work = task[v].work)
      PROVE  task'[v].work.draft = NewOrder(a, p, quantity) /\ MayOrder(a, p, wo)
  BY <1>2 DEF CreateOrder, StageOrder, Start, TypeOK
<1>3. ASSUME NEW w \in Worker, NEW a \in Account, SecureRequest(w, a),
             ~(Staged(task[v]) /\ task'[v].work = task[v].work)
      PROVE  \E p \in Part \cup {None}, wo \in WorkOrder \cup {None}, quantity \in Quantities :
               CreateOrder(w, a, p, wo, quantity)
  BY <1>3, RequestKeepsDrafts DEF SecureRequest, CreateRequest, CreateForbidden
<1> QED
  BY <1>1, <1>2, <1>3, NewOrderRouted, StepKeepsDrafts DEF Next

LEMMA SpecRouted == Spec => []Routed
<1>1. Init => Routed
  BY DEF Init, WorkflowInit, Idle, Routed, Staged
<1>2. Consistent /\ Routed /\ [Next]_vars => Routed'
  BY NextRouted DEF Consistent
<1> QED
  BY <1>1, <1>2, SpecConsistent, PTL DEF Spec

-----------------------------------------------------------------------------
(* What the thread remembers is current. *)

LEMMA NextSerial ==
  ASSUME Consistent, Serial, SingleThread, [Next]_vars
  PROVE  Serial' /\ (Turn \/ UNCHANGED <<orders, stock>>)
<1>0. TypeOK /\ Known
  BY ConsistentKnown DEF Consistent
<1>1. ASSUME NEW w \in Worker, NEW a \in Account, NEW p \in Part \cup {None}, NEW wo,
             NEW quantity \in Quantities, CreateOrder(w, a, p, wo, quantity)
      PROVE  Serial' /\ UNCHANGED <<orders, stock>>
  <2>1. NewOrder(a, p, quantity).state # "collected"
    BY <1>1, NewOrderRouted DEF CreateOrder
  <2> QED
    BY <1>0, <1>1, <2>1, StageSerial DEF CreateOrder
<1>2. ASSUME NEW w \in Worker, NEW a \in Account, SecureRequest(w, a)
      PROVE  Serial' /\ UNCHANGED <<orders, stock>>
  BY <1>0, <1>1, <1>2, RequestSerial, ForbidSerial
     DEF SecureRequest, CreateRequest, CreateForbidden
<1> QED
  BY <1>0, <1>2, StepSerial DEF Next

\* Served one at a time, requests always act on what they have read: the
\* invariant that two threads break.
THEOREM SerialSpec ==
  ASSUME SingleThread
  PROVE  Spec => [](Consistent /\ Serial)
<1>1. Init => Consistent /\ Serial
  BY InitConsistent, InitSerial DEF Init
<1>2. (Consistent /\ Serial) /\ [Next]_vars => (Consistent /\ Serial)'
  BY NextConsistent, NextSerial
<1> QED
  BY <1>1, <1>2, PTL DEF Spec

\* With one thread an order's parts are handed out at most once, whatever fails
\* and whenever the process is killed.
THEOREM SerialSingleUse ==
  ASSUME SingleThread
  PROVE  Spec => []SingleUse
<1>1. Serial => SingleUse
  BY SerialHanded
<1> QED
  BY <1>1, SerialSpec, PTL

\* With one thread no order ever leaves its life cycle: nothing is decided twice,
\* collected after a rejection, or collected twice.
THEOREM SerialOrderLifecycle ==
  ASSUME SingleThread
  PROVE  Spec => OrderLifecycle
<1>1. Consistent /\ Serial /\ [Next]_vars => [Lives]_vars
  BY NextSerial, TurnLives, SameLives
<1> QED
  BY <1>1, SerialSpec, PTL DEF Spec, OrderLifecycle, Lives

\* With one thread the shelf always lacks exactly what was handed out: each
\* collection decrements the stock once, whatever fails or is killed.
THEOREM SerialStockExact ==
  ASSUME SingleThread
  PROVE  Spec => []StockExact
<1>1. Init => StockExact
  BY InitExact DEF Init
<1>2. Consistent /\ Serial /\ StockOK /\ StockExact /\ [Next]_vars => StockExact'
  <2>1. ASSUME Consistent, Serial, StockOK, StockExact, [Next]_vars
        PROVE  StockExact'
    <3>1. ASSUME NEW w \in Worker, NEW a \in Account, SecureRequest(w, a)
          PROVE  UNCHANGED <<orders, stock, handed>>
      BY <3>1 DEF SecureRequest, WorkflowRequest, ApproveOrder, RejectOrder,
                  DecisionForbidden, Forbid, PresentCode, PresentBadCode, CreateRequest,
                  CreateOrder, StageOrder, CreateForbidden, tables
    <3> QED
      BY <2>1, <3>1, ConsistentKnown, SameExact, StepExact DEF Next
  <2> QED
    BY <2>1
<1> QED
  BY <1>1, <1>2, SerialSpec, SpecStockOK, PTL DEF Spec

-----------------------------------------------------------------------------
(* The tables as the desk sees them. *)

LEMMA WrittenItem ==
  ASSUME TypeOK, NEW o, Writes(o)
  PROVE  ItemIn(orders') = [ItemIn(orders) EXCEPT ![o] = ItemOf(orders'[o])]
<1> DEFINE i == ItemOf(orders'[o])
<1>1. o \in OrderId /\ o \in DOMAIN orders' /\ DOMAIN orders \subseteq OrderId
  BY DEF Writes, TypeOK
<1>2. \A x \in OrderId \ {o} :
        /\ x \in DOMAIN orders' <=> x \in DOMAIN orders
        /\ x \in DOMAIN orders => orders'[x] = orders[x]
  BY DEF Writes
<1>3. ItemIn(orders') = [ItemIn(orders) EXCEPT ![o] = i]
  BY <1>1, <1>2 DEF ItemIn
<1> QED
  BY <1>3

\* The order it writes was already there, for the same item.
LEMMA SameItems ==
  ASSUME NEW o, Writes(o), KeepsFacts(o)
  PROVE  ItemIn(orders') = ItemIn(orders)
<1>1. o \in DOMAIN orders /\ ItemOf(orders'[o]) = ItemOf(orders[o])
  BY DEF KeepsFacts, ItemOf
<1> QED
  BY <1>1 DEF Writes, ItemIn

\* Each step of an order's life is one step of the desk.
LEMMA PlaceDesk ==
  ASSUME TypeOK, Routed, NEW w \in Worker, NEW o \in OrderId, Places(w, o)
  PROVE  Desk!DeskNext
<1>1. PICK i \in Items :
        /\ ItemOf(orders'[o]) = i
        /\ orders'[o].state = IF i \in AutoItems THEN "auto_approved" ELSE "pending_supervisor"
  BY DEF Places, Routed
<1>2. Writes(o) /\ UNCHANGED stock
  BY DEF Places
<1>3. /\ StatusIn(orders)[o] = "absent"
      /\ StatusIn(orders') = [StatusIn(orders) EXCEPT
                               ![o] = IF i \in AutoItems THEN "ready" ELSE "waiting"]
  BY <1>1, PlacedStatus
<1>4. ItemIn(orders') = [ItemIn(orders) EXCEPT ![o] = i]
  BY <1>1, <1>2, WrittenItem
<1>5. Desk!Place(o, i)
  BY <1>2, <1>3, <1>4 DEF Desk!Place, Desk!Move
<1>6. \E j \in Items : Desk!Place(o, j)
  BY <1>5
<1> QED
  BY <1>6 DEF Desk!DeskNext

LEMMA DecideDesk ==
  ASSUME TypeOK, NEW o \in OrderId, Decides(o)
  PROVE  Desk!DeskNext
<1>1. ItemIn(orders') = ItemIn(orders) /\ UNCHANGED stock
  BY SameItems DEF Decides
<1>2. Desk!Approve(o) \/ Desk!Reject(o)
  BY <1>1, DecidedStatus DEF Desk!Approve, Desk!Reject, Desk!Move
<1> QED
  BY <1>2 DEF Desk!DeskNext

LEMMA HandOutDesk ==
  ASSUME TypeOK, NEW o \in OrderId, HandsOut(o)
  PROVE  Desk!DeskNext
<1>1. /\ ItemIn(orders') = ItemIn(orders) /\ ItemIn(orders)[o] = ItemOf(orders[o])
      /\ stock' = [stock EXCEPT ![orders[o].part] = @ - orders[o].quantity]
  BY SameItems DEF HandsOut, KeepsFacts, ItemIn
<1>2. ItemOf(orders[o]).part = orders[o].part /\ ItemOf(orders[o]).quantity = orders[o].quantity
  BY Zenon DEF ItemOf
<1>3. stock' = [stock EXCEPT ![ItemIn(orders)[o].part] = @ - ItemIn(orders)[o].quantity]
  BY <1>1, <1>2
<1>4. Desk!HandOut(o)
  BY <1>1, <1>3, HandedOutStatus DEF Desk!HandOut, Desk!Move
<1> QED
  BY <1>4 DEF Desk!DeskNext

\* With one thread every step of the application is a step of the abstract parts
\* desk, or invisible to it.
THEOREM SerialImplementsDesk ==
  ASSUME SingleThread
  PROVE  Spec => ImplementsDesk
<1>1. Init => Desk!Open
  <2> SUFFICES ASSUME Init PROVE Desk!Open
    OBVIOUS
  <2>1. DOMAIN orders = {} /\ stock = SeedStock
    BY DEF Init, WorkflowInit
  <2> QED
    BY <2>1 DEF Desk!Open, StatusIn, ItemIn
<1>2. Consistent /\ Serial /\ Routed /\ [Next]_vars => [Desk!DeskNext]_(Desk!desk)
  <2>1. ASSUME Consistent, Serial, Routed, [Next]_vars
        PROVE  Desk!DeskNext \/ UNCHANGED <<orders, stock>>
    BY <2>1, NextSerial, PlaceDesk, DecideDesk, HandOutDesk DEF Turn, Consistent
  <2>2. UNCHANGED <<orders, stock>> => UNCHANGED Desk!desk
    BY DEF Desk!desk
  <2> QED
    BY <2>1, <2>2
<1> QED
  BY <1>1, <1>2, SerialSpec, SpecRouted, PTL DEF Spec, ImplementsDesk, Desk!DeskSpec
=============================================================================
