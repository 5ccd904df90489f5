------------------------------ MODULE Workflow ------------------------------
(***************************************************************************)
(* The tables of the parts desk and the handlers every variant of the      *)
(* application registers over them: approve, reject and pickup             *)
(* (register_workflow in apps/common.py), and the part of order creation   *)
(* the variants share, the unit of work they commit.                       *)
(*                                                                         *)
(* A handler runs in a thread of its own with its own database session.    *)
(* Outside a write, each SELECT reads the last committed rows and is a     *)
(* step of its own: SQLite opens a transaction only when the session       *)
(* flushes its first INSERT or UPDATE.  From that flush to the commit the  *)
(* thread is the only writer.  A unit of work writes the columns it        *)
(* assigned, by primary key, with the values it computed from its earlier  *)
(* reads.                                                                  *)
(***************************************************************************)
EXTENDS Domain, FiniteSets, FiniteSetsExt

CONSTANTS
  Worker,               \* threads that run handlers
  OrderId, CodeId,      \* keys of order and pickup-code rows; random ids never repeat
  CodeValue,            \* strings a request may present; a CSPRNG code is its row's key
  Account, Part,        \* rows of the seeded reference tables
  RoleOf,               \* Account -> Role
  Limit,                \* Account -> approval limit in cents, None for no limit
  SeedStock,            \* Part -> stock on the shelf at seeding
  PickupTTL,            \* settings.pickup_ttl_seconds, in ticks of the clock
  EnforcePickupOwner,   \* register_workflow's enforce_pickup_owner
  MaxNow, MaxRequests   \* bounds: the clock's last tick, the requests served

\* What a created order brings along: no code (None), a value the client posted,
\* or a code the server draws.
Fresh == "fresh"

ASSUME AccountsAssumption ==
  /\ RoleOf \in [Account -> Role]
  /\ Limit \in [Account -> Nat \cup {None}]
  /\ None \notin Account \cup Nat \cup Worker

ASSUME TablesAssumption ==
  /\ CodeId \subseteq CodeValue
  /\ None \notin CodeValue \cup {Fresh}
  /\ Fresh \notin CodeValue
  /\ SeedStock \in [Part -> Nat]
  /\ PickupTTL \in Nat
  /\ EnforcePickupOwner \in BOOLEAN
  /\ MaxNow \in Nat
  /\ MaxRequests \in Nat

\* Reason codes of the audit events these handlers emit.
Reason == {"order_created", "order_approved", "order_rejected",
           "order_collected", "pickup_refused"}

(* Columns of the orders table the handlers read or write after creation.   *)
Order ==
  [account : Account, part : Part, quantity : Nat \ {0},
   line_total : Int, restricted : BOOLEAN, state : OrderState,
   approved_by : Account \cup {None}, collected_at : Nat \cup {None}]

(* The pickup_codes table.                                                  *)
PickupCode ==
  [code : CodeValue, order_id : OrderId, owner : Account, used : BOOLEAN,
   created_at : Int, expires_at : Int]

(* Units of work: what a session has pending when it flushes, tagged by the *)
(* audit event it carries.                                                  *)
Create  == [reason : {"order_created"}, draft : Order,
            code : CodeValue \cup {None, Fresh}, at : Int]
Approve == [reason : {"order_approved"}, order : OrderId, actor : Account,
            at : Nat, issue : BOOLEAN]
Reject  == [reason : {"order_rejected"}, order : OrderId, actor : Account]
Collect == [reason : {"order_collected"}, order : OrderId, row : CodeId,
            at : Nat, stock : Int]
Refuse  == [reason : {"pickup_refused"}]

Work == Create \cup Approve \cup Reject \cup Collect \cup Refuse

(* Where a thread is: idle; a pickup between its reads ("order": the code   *)
(* is read, "part": the order is read too); or with a unit of work that     *)
(* waits for the write lock ("flush") or holds it ("commit").               *)
Task ==
  [pc : {"idle"}]
    \cup [pc : {"order", "part"}, actor : Account, at : Nat, row : CodeId]
    \cup [pc : {"flush", "commit"}, work : Work]

VARIABLES
  orders,   \* the orders table: from the ids inserted so far to Order
  codes,    \* the pickup_codes table: from the ids inserted so far to PickupCode
  stock,    \* parts.stock
  audit,    \* rows of audit_events, counted by reason code
  log,      \* lines of the keyjack.audit logger, counted by reason code
  writer,   \* the thread that holds SQLite's write lock, or None
  task,     \* what each thread is doing
  now,      \* utcnow(), in ticks
  served,   \* requests received so far
  handed    \* history: units of work committed that handed an order's parts out

tables == <<orders, codes, stock, audit>>
vars == <<orders, codes, stock, audit, log, writer, task, now, served, handed>>

TypeOK ==
  /\ DOMAIN orders \subseteq OrderId
  /\ orders \in [DOMAIN orders -> Order]
  /\ DOMAIN codes \subseteq CodeId
  /\ codes \in [DOMAIN codes -> PickupCode]
  /\ stock \in [Part -> Int]
  /\ audit \in [Reason -> Nat]
  /\ log \in [Reason -> Nat]
  /\ writer \in Worker \cup {None}
  /\ task \in [Worker -> Task]
  /\ now \in Nat
  /\ served \in Nat
  /\ handed \in [OrderId -> Nat]
-----------------------------------------------------------------------------
Idle == [pc |-> "idle"]

Insert(table, key, row) ==
  [k \in DOMAIN table \cup {key} |-> IF k = key THEN row ELSE table[k]]

\* issue_pickup_code, and the client-minted row: a code bound to an order and
\* to the account that placed it.
NewCode(value, order, owner, at) ==
  [code |-> value, order_id |-> order, owner |-> owner, used |-> FALSE,
   created_at |-> at, expires_at |-> at + PickupTTL]

\* The server's own codes are random, so a row's key stands for its value.
CodeOfRow(c, code) == IF code = Fresh THEN c ELSE code

OrdersInFlight ==
  {w \in Worker : task[w].pc \in {"flush", "commit"}
                  /\ task[w].work.reason = "order_created"}

HasCode(o) == \E c \in DOMAIN codes : codes[c].order_id = o

\* The rows a pickup's SELECT on the presented value can return; first() takes
\* one, in no stated order.
Matches(value) == {c \in DOMAIN codes : codes[c].code = value}

\* Mutant: the expiry is not looked at.
CodeAcceptedExpired(c, actor, at) ==
  ~codes[c].used /\ (EnforcePickupOwner => codes[c].owner = actor)

\* The checks pickup makes on the code row it read, with the time it took before.
CodeAccepted(c, actor, at) ==
  /\ ~codes[c].used
  /\ ~(codes[c].expires_at < at)
  /\ EnforcePickupOwner => codes[c].owner = actor

Start(w, t) ==
  /\ task[w].pc = "idle"
  /\ served < MaxRequests
  /\ served' = served + 1
  /\ task' = [task EXCEPT ![w] = t]

\* The log line of emit_audit goes out when the event is added to the session,
\* its row when the unit of work commits.
EmitLine(reason) == log' = [log EXCEPT ![reason] = @ + 1]

\* Mutant: the event is logged and its row forgotten.
PersistEventForgotten(reason) == audit' = audit

\* Mutant: the row is written over a session of its own, which waits for the
\* write lock that the handler itself holds.
PersistEventOwnSession(reason) ==
  /\ writer = None
  /\ audit' = [audit EXCEPT ![reason] = @ + 1]

PersistEvent(reason) == audit' = [audit EXCEPT ![reason] = @ + 1]
-----------------------------------------------------------------------------
(* A handler that raises before its session has anything pending: 403,      *)
(* no audit event, nothing written.                                         *)
Forbid(w) ==
  /\ Start(w, Idle)
  /\ UNCHANGED <<tables, log, writer, now, handed>>

(* The end of every create_order: the order, the code that goes with it and *)
(* the audit event are pending, and the log line is out.                    *)
StageOrder(w, draft, code, at) ==
  /\ Cardinality(DOMAIN orders) + Cardinality(OrdersInFlight)
       < Cardinality(OrderId)
  /\ Start(w, [pc |-> "flush",
               work |-> [reason |-> "order_created", draft |-> draft,
                         code |-> code, at |-> at]])
  /\ EmitLine("order_created")
  /\ UNCHANGED <<tables, writer, now, handed>>

\* Mutants: the role is not checked; any order still on the desk may be decided.
MayDecideAnyRole(a, o) ==
  o \in DOMAIN orders /\ orders[o].state = "pending_supervisor"

MayDecideAnyOpen(a, o) ==
  /\ RoleOf[a] = "supervisor"
  /\ o \in DOMAIN orders
  /\ orders[o].state # "collected"

\* What approve and reject check of the actor and of the order they read.
MayDecide(a, o) ==
  /\ RoleOf[a] = "supervisor"
  /\ o \in DOMAIN orders
  /\ orders[o].state = "pending_supervisor"

(* approve_order up to the assignments; the next statement, the lazy load   *)
(* of order.pickup_code, is what flushes them.                              *)
ApproveOrder(w, a, o) ==
  /\ MayDecide(a, o)
  /\ Start(w, [pc |-> "flush",
               work |-> [reason |-> "order_approved", order |-> o, actor |-> a,
                         at |-> now, issue |-> FALSE]])
  /\ UNCHANGED <<tables, log, writer, now, handed>>

(* reject_order up to its commit.                                           *)
RejectOrder(w, a, o) ==
  /\ MayDecide(a, o)
  /\ Start(w, [pc |-> "flush",
               work |-> [reason |-> "order_rejected", order |-> o, actor |-> a]])
  /\ EmitLine("order_rejected")
  /\ UNCHANGED <<tables, writer, now, handed>>

DecisionForbidden(w, a, o) ==
  /\ ~MayDecide(a, o)
  /\ Forbid(w)

RefusedPickup == [pc |-> "flush", work |-> [reason |-> "pickup_refused"]]

(* pickup's first read: the code row, with at the time the handler took     *)
(* just before it and will use.  Where a code is only known once its row is *)
(* committed, the row a late read returns is already there at that time,    *)
(* and a used one stays used: one step then does both, with at = now.       *)
PresentCode(w, a, value, at) ==
  /\ \E c \in Matches(value) :
       /\ CodeAccepted(c, a, at)
       /\ Start(w, [pc |-> "order", actor |-> a, at |-> at, row |-> c])
  /\ UNCHANGED <<tables, log, writer, now, handed>>

PresentBadCode(w, a, value, at) ==
  /\ \/ Matches(value) = {}
     \/ \E c \in Matches(value) : ~CodeAccepted(c, a, at)
  /\ Start(w, RefusedPickup)
  /\ EmitLine("pickup_refused")
  /\ UNCHANGED <<tables, writer, now, handed>>

(* Its second read: the order the code belongs to.                          *)
ReadOrder(w) ==
  /\ task[w].pc = "order"
  /\ orders[codes[task[w].row].order_id].state \in COLLECTABLE_STATES
  /\ task' = [task EXCEPT ![w].pc = "part"]
  /\ UNCHANGED <<tables, log, writer, now, served, handed>>

ReadUncollectable(w) ==
  /\ task[w].pc = "order"
  /\ orders[codes[task[w].row].order_id].state \notin COLLECTABLE_STATES
  /\ task' = [task EXCEPT ![w] = RefusedPickup]
  /\ EmitLine("pickup_refused")
  /\ UNCHANGED <<tables, writer, now, served, handed>>

\* Mutant: one piece leaves the shelf, whatever the quantity.
ReadPartOnePiece(w) ==
  /\ task[w].pc = "part"
  /\ LET o == codes[task[w].row].order_id
     IN  task' = [task EXCEPT ![w] =
           [pc |-> "flush",
            work |-> [reason |-> "order_collected", order |-> o,
                      row |-> task[w].row, at |-> task[w].at,
                      stock |-> stock[orders[o].part] - 1]]]
  /\ EmitLine("order_collected")
  /\ UNCHANGED <<tables, writer, now, served, handed>>

(* Its third read: the part.  The stock it will write is what it reads here *)
(* less the order's quantity.                                               *)
ReadPart(w) ==
  /\ task[w].pc = "part"
  /\ LET o == codes[task[w].row].order_id
     IN  task' = [task EXCEPT ![w] =
           [pc |-> "flush",
            work |-> [reason |-> "order_collected", order |-> o,
                      row |-> task[w].row, at |-> task[w].at,
                      stock |-> stock[orders[o].part] - orders[o].quantity]]]
  /\ EmitLine("order_collected")
  /\ UNCHANGED <<tables, writer, now, served, handed>>
-----------------------------------------------------------------------------
\* Mutant: an approval always brings a code, without looking for one.
FlushAlwaysIssues(w) ==
  /\ task[w].pc = "flush"
  /\ writer = None
  /\ writer' = w
  /\ LET u == task[w].work
     IN  IF u.reason = "order_approved"
         THEN /\ \E t \in u.at .. now :
                   task' = [task EXCEPT ![w] = [pc |-> "commit",
                     work |-> [u EXCEPT !.at = t, !.issue = TRUE]]]
              /\ EmitLine("order_approved")
         ELSE /\ task' = [task EXCEPT ![w].pc = "commit"]
              /\ UNCHANGED log
  /\ UNCHANGED <<tables, now, served, handed>>

(* The first INSERT or UPDATE of a unit of work takes the write lock.  In   *)
(* approve it is the autoflush of a read: with the lock held the handler    *)
(* learns whether the order has a code, and only then emits its log line;   *)
(* it read its clock somewhere between the order and this write.            *)
Flush(w) ==
  /\ task[w].pc = "flush"
  /\ writer = None
  /\ writer' = w
  /\ LET u == task[w].work
     IN  IF u.reason = "order_approved"
         THEN /\ \E t \in u.at .. now :
                   task' = [task EXCEPT ![w] = [pc |-> "commit",
                     work |-> [u EXCEPT !.at = t, !.issue = ~HasCode(u.order)]]]
              /\ EmitLine("order_approved")
         ELSE /\ task' = [task EXCEPT ![w].pc = "commit"]
              /\ UNCHANGED log
  /\ UNCHANGED <<tables, now, served, handed>>

\* The commit of w's unit of work, for any reason: the audit row joins the
\* handler's own writes, the lock is released and the request is answered.
CommitWork(w, reason) ==
  /\ task[w].pc = "commit"
  /\ task[w].work.reason = reason
  /\ PersistEvent(reason)
  /\ writer' = None
  /\ task' = [task EXCEPT ![w] = Idle]
  /\ UNCHANGED <<log, now, served>>

CommitCreate(w) ==
  /\ CommitWork(w, "order_created")
  /\ LET u == task[w].work
     IN  \E o \in OrderId \ DOMAIN orders :
           /\ orders' = Insert(orders, o, u.draft)
           /\ \/ u.code = None /\ UNCHANGED codes
              \/ /\ u.code # None
                 /\ \E c \in CodeId \ DOMAIN codes :
                      codes' = Insert(codes, c,
                        NewCode(CodeOfRow(c, u.code), o, u.draft.account, u.at))
  /\ UNCHANGED <<stock, handed>>

CommitApprove(w) ==
  /\ CommitWork(w, "order_approved")
  /\ LET u == task[w].work
     IN  /\ orders' = [orders EXCEPT ![u.order].state = "approved",
                                     ![u.order].approved_by = u.actor]
         /\ \/ ~u.issue /\ UNCHANGED codes
            \/ /\ u.issue
               /\ \E c \in CodeId \ DOMAIN codes :
                    codes' = Insert(codes, c,
                      NewCode(c, u.order, orders[u.order].account, u.at))
  /\ UNCHANGED <<stock, handed>>

CommitReject(w) ==
  /\ CommitWork(w, "order_rejected")
  /\ LET u == task[w].work
     IN  orders' = [orders EXCEPT ![u.order].state = "rejected",
                                  ![u.order].approved_by = u.actor]
  /\ UNCHANGED <<codes, stock, handed>>

\* Mutants: the code stays usable; only the stock is written.
CommitCollectKeepsCode(w) ==
  /\ CommitWork(w, "order_collected")
  /\ LET u == task[w].work
     IN  /\ stock' = [stock EXCEPT ![orders[u.order].part] = u.stock]
         /\ orders' = [orders EXCEPT ![u.order].state = "collected",
                                     ![u.order].collected_at = u.at]
         /\ handed' = [handed EXCEPT ![u.order] = @ + 1]
  /\ UNCHANGED codes

CommitCollectStockOnly(w) ==
  /\ CommitWork(w, "order_collected")
  /\ LET u == task[w].work
     IN  /\ stock' = [stock EXCEPT ![orders[u.order].part] = u.stock]
         /\ handed' = [handed EXCEPT ![u.order] = @ + 1]
  /\ UNCHANGED <<orders, codes>>

CommitCollect(w) ==
  /\ CommitWork(w, "order_collected")
  /\ LET u == task[w].work
     IN  /\ stock' = [stock EXCEPT ![orders[u.order].part] = u.stock]
         /\ codes' = [codes EXCEPT ![u.row].used = TRUE]
         /\ orders' = [orders EXCEPT ![u.order].state = "collected",
                                     ![u.order].collected_at = u.at]
         /\ handed' = [handed EXCEPT ![u.order] = @ + 1]

CommitRefuse(w) ==
  /\ CommitWork(w, "pickup_refused")
  /\ UNCHANGED <<orders, codes, stock, handed>>

Commit(w) == \/ CommitCreate(w) \/ CommitApprove(w) \/ CommitReject(w)
             \/ CommitCollect(w) \/ CommitRefuse(w)
-----------------------------------------------------------------------------
\* Mutant: the session is not closed, and its lock not released.
RollbackKeepsLock(w) ==
  /\ task' = [task EXCEPT ![w] = Idle]
  /\ UNCHANGED <<tables, log, writer, now, served, handed>>

\* get_db closes the session of a handler that raised: nothing pending is
\* written and the lock, if w has it, is released.
Rollback(w) ==
  /\ task' = [task EXCEPT ![w] = Idle]
  /\ writer' = IF writer = w THEN None ELSE writer
  /\ UNCHANGED <<tables, log, now, served, handed>>

(* SQLite gives a waiting writer up after its busy timeout: "database is    *)
(* locked", answered with 500.                                              *)
BusyTimeout(w) ==
  /\ task[w].pc = "flush"
  /\ writer # None
  /\ Rollback(w)

(* Any other exception of a statement or of the commit: a full disk, an     *)
(* integer SQLite cannot hold.                                              *)
Fail(w) ==
  /\ task[w].pc # "idle"
  /\ Rollback(w)

(* The process dies and is started again over the same database             *)
(* (KEYJACK_RESEED=0): committed rows stay, the journal undoes the rest.    *)
Crash ==
  /\ \E w \in Worker : task[w].pc # "idle"
  /\ task' = [w \in Worker |-> Idle]
  /\ writer' = None
  /\ UNCHANGED <<tables, log, now, served, handed>>

Tick ==
  /\ now < MaxNow
  /\ now' = now + 1
  /\ UNCHANGED <<tables, log, writer, task, served, handed>>

\* The bounds are used up and no request is under way.
AtBound ==
  /\ served = MaxRequests
  /\ now = MaxNow
  /\ \A w \in Worker : task[w].pc = "idle"
  /\ UNCHANGED vars
-----------------------------------------------------------------------------
WorkflowInit ==
  /\ orders = <<>>
  /\ codes = <<>>
  /\ stock = SeedStock
  /\ audit = [r \in Reason |-> 0]
  /\ log = [r \in Reason |-> 0]
  /\ writer = None
  /\ task = [w \in Worker |-> Idle]
  /\ now = 0
  /\ served = 0
  /\ handed = [o \in OrderId |-> 0]

\* A request of actor a to one of the handlers of register_workflow; at is the
\* clock a pickup takes.
WorkflowRequest(w, a, at) ==
  \/ \E o \in OrderId : \/ ApproveOrder(w, a, o)
                        \/ RejectOrder(w, a, o)
                        \/ DecisionForbidden(w, a, o)
  \/ \E v \in CodeValue : \/ PresentCode(w, a, v, at)
                          \/ PresentBadCode(w, a, v, at)

\* What a thread does by itself once it has a request: it never waits for ever.
Advance(w) == \/ ReadOrder(w) \/ ReadUncollectable(w) \/ ReadPart(w)
              \/ Flush(w) \/ Commit(w) \/ BusyTimeout(w)

\* Every step that is not the arrival of a request.
WorkflowStep ==
  \/ \E w \in Worker : Advance(w) \/ Fail(w)
  \/ Crash
  \/ Tick
=============================================================================
