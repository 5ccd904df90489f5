-------------------------- MODULE SecureAppProofs ---------------------------
(***************************************************************************)
(* Proofs about the secure application, for any number of threads, orders, *)
(* accounts and parts, any interleaving, failures and crashes.             *)
(***************************************************************************)
EXTENDS SecureInvariants, WorkflowProofs

USE DEF Reason

-----------------------------------------------------------------------------
LEMMA InitConsistent == Init => Consistent
<1> SUFFICES ASSUME Init PROVE Consistent
  OBVIOUS
<1> USE DEF Init, WorkflowInit
<1>0. DOMAIN orders = {} /\ DOMAIN codes = {}
  OBVIOUS
<1>1. TypeOK
  BY <1>0, IdleType, TablesAssumption DEF TypeOK
<1>2. \A w \in Worker : task[w].pc = "idle"
  BY DEF Idle
<1>3. LockOK
  BY <1>2, AccountsAssumption DEF LockOK
<1>4. TablesOK
  BY <1>0 DEF TablesOK, OneCodePerOrder, CodeFollowsRelease, UsedIffCollected,
              CollectedInTime
<1>5. \A w \in Worker : TaskOK(w)
  BY <1>2 DEF TaskOK, ReadOK, WorkOK, IssueOK
<1> QED
  BY <1>1, <1>3, <1>4, <1>5 DEF Consistent

-----------------------------------------------------------------------------
(* Steps that write no table of the database. *)

LEMMA QuietTables ==
  ASSUME Consistent, UNCHANGED <<orders, codes>>, now' \in Nat, now' >= now
  PROVE  TablesOK'
<1>1. \A c \in DOMAIN codes : codes[c].created_at \in Int /\ now \in Nat
  BY DEF Consistent, TypeOK, PickupCode
<1>2. OneCodePerOrder' /\ CodeFollowsRelease' /\ UsedIffCollected' /\ CollectedInTime'
  BY DEF Consistent, TablesOK, OneCodePerOrder, CodeFollowsRelease,
         UsedIffCollected, CollectedInTime, HasCode
<1>3. \A c \in DOMAIN codes : codes[c].created_at <= now' /\ Authorised(codes[c].order_id)'
  BY <1>1 DEF Consistent, TablesOK, Authorised
<1>4. \A o \in DOMAIN orders : orders[o].collected_at # None => HasCode(o)'
  BY DEF Consistent, TablesOK, HasCode
<1> QED
  BY <1>2, <1>3, <1>4 DEF TablesOK

LEMMA QuietTask ==
  ASSUME Consistent, UNCHANGED <<orders, codes>>, now' \in Nat, now' >= now,
         NEW w \in Worker, task'[w] = task[w]
  PROVE  TaskOK(w)'
<1> DEFINE t == task[w]
<1>0. t \in Task /\ now \in Nat
  BY DEF Consistent, TypeOK
<1>1. ReadOK(t)'
  BY DEF Consistent, TaskOK, ReadOK, InWindow
<1>2. ASSUME t.pc \in {"flush", "commit"}
      PROVE  CreateOK(t.work)' /\ DecisionOK(t.work)' /\ CollectOK(t.work)'
  <2>1. t.work \in Work
    BY <1>0, <1>2, WorkingType
  <2>2. CreateOK(t.work) /\ DecisionOK(t.work) /\ CollectOK(t.work)
    BY <1>2 DEF Consistent, TaskOK, WorkOK
  <2>3. CreateOK(t.work)'
    BY <1>0, <2>1, <2>2, WorkType DEF CreateOK, Create
  <2>4. DecisionOK(t.work)'
    BY <1>0, <2>1, <2>2, WorkType DEF DecisionOK, Approve
  <2>5. CollectOK(t.work)'
    BY <2>2 DEF CollectOK, InWindow
  <2> QED
    BY <2>3, <2>4, <2>5
<1>3. IssueOK(t)'
  BY DEF Consistent, TaskOK, IssueOK, HasCode
<1> QED
  BY <1>1, <1>2, <1>3 DEF TaskOK, WorkOK

\* A thread with nothing pending.
LEMMA IdleTask ==
  ASSUME NEW w \in Worker, task'[w] = Idle
  PROVE  TaskOK(w)'
BY DEF TaskOK, ReadOK, WorkOK, IssueOK, Idle

\* A step of thread w alone that writes no table: what is left to show is
\* about w.
LEMMA QuietStep ==
  ASSUME Consistent, TypeOK', UNCHANGED <<orders, codes, now>>,
         NEW w \in Worker,
         \A v \in Worker \ {w} : task'[v] = task[v] /\ (writer' = v <=> writer = v),
         TaskOK(w)', (task[w].pc = "commit" <=> writer = w)'
  PROVE  Consistent'
<1>1. now' \in Nat /\ now' >= now
  BY DEF Consistent, TypeOK
<1>2. TablesOK'
  BY <1>1, QuietTables
<1>3. \A v \in Worker : TaskOK(v)'
  BY <1>1, QuietTask
<1>4. LockOK'
  BY DEF Consistent, LockOK
<1> QED
  BY <1>2, <1>3, <1>4 DEF Consistent

\* The frame of a request's first step: thread w takes on task t.
LEMMA StartFrame ==
  ASSUME Consistent, NEW w \in Worker, NEW t \in Task, Start(w, t),
         UNCHANGED writer
  PROVE  /\ task' \in [Worker -> Task] /\ served' \in Nat
         /\ task'[w] = t
         /\ writer # w
         /\ \A v \in Worker \ {w} : task'[v] = task[v] /\ (writer' = v <=> writer = v)
BY DEF Start, Consistent, TypeOK, LockOK

LEMMA ForbidStep ==
  ASSUME Consistent, NEW w \in Worker, Forbid(w)
  PROVE  Consistent'
<1> USE DEF Forbid, tables
<1>1. TypeOK'
  BY IdleType, StartFrame DEF Consistent, TypeOK
<1>2. TaskOK(w)'
  BY IdleType, StartFrame, IdleTask
<1>3. (task[w].pc = "commit" <=> writer = w)'
  BY IdleType, StartFrame DEF Idle
<1> QED
  BY <1>1, <1>2, <1>3, IdleType, StartFrame, QuietStep

\* Thread w makes a unit of work pending, which then waits for the lock.
LEMMA PendingStep ==
  ASSUME Consistent, NEW w \in Worker, NEW u \in Work,
         task' = [task EXCEPT ![w] = [pc |-> "flush", work |-> u]],
         task[w].pc # "commit",
         log' \in [Reason -> Nat], served' \in Nat,
         UNCHANGED <<tables, writer, now, handed>>,
         (CreateOK(u) /\ DecisionOK(u) /\ CollectOK(u))'
  PROVE  Consistent'
<1> DEFINE t == [pc |-> "flush", work |-> u]
<1> USE DEF tables
<1>0. t \in Task /\ t.pc = "flush" /\ t.work = u
  BY StagedType
<1>1. task' = [task EXCEPT ![w] = t]
  OBVIOUS
<1> HIDE DEF t
<1>2. /\ task' \in [Worker -> Task]
      /\ task'[w] = t
      /\ \A v \in Worker \ {w} : task'[v] = task[v]
  BY <1>0, <1>1 DEF Consistent, TypeOK
<1>3. TypeOK'
  BY <1>2 DEF Consistent, TypeOK
<1>4. TaskOK(w)'
  BY <1>0, <1>2 DEF TaskOK, ReadOK, WorkOK, IssueOK
<1>5. (task[w].pc = "commit" <=> writer = w)'
  BY <1>0, <1>2 DEF Consistent, LockOK
<1> QED
  BY <1>2, <1>3, <1>4, <1>5, QuietStep

LEMMA StageStep ==
  ASSUME Consistent, NEW w \in Worker, NEW u \in Work,
         Start(w, [pc |-> "flush", work |-> u]),
         log' \in [Reason -> Nat],
         UNCHANGED <<tables, writer, now, handed>>,
         (CreateOK(u) /\ DecisionOK(u) /\ CollectOK(u))'
  PROVE  Consistent'
<1>1. /\ task' = [task EXCEPT ![w] = [pc |-> "flush", work |-> u]]
      /\ task[w].pc # "commit"
      /\ served' \in Nat
  BY DEF Start, Consistent, TypeOK
<1> QED
  BY <1>1, PendingStep

LEMMA CreateOrderStep ==
  ASSUME Consistent, NEW w \in Worker, NEW a \in Account, NEW p \in Part \cup {None},
         NEW wo, NEW quantity \in Quantities, CreateOrder(w, a, p, wo, quantity)
  PROVE  Consistent'
<1>0. PICK at \in Nat : at = now
  BY DEF Consistent, TypeOK
<1> DEFINE draft == NewOrder(a, p, quantity)
           code == IF draft.state = "auto_approved" THEN Fresh ELSE None
           u == [reason |-> "order_created", draft |-> draft, code |-> code, at |-> at]
<1>1. /\ p \in Part /\ Limit[a] \in Nat
      /\ Price[p] \in Nat /\ Restricted[p] \in BOOLEAN /\ quantity \in Nat \ {0}
  BY AccountsAssumption, CatalogAssumption DEF CreateOrder, MayOrder
<1>2. Price[p] * quantity \in Nat
  BY <1>1
<1>3. /\ draft.state \in {"auto_approved", "pending_supervisor"}
      /\ draft.state = "auto_approved" => WithinOwnAuthority(a, p, quantity)
  BY <1>1, <1>2 DEF NewOrder, ServerVerdict, ComputeAuthorization, RouteState,
                    WithinOwnAuthority
<1>4. draft \in Order
  BY <1>1, <1>2, <1>3 DEF Order, NewOrder, OrderState
<1>5. u \in Work
  BY <1>4 DEF Work, Create
<1>6. StageOrder(w, draft, code, now)
  BY DEF CreateOrder
<1>7. /\ Start(w, [pc |-> "flush", work |-> u])
      /\ log' \in [Reason -> Nat]
      /\ UNCHANGED <<tables, writer, now, handed>>
  BY <1>0, <1>6, EmitLineType DEF StageOrder, Consistent
<1>8. /\ draft.approved_by = None /\ draft.collected_at = None
      /\ draft.account = a /\ draft.part = p /\ draft.quantity = quantity
  BY DEF NewOrder
<1>9. (CreateOK(u) /\ DecisionOK(u) /\ CollectOK(u))'
  <2> HIDE DEF draft
  <2>1. u.reason = "order_created" /\ u.draft = draft /\ u.code = code /\ u.at = at
    OBVIOUS
  <2> HIDE DEF u
  <2>2. CreateOK(u)'
    BY <1>0, <1>3, <1>7, <1>8, <2>1 DEF CreateOK, WithinOwnAuthority
  <2> QED
    BY <2>1, <2>2 DEF DecisionOK, CollectOK
<1> HIDE DEF u
<1> QED
  BY <1>5, <1>7, <1>9, StageStep

LEMMA ApproveOrderStep ==
  ASSUME Consistent, NEW w \in Worker, NEW a \in Account, NEW o \in OrderId,
         ApproveOrder(w, a, o)
  PROVE  Consistent'
<1>0. PICK at \in Nat : at = now
  BY DEF Consistent, TypeOK
<1> DEFINE u == [reason |-> "order_approved", order |-> o, actor |-> a, at |-> at,
                 issue |-> FALSE]
<1>1. u \in Work
  BY DEF Work, Approve
<1>2. /\ Start(w, [pc |-> "flush", work |-> u])
      /\ log' \in [Reason -> Nat]
      /\ UNCHANGED <<tables, writer, now, handed>>
  BY <1>0 DEF ApproveOrder, Consistent, TypeOK
<1>3. o \in DOMAIN orders' /\ RoleOf[a] = "supervisor" /\ at <= now'
  BY <1>0, <1>2 DEF ApproveOrder, MayDecide, tables
<1>4. (CreateOK(u) /\ DecisionOK(u) /\ CollectOK(u))'
  BY <1>3 DEF CreateOK, DecisionOK, CollectOK
<1> HIDE DEF u
<1> QED
  BY <1>1, <1>2, <1>4, StageStep

LEMMA RejectOrderStep ==
  ASSUME Consistent, NEW w \in Worker, NEW a \in Account, NEW o \in OrderId,
         RejectOrder(w, a, o)
  PROVE  Consistent'
<1> DEFINE u == [reason |-> "order_rejected", order |-> o, actor |-> a]
<1>1. u \in Work
  BY DEF Work, Reject
<1>2. /\ Start(w, [pc |-> "flush", work |-> u])
      /\ log' \in [Reason -> Nat]
      /\ UNCHANGED <<tables, writer, now, handed>>
  BY EmitLineType DEF RejectOrder, Consistent
<1>3. o \in DOMAIN orders' /\ RoleOf[a] = "supervisor"
  BY <1>2 DEF RejectOrder, MayDecide, tables
<1>4. (CreateOK(u) /\ DecisionOK(u) /\ CollectOK(u))'
  BY <1>3 DEF CreateOK, DecisionOK, CollectOK
<1> HIDE DEF u
<1> QED
  BY <1>1, <1>2, <1>4, StageStep

LEMMA PresentBadCodeStep ==
  ASSUME Consistent, NEW w \in Worker, NEW a \in Account, NEW v \in CodeValue,
         PresentBadCode(w, a, v, now)
  PROVE  Consistent'
<1> DEFINE u == [reason |-> "pickup_refused"]
<1>1. u \in Work
  BY DEF Work, Refuse
<1>2. /\ Start(w, [pc |-> "flush", work |-> u])
      /\ log' \in [Reason -> Nat]
      /\ UNCHANGED <<tables, writer, now, handed>>
  BY EmitLineType DEF PresentBadCode, RefusedPickup, Consistent
<1>3. (CreateOK(u) /\ DecisionOK(u) /\ CollectOK(u))'
  BY DEF CreateOK, DecisionOK, CollectOK
<1> HIDE DEF u
<1> QED
  BY <1>1, <1>2, <1>3, StageStep

LEMMA PresentCodeStep ==
  ASSUME Consistent, NEW w \in Worker, NEW a \in Account, NEW v \in CodeValue,
         PresentCode(w, a, v, now)
  PROVE  Consistent'
<1>0. PICK c \in Matches(v) :
        /\ CodeAccepted(c, a, now)
        /\ Start(w, [pc |-> "order", actor |-> a, at |-> now, row |-> c])
  BY DEF PresentCode
<1>1. PICK at \in Nat : at = now
  BY DEF Consistent, TypeOK
<1> DEFINE t == [pc |-> "order", actor |-> a, at |-> at, row |-> c]
<1>2. c \in DOMAIN codes /\ c \in CodeId
  BY DEF Matches, Consistent, TypeOK
<1>3. t \in Task
  BY <1>2 DEF Task
<1>4. Start(w, t) /\ UNCHANGED <<tables, log, writer, now, handed>>
  BY <1>0, <1>1 DEF PresentCode
<1>5. t.pc = "order" /\ t.row = c /\ t.at = at
  OBVIOUS
<1> HIDE DEF t
<1>6. task'[w] = t
  BY <1>3, <1>4, StartFrame
<1>7. TypeOK'
  BY <1>3, <1>4, StartFrame DEF Consistent, TypeOK, tables
<1>8. InWindow(c, at)'
  <2>1. codes[c].created_at <= at
    BY <1>1, <1>2 DEF Consistent, TablesOK
  <2>2. codes[c] \in PickupCode
    BY <1>2 DEF Consistent, TypeOK
  <2>3. at <= codes[c].expires_at
    BY <1>0, <1>1, <2>2 DEF CodeAccepted, PickupCode
  <2> QED
    BY <1>4, <2>1, <2>3 DEF InWindow, tables
<1>9. TaskOK(w)'
  BY <1>2, <1>4, <1>5, <1>6, <1>8 DEF TaskOK, ReadOK, WorkOK, IssueOK, tables
<1>10. (task[w].pc = "commit" <=> writer = w)'
  BY <1>3, <1>4, <1>5, <1>6, StartFrame
<1> QED
  BY <1>3, <1>4, <1>7, <1>9, <1>10, StartFrame, QuietStep DEF tables

LEMMA ReadOrderStep ==
  ASSUME Consistent, NEW w \in Worker, ReadOrder(w)
  PROVE  Consistent'
<1> USE DEF tables
<1> DEFINE t == [task[w] EXCEPT !.pc = "part"]
<1>1. task[w] \in Task /\ task[w].pc = "order"
  BY DEF ReadOrder, Consistent, TypeOK
<1>2. /\ t \in Task /\ t.row = task[w].row /\ t.at = task[w].at
      /\ t.pc = "part"
  BY <1>1, ReadingType DEF Task
<1>3. task' = [task EXCEPT ![w] = t]
  BY DEF ReadOrder
<1>4. UNCHANGED <<tables, log, writer, now, served, handed>>
  BY DEF ReadOrder
<1>5. ReadOK(task[w])
  BY DEF Consistent, TaskOK
<1> HIDE DEF t
<1>6. /\ task' \in [Worker -> Task]
      /\ task'[w] = t
      /\ \A v \in Worker \ {w} : task'[v] = task[v]
  BY <1>2, <1>3 DEF Consistent, TypeOK
<1>7. TypeOK'
  BY <1>4, <1>6 DEF Consistent, TypeOK
<1>8. TaskOK(w)'
  BY <1>1, <1>2, <1>4, <1>5, <1>6 DEF TaskOK, ReadOK, WorkOK, IssueOK, InWindow
<1>9. (task[w].pc = "commit" <=> writer = w)'
  BY <1>1, <1>2, <1>4, <1>6 DEF Consistent, LockOK
<1> QED
  BY <1>4, <1>6, <1>7, <1>8, <1>9, QuietStep

LEMMA ReadUncollectableStep ==
  ASSUME Consistent, NEW w \in Worker, ReadUncollectable(w)
  PROVE  Consistent'
<1> DEFINE u == [reason |-> "pickup_refused"]
<1>1. u \in Work
  BY DEF Work, Refuse
<1>2. /\ task' = [task EXCEPT ![w] = [pc |-> "flush", work |-> u]]
      /\ task[w].pc # "commit"
      /\ log' \in [Reason -> Nat] /\ served' \in Nat
      /\ UNCHANGED <<tables, writer, now, handed>>
  BY EmitLineType DEF ReadUncollectable, RefusedPickup, Consistent, TypeOK
<1>3. (CreateOK(u) /\ DecisionOK(u) /\ CollectOK(u))'
  BY DEF CreateOK, DecisionOK, CollectOK
<1> HIDE DEF u
<1> QED
  BY <1>1, <1>2, <1>3, PendingStep

LEMMA ReadPartStep ==
  ASSUME Consistent, NEW w \in Worker, ReadPart(w)
  PROVE  Consistent'
<1>0. PICK c \in CodeId, at \in Nat :
        /\ c = task[w].row /\ at = task[w].at
        /\ c \in DOMAIN codes /\ InWindow(c, at)
  <2>1. task[w] \in Task /\ task[w].pc = "part"
    BY DEF ReadPart, Consistent, TypeOK
  <2>2. task[w].row \in CodeId /\ task[w].at \in Nat
    BY <2>1, ReadingType
  <2> QED
    BY <2>1, <2>2 DEF Consistent, TaskOK, ReadOK
<1>1. PICK o \in OrderId : o = codes[c].order_id /\ o \in DOMAIN orders
  BY <1>0 DEF Consistent, TablesOK, CodeFollowsRelease, TypeOK
<1>2. PICK n \in Int : n = stock[orders[o].part] - orders[o].quantity
  BY <1>1 DEF Consistent, TypeOK, Order
<1> DEFINE u == [reason |-> "order_collected", order |-> o, row |-> c, at |-> at,
                 stock |-> n]
<1>3. u \in Work
  BY <1>0, <1>1, <1>2 DEF Work, Collect
<1>4. /\ task' = [task EXCEPT ![w] = [pc |-> "flush", work |-> u]]
      /\ task[w].pc # "commit"
      /\ log' \in [Reason -> Nat] /\ served' \in Nat
      /\ UNCHANGED <<tables, writer, now, handed>>
  BY <1>0, <1>1, <1>2, EmitLineType DEF ReadPart, Consistent, TypeOK
<1>5. (CreateOK(u) /\ DecisionOK(u) /\ CollectOK(u))'
  BY <1>0, <1>1, <1>4 DEF CreateOK, DecisionOK, CollectOK, InWindow, tables
<1> HIDE DEF u
<1> QED
  BY <1>3, <1>4, <1>5, PendingStep

-----------------------------------------------------------------------------
(* Taking the lock, and giving it up. *)

LEMMA FlushStep ==
  ASSUME Consistent, NEW w \in Worker, Flush(w)
  PROVE  Consistent'
<1> USE DEF tables
<1> DEFINE u == task[w].work
<1>1. task[w] \in Task /\ task[w].pc = "flush"
  BY DEF Flush, Consistent, TypeOK
<1>2. u \in Work /\ task[w] = [pc |-> "flush", work |-> u]
  BY <1>1, WorkingType
<1>3. PICK v \in Work :
        /\ task' = [task EXCEPT ![w] = [pc |-> "commit", work |-> v]]
        /\ v.reason = u.reason
        /\ u.reason # "order_approved" => v = u
        /\ u.reason = "order_approved" =>
             \E t \in u.at .. now :
               v = [u EXCEPT !.at = t, !.issue = ~HasCode(u.order)]
  <2>1. CASE u.reason = "order_approved"
    <3>1. u \in Approve
      BY <1>2, <2>1, WorkType
    <3>2. PICK t \in u.at .. now :
            task' = [task EXCEPT ![w] = [pc |-> "commit",
              work |-> [u EXCEPT !.at = t, !.issue = ~HasCode(u.order)]]]
      BY <2>1 DEF Flush
    <3>3. u.at \in Nat /\ now \in Nat /\ t \in Nat
      BY <3>1 DEF Approve, Consistent, TypeOK
    <3> DEFINE v == [u EXCEPT !.at = t, !.issue = ~HasCode(u.order)]
    <3>4. v \in Approve /\ v.reason = u.reason
      BY <3>1, <3>3 DEF Approve, HasCode
    <3>5. task' = [task EXCEPT ![w] = [pc |-> "commit", work |-> v]]
      BY <3>2
    <3> HIDE DEF v
    <3> QED
      BY <2>1, <3>4, <3>5 DEF Work, v
  <2>2. CASE u.reason # "order_approved"
    BY <1>2, <2>2 DEF Flush
  <2> QED
    BY <2>1, <2>2
<1>4. /\ UNCHANGED <<tables, now, served, handed>>
      /\ writer = None /\ writer' = w
      /\ log' \in [Reason -> Nat]
  BY EmitLineType DEF Flush, Consistent, TypeOK
<1>5. CreateOK(u) /\ DecisionOK(u) /\ CollectOK(u)
  BY <1>1 DEF Consistent, TaskOK, WorkOK
<1>6. /\ task' \in [Worker -> Task]
      /\ task'[w] = [pc |-> "commit", work |-> v]
      /\ \A x \in Worker \ {w} : task'[x] = task[x]
  BY <1>3, StagedType DEF Consistent, TypeOK
<1>7. TypeOK'
  BY <1>4, <1>6 DEF Consistent, TypeOK
<1>8. CASE u.reason = "order_approved"
  <2>1. u \in Approve
    BY <1>2, <1>8, WorkType
  <2>2. PICK t \in u.at .. now : v = [u EXCEPT !.at = t, !.issue = ~HasCode(u.order)]
    BY <1>3, <1>8
  <2>7. u.at \in Nat /\ now \in Nat
    BY <2>1 DEF Approve, Consistent, TypeOK
  <2>8. /\ v.order = u.order /\ v.actor = u.actor /\ v.at <= now
        /\ v.issue = ~HasCode(u.order)
    BY <2>1, <2>2, <2>7 DEF Approve
  <2>3. (CreateOK(v) /\ DecisionOK(v) /\ CollectOK(v))'
    BY <1>3, <1>4, <1>5, <1>8, <2>8 DEF CreateOK, DecisionOK, CollectOK
  <2>4. HasCode(v.order)' <=> HasCode(v.order)
    BY <1>4 DEF HasCode
  <2>5. (v.issue <=> ~HasCode(v.order))'
    BY <2>8, <2>4
  <2> HIDE DEF u
  <2>6. TaskOK(w)'
    BY <1>6, <2>3, <2>5 DEF TaskOK, ReadOK, WorkOK, IssueOK
  <2> QED
    BY <1>4, <1>6, <1>7, <2>6, AccountsAssumption, QuietStep
<1>9. CASE u.reason # "order_approved"
  <2>1. v = u
    BY <1>3, <1>9
  <2>2. (CreateOK(v) /\ DecisionOK(v) /\ CollectOK(v))'
    BY <1>4, <1>5, <2>1 DEF CreateOK, DecisionOK, CollectOK, InWindow,
                             WithinOwnAuthority
  <2>3. TaskOK(w)'
    BY <1>6, <1>9, <2>1, <2>2 DEF TaskOK, ReadOK, WorkOK, IssueOK
  <2> QED
    BY <1>4, <1>6, <1>7, <2>3, AccountsAssumption, QuietStep
<1> QED
  BY <1>8, <1>9

LEMMA RollbackStep ==
  ASSUME Consistent, NEW w \in Worker, Rollback(w)
  PROVE  Consistent'
<1> USE DEF Rollback, tables
<1>1. /\ task' \in [Worker -> Task]
      /\ task'[w] = Idle
      /\ \A v \in Worker \ {w} : task'[v] = task[v]
  BY IdleType DEF Consistent, TypeOK
<1>2. TypeOK'
  BY <1>1 DEF Consistent, TypeOK
<1>3. TaskOK(w)'
  BY <1>1, IdleTask
<1>4. /\ (task[w].pc = "commit" <=> writer = w)'
      /\ \A v \in Worker \ {w} : writer' = v <=> writer = v
  BY <1>1, AccountsAssumption DEF Idle
<1> QED
  BY <1>1, <1>2, <1>3, <1>4, QuietStep

LEMMA CrashStep ==
  ASSUME Consistent, Crash
  PROVE  Consistent'
<1> USE DEF Crash, tables
<1>1. \A w \in Worker : task'[w] = Idle
  OBVIOUS
<1>2. TypeOK'
  BY IdleType DEF Consistent, TypeOK
<1>3. \A w \in Worker : TaskOK(w)'
  BY <1>1, IdleTask
<1>4. LockOK'
  BY <1>1, AccountsAssumption DEF LockOK, Idle
<1>5. TablesOK'
  BY QuietTables DEF Consistent, TypeOK
<1> QED
  BY <1>2, <1>3, <1>4, <1>5 DEF Consistent

LEMMA TickStep ==
  ASSUME Consistent, Tick
  PROVE  Consistent'
<1> USE DEF Tick, tables
<1>1. now' \in Nat /\ now' >= now
  BY DEF Consistent, TypeOK
<1>2. TypeOK'
  BY <1>1 DEF Consistent, TypeOK
<1>3. TablesOK' /\ \A w \in Worker : TaskOK(w)'
  BY <1>1, QuietTables, QuietTask
<1>4. LockOK'
  BY DEF Consistent, LockOK
<1> QED
  BY <1>2, <1>3, <1>4 DEF Consistent

LEMMA StutterStep ==
  ASSUME Consistent, UNCHANGED vars
  PROVE  Consistent'
<1> USE DEF vars, tables
<1>1. TypeOK' /\ LockOK'
  BY DEF Consistent, TypeOK, LockOK
<1>2. TablesOK' /\ \A w \in Worker : TaskOK(w)'
  BY QuietTables, QuietTask DEF Consistent, TypeOK
<1> QED
  BY <1>1, <1>2 DEF Consistent

-----------------------------------------------------------------------------
(* Commits. *)

\* What a commit of one thread leaves as other threads read it.
Grows ==
  /\ DOMAIN orders \subseteq DOMAIN orders'
  /\ \A c \in DOMAIN codes :
       /\ c \in DOMAIN codes'
       /\ codes'[c].order_id = codes[c].order_id
       /\ codes'[c].created_at = codes[c].created_at
       /\ codes'[c].expires_at = codes[c].expires_at

LEMMA CommitFrame ==
  ASSUME Consistent, NEW w \in Worker, NEW r \in Reason, CommitWork(w, r)
  PROVE  /\ task' \in [Worker -> Task] /\ writer' \in Worker \cup {None}
         /\ audit' \in [Reason -> Nat] /\ log' \in [Reason -> Nat]
         /\ now' = now /\ now \in Nat /\ served' \in Nat
         /\ task[w].work \in Work
         /\ CreateOK(task[w].work) /\ DecisionOK(task[w].work)
         /\ CollectOK(task[w].work) /\ IssueOK(task[w])
         /\ LockOK'
<1> USE DEF CommitWork, PersistEvent
<1>1. /\ task' \in [Worker -> Task] /\ writer' \in Worker \cup {None}
      /\ audit' \in [Reason -> Nat] /\ log' \in [Reason -> Nat]
      /\ now' = now /\ now \in Nat /\ served' \in Nat
  BY IdleType DEF Consistent, TypeOK
<1>2. task[w].work \in Work
  BY WorkingType DEF Consistent, TypeOK
<1>3. /\ CreateOK(task[w].work) /\ DecisionOK(task[w].work)
      /\ CollectOK(task[w].work) /\ IssueOK(task[w])
  BY DEF Consistent, TaskOK, WorkOK
<1>4. \A v \in Worker : task'[v].pc # "commit"
  BY DEF Consistent, TypeOK, LockOK, Idle
<1>5. LockOK'
  BY <1>4, AccountsAssumption DEF LockOK
<1> QED
  BY <1>1, <1>2, <1>3, <1>5

\* What the other threads remember stays true.
LEMMA CommitTasks ==
  ASSUME Consistent, NEW w \in Worker, NEW r \in Reason, CommitWork(w, r), Grows
  PROVE  \A v \in Worker : TaskOK(v)'
<1> SUFFICES ASSUME NEW v \in Worker PROVE TaskOK(v)'
  OBVIOUS
<1> DEFINE t == task[v]
<1>1. CASE v = w
  BY <1>1, IdleTask DEF CommitWork, Consistent, TypeOK
<1>2. CASE v # w
  <2>1. task'[v] = t /\ t.pc # "commit" /\ now' = now /\ t \in Task
    BY <1>2 DEF CommitWork, Consistent, TypeOK, LockOK
  <2>2. ReadOK(t) /\ WorkOK(t)
    BY DEF Consistent, TaskOK
  <2> HIDE DEF t
  <2>3. ReadOK(task[v])'
    BY <2>1, <2>2 DEF ReadOK, InWindow, Grows
  <2>4. ASSUME t.pc = "flush" PROVE WorkOK(task[v])'
    <3>1. CreateOK(t.work) /\ DecisionOK(t.work) /\ CollectOK(t.work)
      BY <2>2, <2>4 DEF WorkOK
    <3>2. CreateOK(task[v].work)'
      BY <2>1, <3>1 DEF CreateOK, WithinOwnAuthority
    <3>3. DecisionOK(task[v].work)'
      BY <2>1, <3>1 DEF DecisionOK, Grows
    <3>4. CollectOK(task[v].work)'
      BY <2>1, <3>1 DEF CollectOK, InWindow, Grows
    <3> QED
      BY <3>2, <3>3, <3>4 DEF WorkOK
  <2>5. WorkOK(task[v])'
    BY <2>1, <2>4 DEF WorkOK
  <2>6. IssueOK(task[v])'
    BY <2>1 DEF IssueOK
  <2> QED
    BY <2>3, <2>5, <2>6 DEF TaskOK
<1> QED
  BY <1>1, <1>2

LEMMA CommitRefuseStep ==
  ASSUME Consistent, NEW w \in Worker, CommitRefuse(w)
  PROVE  Consistent'
<1> USE DEF CommitRefuse
<1>1. Grows
  BY DEF Grows
<1>2. TablesOK'
  BY CommitFrame, QuietTables
<1>3. TypeOK'
  BY CommitFrame DEF Consistent, TypeOK
<1> QED
  BY <1>1, <1>2, <1>3, CommitFrame, CommitTasks DEF Consistent

\* A supervisor's decision that brings no code keeps the tables consistent.
LEMMA DecidedTables ==
  ASSUME Consistent, UNCHANGED <<codes, now>>,
         NEW o \in DOMAIN orders, NEW a \in Account, RoleOf[a] = "supervisor",
         DOMAIN orders' = DOMAIN orders,
         \A x \in DOMAIN orders :
           /\ orders'[x].account = orders[x].account
           /\ orders'[x].part = orders[x].part
           /\ orders'[x].quantity = orders[x].quantity
           /\ orders'[x].line_total = orders[x].line_total
           /\ orders'[x].restricted = orders[x].restricted
           /\ orders'[x].collected_at = orders[x].collected_at
           /\ x # o => orders'[x] = orders[x],
         orders'[o].state # "pending_supervisor", orders'[o].approved_by = a,
         orders'[o].state \in COLLECTABLE_STATES => HasCode(o)
  PROVE  TablesOK'
<1>1. OneCodePerOrder' /\ UsedIffCollected' /\ CollectedInTime'
  BY DEF Consistent, TablesOK, OneCodePerOrder, UsedIffCollected, CollectedInTime,
         CodeFollowsRelease
<1>2. CodeFollowsRelease'
  BY DEF Consistent, TablesOK, CodeFollowsRelease, HasCode
<1>3. a # None
  BY AccountsAssumption
<1>4. \A c \in DOMAIN codes' : /\ (codes[c].created_at <= now)'
                               /\ Authorised(codes[c].order_id)'
  BY <1>3 DEF Consistent, TablesOK, Authorised, CodeFollowsRelease
<1>5. \A x \in DOMAIN orders' : orders'[x].collected_at # None => HasCode(x)'
  BY DEF Consistent, TablesOK, HasCode
<1> QED
  BY <1>1, <1>2, <1>4, <1>5 DEF TablesOK

LEMMA CommitRejectStep ==
  ASSUME Consistent, NEW w \in Worker, CommitReject(w)
  PROVE  Consistent'
<1>1. CommitWork(w, "order_rejected") /\ UNCHANGED <<codes, stock, handed>>
  BY DEF CommitReject
<1>2. PICK u \in Reject, o \in DOMAIN orders :
        u = task[w].work /\ o = u.order /\ RoleOf[u.actor] = "supervisor"
  BY <1>1, CommitFrame, WorkType DEF CommitWork, DecisionOK
<1>3. u.actor \in Account /\ "rejected" \in OrderState
  BY DEF Reject, OrderState
<1>4. orders' = [orders EXCEPT ![o].state = "rejected", ![o].approved_by = u.actor]
  BY <1>2 DEF CommitReject
<1>5. /\ DOMAIN orders' = DOMAIN orders
      /\ orders' \in [DOMAIN orders -> Order]
      /\ \A x \in DOMAIN orders :
           /\ orders'[x].account = orders[x].account
           /\ orders'[x].part = orders[x].part
           /\ orders'[x].quantity = orders[x].quantity
           /\ orders'[x].line_total = orders[x].line_total
           /\ orders'[x].restricted = orders[x].restricted
           /\ orders'[x].collected_at = orders[x].collected_at
           /\ x # o => orders'[x] = orders[x]
      /\ orders'[o].state = "rejected" /\ orders'[o].approved_by = u.actor
  BY <1>3, <1>4, DecidedOrders DEF Consistent
<1>6. Grows /\ TypeOK'
  BY <1>1, <1>5, CommitFrame DEF Grows, Consistent, TypeOK
<1>7. TablesOK'
  <2>1. orders'[o].state \notin COLLECTABLE_STATES \cup {"pending_supervisor"}
    BY <1>5 DEF COLLECTABLE_STATES
  <2> QED
    BY <1>1, <1>2, <1>3, <1>5, <2>1, CommitFrame, DecidedTables
<1> QED
  BY <1>1, <1>6, <1>7, CommitFrame, CommitTasks DEF Consistent

\* What the INSERT of a code row adds to its table.
LEMMA InsertedCode ==
  ASSUME TypeOK, NEW c \in CodeId \ DOMAIN codes, NEW row \in PickupCode,
         codes' = Insert(codes, c, row)
  PROVE  /\ DOMAIN codes' = DOMAIN codes \cup {c}
         /\ codes' \in [DOMAIN codes' -> PickupCode]
         /\ \A x \in DOMAIN codes : codes'[x] = codes[x] /\ x # c
         /\ codes'[c] = row
BY DEF Insert, TypeOK

\* An order that gets its code in the commit that makes it collectable keeps the
\* tables consistent.
LEMMA ReleasedTables ==
  ASSUME Consistent, UNCHANGED now,
         NEW o \in OrderId, NEW a \in Account, NEW at \in Int, at <= now,
         ~HasCode(o),
         DOMAIN orders' = DOMAIN orders \cup {o},
         \A x \in DOMAIN orders : x # o => orders'[x] = orders[x],
         orders'[o].state \in COLLECTABLE_STATES, orders'[o].account = a,
         orders'[o].collected_at = None, Authorised(o)',
         NEW c, DOMAIN codes' = DOMAIN codes \cup {c},
         \A x \in DOMAIN codes : codes'[x] = codes[x] /\ x # c,
         codes'[c].order_id = o, codes'[c].owner = a,
         ~codes'[c].used, codes'[c].created_at = at
  PROVE  TablesOK'
<1>1. \A x \in DOMAIN codes : codes[x].order_id # o /\ codes[x].order_id \in DOMAIN orders
  BY DEF HasCode, Consistent, TablesOK, CodeFollowsRelease
<1>2. OneCodePerOrder'
  BY <1>1 DEF Consistent, TablesOK, OneCodePerOrder
<1>3. CodeFollowsRelease'
  <2>1. \A x \in DOMAIN codes' :
          /\ codes'[x].order_id \in DOMAIN orders'
          /\ codes'[x].owner = orders'[codes'[x].order_id].account
          /\ orders'[codes'[x].order_id].state # "pending_supervisor"
    BY <1>1 DEF Consistent, TablesOK, CodeFollowsRelease, COLLECTABLE_STATES
  <2>2. \A x \in DOMAIN orders' :
          orders'[x].state \in COLLECTABLE_STATES => HasCode(x)'
    BY DEF Consistent, TablesOK, CodeFollowsRelease, HasCode
  <2> QED
    BY <2>1, <2>2 DEF CodeFollowsRelease
<1>4. UsedIffCollected' /\ CollectedInTime'
  BY <1>1 DEF Consistent, TablesOK, UsedIffCollected, CollectedInTime
<1>5. \A x \in DOMAIN codes' : /\ (codes[x].created_at <= now)'
                               /\ Authorised(codes[x].order_id)'
  BY <1>1 DEF Consistent, TablesOK, Authorised
<1>6. \A x \in DOMAIN orders' : orders'[x].collected_at # None => HasCode(x)'
  BY DEF Consistent, TablesOK, HasCode
<1> QED
  BY <1>2, <1>3, <1>4, <1>5, <1>6 DEF TablesOK

LEMMA CommitApproveStep ==
  ASSUME Consistent, NEW w \in Worker, CommitApprove(w)
  PROVE  Consistent'
<1>1. CommitWork(w, "order_approved") /\ UNCHANGED <<stock, handed>>
  BY DEF CommitApprove
<1>2. PICK u \in Approve, o \in DOMAIN orders :
        /\ u = task[w].work /\ o = u.order
        /\ RoleOf[u.actor] = "supervisor" /\ u.at <= now
        /\ u.issue <=> ~HasCode(o)
  <2>1. task[w].work \in Approve
    BY <1>1, CommitFrame, WorkType DEF CommitWork
  <2>2. DecisionOK(task[w].work) /\ IssueOK(task[w])
    BY <1>1, CommitFrame
  <2> QED
    BY <1>1, <2>1, <2>2 DEF CommitWork, DecisionOK, IssueOK
<1>3. /\ u.actor \in Account /\ u.at \in Nat /\ "approved" \in OrderState
      /\ o \in OrderId /\ orders[o].account \in Account
      /\ u.actor # None
  BY AccountsAssumption DEF Approve, OrderState, Consistent, TypeOK, Order
<1>4. orders' = [orders EXCEPT ![o].state = "approved", ![o].approved_by = u.actor]
  BY <1>2 DEF CommitApprove
<1>5. /\ DOMAIN orders' = DOMAIN orders
      /\ orders' \in [DOMAIN orders -> Order]
      /\ \A x \in DOMAIN orders :
           /\ orders'[x].account = orders[x].account
           /\ orders'[x].part = orders[x].part
           /\ orders'[x].quantity = orders[x].quantity
           /\ orders'[x].line_total = orders[x].line_total
           /\ orders'[x].restricted = orders[x].restricted
           /\ orders'[x].collected_at = orders[x].collected_at
           /\ x # o => orders'[x] = orders[x]
      /\ orders'[o].state = "approved" /\ orders'[o].approved_by = u.actor
  BY <1>3, <1>4, DecidedOrders DEF Consistent
<1>6. orders'[o].state \in COLLECTABLE_STATES /\ orders'[o].state # "pending_supervisor"
  BY <1>5 DEF COLLECTABLE_STATES
<1>7. CASE ~u.issue
  <2>1. UNCHANGED codes /\ HasCode(o)
    BY <1>2, <1>7 DEF CommitApprove
  <2>2. Grows /\ TypeOK'
    BY <1>1, <1>5, <2>1, CommitFrame DEF Grows, Consistent, TypeOK
  <2>3. TablesOK'
    BY <1>1, <1>2, <1>3, <1>5, <1>6, <2>1, CommitFrame, DecidedTables
  <2> QED
    BY <1>1, <2>2, <2>3, CommitFrame, CommitTasks DEF Consistent
<1>8. CASE u.issue
  <2>0. PICK a \in Account, at \in Int : a = orders[o].account /\ at = u.at
    BY <1>3
  <2>1. PICK c \in CodeId \ DOMAIN codes : codes' = Insert(codes, c, NewCode(c, o, a, at))
    BY <1>2, <1>8, <2>0 DEF CommitApprove
  <2>2. c \in CodeValue
    BY TablesAssumption
  <2>3. /\ DOMAIN codes' = DOMAIN codes \cup {c}
        /\ codes' \in [DOMAIN codes' -> PickupCode]
        /\ \A x \in DOMAIN codes : codes'[x] = codes[x] /\ x # c
        /\ codes'[c].order_id = o /\ codes'[c].owner = a
        /\ ~codes'[c].used /\ codes'[c].created_at = at
    <3> DEFINE new == NewCode(c, o, a, at)
    <3>1. /\ new \in PickupCode /\ new.order_id = o /\ new.owner = a
          /\ ~new.used /\ new.created_at = at
      BY <1>3, <2>2, TablesAssumption DEF NewCode, PickupCode
    <3>2. codes' = Insert(codes, c, new)
      BY <2>1
    <3> HIDE DEF new
    <3> QED
      BY <3>1, <3>2, InsertedCode DEF Consistent
  <2>4. Grows
    BY <1>5, <2>3 DEF Grows
  <2>5. TypeOK'
    BY <1>1, <1>5, <2>3, CommitFrame DEF Consistent, TypeOK
  <2>6. ~HasCode(o) /\ orders[o].collected_at = None
    BY <1>2, <1>8 DEF Consistent, TablesOK
  <2>7. Authorised(o)'
    BY <1>2, <1>3, <1>5 DEF Authorised
  <2>8. TablesOK'
    <3>1. /\ orders'[o].account = a
          /\ orders'[o].collected_at = None
          /\ DOMAIN orders' = DOMAIN orders \cup {o}
      BY <1>5, <2>0, <2>6
    <3>2. now' = now /\ at <= now
      BY <1>1, <1>2, <2>0, CommitFrame
    <3> QED
      BY <1>3, <1>5, <1>6, <2>3, <2>6, <2>7, <3>1, <3>2, ReleasedTables
  <2> QED
    BY <1>1, <2>4, <2>5, <2>8, CommitFrame, CommitTasks DEF Consistent
<1> QED
  BY <1>7, <1>8

LEMMA CommitCreateStep ==
  ASSUME Consistent, NEW w \in Worker, CommitCreate(w)
  PROVE  Consistent'
<1>1. CommitWork(w, "order_created") /\ UNCHANGED <<stock, handed>>
  BY DEF CommitCreate
<1>2. PICK u \in Create : u = task[w].work /\ CreateOK(u)
  BY <1>1, CommitFrame, WorkType DEF CommitWork
<1>3. PICK row \in Order, code \in CodeValue \cup {None, Fresh}, at \in Int :
        row = u.draft /\ code = u.code /\ at = u.at
  BY DEF Create
<1>4. PICK o \in OrderId \ DOMAIN orders :
        /\ orders' = Insert(orders, o, row)
        /\ code = None => UNCHANGED codes
        /\ code # None =>
             \E c \in CodeId \ DOMAIN codes :
               codes' = Insert(codes, c, NewCode(CodeOfRow(c, code), o, row.account, at))
  BY <1>2, <1>3 DEF CommitCreate
<1>5. /\ row.approved_by = None /\ row.collected_at = None /\ at <= now
      /\ \/ row.state = "pending_supervisor" /\ code = None
         \/ /\ row.state = "auto_approved" /\ code = Fresh
            /\ WithinOwnAuthority(row.account, row.part, row.quantity)
  BY <1>2, <1>3 DEF CreateOK, Create
<1>6. /\ DOMAIN orders' = DOMAIN orders \cup {o}
      /\ orders' \in [DOMAIN orders' -> Order]
      /\ \A x \in DOMAIN orders : x # o /\ orders'[x] = orders[x]
      /\ orders'[o] = row
  BY <1>4 DEF Insert, Consistent, TypeOK
<1>7. ~HasCode(o)
  BY <1>4 DEF HasCode, Consistent, TablesOK, CodeFollowsRelease
<1>8. now' = now /\ now \in Nat
  BY <1>1, CommitFrame
<1>9. CASE code = None
  <2>1. UNCHANGED codes /\ row.state = "pending_supervisor"
    BY <1>4, <1>5, <1>9, TablesAssumption
  <2>2. Grows /\ TypeOK'
    BY <1>1, <1>6, <2>1, CommitFrame DEF Grows, Consistent, TypeOK
  <2>3. TablesOK'
    <3>1. OneCodePerOrder' /\ UsedIffCollected' /\ CollectedInTime'
      BY <1>6, <2>1 DEF Consistent, TablesOK, OneCodePerOrder, UsedIffCollected,
           CollectedInTime, CodeFollowsRelease
    <3>2. CodeFollowsRelease'
      BY <1>6, <2>1 DEF Consistent, TablesOK, CodeFollowsRelease, HasCode,
           COLLECTABLE_STATES
    <3>3. \A c \in DOMAIN codes' : /\ (codes[c].created_at <= now)'
                                   /\ Authorised(codes[c].order_id)'
      BY <1>6, <1>8, <2>1 DEF Consistent, TablesOK, Authorised, CodeFollowsRelease
    <3>4. \A x \in DOMAIN orders' : orders'[x].collected_at # None => HasCode(x)'
      BY <1>5, <1>6, <2>1 DEF Consistent, TablesOK, HasCode
    <3> QED
      BY <3>1, <3>2, <3>3, <3>4 DEF TablesOK
  <2> QED
    BY <1>1, <2>2, <2>3, CommitFrame, CommitTasks DEF Consistent
<1>10. CASE code # None
  <2>1. /\ row.state = "auto_approved" /\ code = Fresh
        /\ WithinOwnAuthority(row.account, row.part, row.quantity)
    BY <1>5, <1>10
  <2>2. PICK c \in CodeId \ DOMAIN codes :
          codes' = Insert(codes, c, NewCode(c, o, row.account, at))
    BY <1>4, <1>10, <2>1 DEF CodeOfRow
  <2>3. c \in CodeValue /\ row.account \in Account /\ at \in Int
    BY TablesAssumption DEF Order
  <2>4. /\ DOMAIN codes' = DOMAIN codes \cup {c}
        /\ codes' \in [DOMAIN codes' -> PickupCode]
        /\ \A x \in DOMAIN codes : codes'[x] = codes[x] /\ x # c
        /\ codes'[c].order_id = o /\ codes'[c].owner = row.account
        /\ ~codes'[c].used /\ codes'[c].created_at = at
    <3> DEFINE new == NewCode(c, o, row.account, at)
    <3>1. /\ new \in PickupCode /\ new.order_id = o /\ new.owner = row.account
          /\ ~new.used /\ new.created_at = at
      BY <2>3, TablesAssumption DEF NewCode, PickupCode
    <3>2. codes' = Insert(codes, c, new)
      BY <2>2
    <3> HIDE DEF new
    <3> QED
      BY <3>1, <3>2, InsertedCode DEF Consistent
  <2>5. Grows /\ TypeOK'
    BY <1>1, <1>6, <2>4, CommitFrame DEF Grows, Consistent, TypeOK
  <2>6. Authorised(o)' /\ orders'[o].state \in COLLECTABLE_STATES
    BY <1>6, <2>1 DEF Authorised, COLLECTABLE_STATES, WithinOwnAuthority
  <2>7. TablesOK'
    BY <1>5, <1>6, <1>7, <1>8, <2>3, <2>4, <2>6, ReleasedTables
  <2> QED
    BY <1>1, <2>5, <2>7, CommitFrame, CommitTasks DEF Consistent
<1> QED
  BY <1>9, <1>10

LEMMA CommitCollectStep ==
  ASSUME Consistent, NEW w \in Worker, CommitCollect(w)
  PROVE  Consistent'
<1>1. CommitWork(w, "order_collected")
  BY DEF CommitCollect
<1>2. PICK u \in Collect : u = task[w].work /\ CollectOK(u)
  BY <1>1, CommitFrame, WorkType DEF CommitWork
<1>3. PICK o \in OrderId, c \in CodeId, at \in Nat, n \in Int :
        u.order = o /\ u.row = c /\ u.at = at /\ u.stock = n
  BY DEF Collect
<1>4. /\ o \in DOMAIN orders /\ c \in DOMAIN codes /\ codes[c].order_id = o
      /\ InWindow(c, at) /\ at # None /\ now' = now
  BY <1>1, <1>2, <1>3, CommitFrame, AccountsAssumption DEF CollectOK, Collect
<1>5. /\ stock' = [stock EXCEPT ![orders[o].part] = n]
      /\ codes' = [codes EXCEPT ![c].used = TRUE]
      /\ orders' = [orders EXCEPT ![o].state = "collected", ![o].collected_at = at]
      /\ handed' = [handed EXCEPT ![o] = @ + 1]
  BY <1>2, <1>3 DEF CommitCollect
<1>6. /\ DOMAIN orders' = DOMAIN orders
      /\ orders' \in [DOMAIN orders -> Order]
      /\ \A x \in DOMAIN orders :
           /\ orders'[x].account = orders[x].account
           /\ orders'[x].part = orders[x].part
           /\ orders'[x].quantity = orders[x].quantity
           /\ orders'[x].approved_by = orders[x].approved_by
           /\ x # o => orders'[x] = orders[x]
      /\ orders'[o].state = "collected" /\ orders'[o].collected_at = at
  <2> DEFINE row == [orders[o] EXCEPT !.state = "collected", !.collected_at = at]
  <2>1. orders \in [DOMAIN orders -> Order] /\ orders[o] \in Order
    BY <1>4 DEF Consistent, TypeOK
  <2>2. /\ row \in Order
        /\ row.account = orders[o].account /\ row.part = orders[o].part
        /\ row.quantity = orders[o].quantity
        /\ row.approved_by = orders[o].approved_by
        /\ row.state = "collected" /\ row.collected_at = at
    BY <2>1 DEF Order, OrderState
  <2>3. orders' = [orders EXCEPT ![o] = row]
    BY <1>5, <2>1
  <2> HIDE DEF row
  <2> QED
    BY <1>4, <2>1, <2>2, <2>3
<1>7. /\ DOMAIN codes' = DOMAIN codes
      /\ codes' \in [DOMAIN codes -> PickupCode]
      /\ \A x \in DOMAIN codes :
           /\ codes'[x].order_id = codes[x].order_id
           /\ codes'[x].owner = codes[x].owner
           /\ codes'[x].created_at = codes[x].created_at
           /\ codes'[x].expires_at = codes[x].expires_at
           /\ x # c => codes'[x] = codes[x]
      /\ codes'[c].used
  <2> DEFINE row == [codes[c] EXCEPT !.used = TRUE]
  <2>1. codes \in [DOMAIN codes -> PickupCode] /\ codes[c] \in PickupCode
    BY <1>4 DEF Consistent, TypeOK
  <2>2. /\ row \in PickupCode
        /\ row.order_id = codes[c].order_id /\ row.owner = codes[c].owner
        /\ row.created_at = codes[c].created_at
        /\ row.expires_at = codes[c].expires_at
        /\ row.used
    BY <2>1 DEF PickupCode
  <2>3. codes' = [codes EXCEPT ![c] = row]
    BY <1>5, <2>1
  <2> HIDE DEF row
  <2> QED
    BY <1>4, <2>1, <2>2, <2>3
<1>8. Grows
  BY <1>6, <1>7 DEF Grows
<1>9. TypeOK'
  <2>1. stock' \in [Part -> Int]
    BY <1>5 DEF Consistent, TypeOK
  <2>2. handed' \in [OrderId -> Nat]
    BY <1>5 DEF Consistent, TypeOK
  <2> QED
    BY <1>1, <1>6, <1>7, <2>1, <2>2, CommitFrame DEF Consistent, TypeOK
<1>10. TablesOK'
  <2>1. OneCodePerOrder'
    BY <1>7 DEF Consistent, TablesOK, OneCodePerOrder
  <2>2. CodeFollowsRelease'
    BY <1>6, <1>7 DEF Consistent, TablesOK, CodeFollowsRelease, HasCode,
         COLLECTABLE_STATES
  <2>3. \A x \in DOMAIN codes : x # c => codes[x].order_id # o
    BY <1>4 DEF Consistent, TablesOK, OneCodePerOrder
  <2>4. UsedIffCollected'
    BY <1>4, <1>6, <1>7, <2>3 DEF Consistent, TablesOK, UsedIffCollected,
         CodeFollowsRelease
  <2>5. CollectedInTime'
    BY <1>4, <1>6, <1>7, <2>3 DEF Consistent, TablesOK, CollectedInTime, InWindow,
         CodeFollowsRelease
  <2>6. \A x \in DOMAIN codes' : /\ (codes[x].created_at <= now)'
                                 /\ Authorised(codes[x].order_id)'
    BY <1>4, <1>6, <1>7 DEF Consistent, TablesOK, Authorised, CodeFollowsRelease
  <2>7. \A x \in DOMAIN orders' : orders'[x].collected_at # None => HasCode(x)'
    BY <1>4, <1>6, <1>7 DEF Consistent, TablesOK, HasCode
  <2> QED
    BY <2>1, <2>2, <2>4, <2>5, <2>6, <2>7 DEF TablesOK
<1> QED
  BY <1>1, <1>8, <1>9, <1>10, CommitFrame, CommitTasks DEF Consistent

-----------------------------------------------------------------------------
LEMMA NextConsistent ==
  ASSUME Consistent, [Next]_vars
  PROVE  Consistent'
<1>1. ASSUME NEW w \in Worker, NEW a \in Account, WorkflowRequest(w, a, now)
      PROVE  Consistent'
  BY <1>1, ApproveOrderStep, RejectOrderStep, ForbidStep, PresentCodeStep,
     PresentBadCodeStep DEF WorkflowRequest, DecisionForbidden
<1>2. ASSUME NEW w \in Worker, Commit(w) PROVE Consistent'
  BY <1>2, CommitCreateStep, CommitApproveStep, CommitRejectStep,
     CommitCollectStep, CommitRefuseStep DEF Commit
<1>3. ASSUME NEW w \in Worker, Advance(w) PROVE Consistent'
  BY <1>2, <1>3, ReadOrderStep, ReadUncollectableStep, ReadPartStep, FlushStep,
     RollbackStep DEF Advance, BusyTimeout
<1>4. ASSUME NEW w \in Worker, Fail(w) PROVE Consistent'
  BY <1>4, RollbackStep DEF Fail
<1>5. ASSUME NEW w \in Worker, NEW a \in Account, CreateRequest(w, a)
      PROVE  Consistent'
  BY <1>5, CreateOrderStep, ForbidStep DEF CreateRequest, CreateForbidden
<1>6. CASE Crash
  BY <1>6, CrashStep
<1>7. CASE Tick
  BY <1>7, TickStep
<1>8. CASE AtBound \/ UNCHANGED vars
  BY <1>8, StutterStep DEF AtBound
<1> QED
  BY <1>1, <1>3, <1>4, <1>5, <1>6, <1>7, <1>8 DEF Next, WorkflowStep, SecureRequest

\* The invariant the others follow from: in every committed state the tables
\* agree with each other, and what a thread remembers of its reads still holds of
\* all that other threads' commits cannot change.
THEOREM SpecConsistent == Spec => []Consistent
<1>1. Init => Consistent
  BY InitConsistent
<1>2. Consistent /\ [Next]_vars => Consistent'
  BY NextConsistent
<1> QED
  BY <1>1, <1>2, PTL DEF Spec

\* Every table, task and counter keeps its type.
THEOREM SpecTypeOK == Spec => []TypeOK
<1>1. Consistent => TypeOK
  BY DEF Consistent
<1> QED
  BY <1>1, SpecConsistent, PTL

\* However many supervisors approve an order at the same time, it gets one code:
\* approve_order decides whether to issue one with the write lock held.
THEOREM SpecOneCodePerOrder == Spec => []OneCodePerOrder
<1>1. Consistent => OneCodePerOrder
  BY DEF Consistent, TablesOK
<1> QED
  BY <1>1, SpecConsistent, PTL

\* A code belongs to a placed order and to the account that placed it, no waiting
\* order has one, and every collectable order does.
THEOREM SpecCodeFollowsRelease == Spec => []CodeFollowsRelease
<1>1. Consistent => CodeFollowsRelease
  BY DEF Consistent, TablesOK
<1> QED
  BY <1>1, SpecConsistent, PTL

\* A code is marked used exactly when its order has been collected.
THEOREM SpecUsedIffCollected == Spec => []UsedIffCollected
<1>1. Consistent => UsedIffCollected
  BY DEF Consistent, TablesOK
<1> QED
  BY <1>1, SpecConsistent, PTL

\* No order is collected without authority, in any interleaving of create,
\* approve, reject and pickup: a code is the only way to collect, and only a
\* release brings a code.
THEOREM SpecReleaseAuthorised == Spec => []ReleaseAuthorised
<1>1. Consistent => ReleaseAuthorised
  BY DEF Consistent, TablesOK, ReleaseAuthorised, Authorised, HasCode
<1> QED
  BY <1>1, SpecConsistent, PTL

\* A pickup's check of the expiry at its first read is enough: whatever happens
\* until it commits, the collection it records lies in the code's lifetime.
THEOREM SpecCollectedInTime == Spec => []CollectedInTime
<1>1. Consistent => CollectedInTime
  BY DEF Consistent, TablesOK
<1> QED
  BY <1>1, SpecConsistent, PTL

-----------------------------------------------------------------------------
(* The audit trail and the shelf: the workflow's steps keep them, and so    *)
(* does a creation from references.                                         *)

LEMMA ConsistentKnown == ASSUME Consistent PROVE Known
<1>1. \A w \in Worker : TaskKnown(task[w])
  BY DEF Consistent, TaskOK, ReadOK, WorkOK, CreateOK, DecisionOK, CollectOK,
         TaskKnown, WorkKnown
<1>2. \A c \in DOMAIN codes : codes[c].order_id \in DOMAIN orders
  BY DEF Consistent, TablesOK, CodeFollowsRelease
<1> QED
  BY <1>1, <1>2 DEF Consistent, Known

LEMMA NextAccounted ==
  ASSUME Consistent, Accounted, [Next]_vars
  PROVE  Accounted'
<1>0. TypeOK /\ Known
  BY ConsistentKnown DEF Consistent
<1>1. ASSUME NEW w \in Worker, NEW a \in Account, SecureRequest(w, a)
      PROVE  Accounted'
  BY <1>0, <1>1, RequestAccounted, ForbidAccounted, StageAccounted
     DEF SecureRequest, CreateRequest, CreateOrder, CreateForbidden
<1> QED
  BY <1>0, <1>1, StepAccounted DEF Next

LEMMA NextStock ==
  ASSUME Consistent, StockOK, [Next]_vars
  PROVE  StockOK'
<1>0. Known
  BY ConsistentKnown
<1>1. ASSUME NEW w \in Worker, NEW a \in Account, SecureRequest(w, a)
      PROVE  StockOK'
  BY <1>0, <1>1, RequestStock, ForbidStock, StageStock
     DEF SecureRequest, CreateRequest, CreateOrder, CreateForbidden
<1> QED
  BY <1>0, <1>1, StepStock DEF Next

\* For every kind of event, the rows persisted and the lines whose rows are still
\* to come are together no more than the lines logged; and every order, decision
\* and collection in the orders table has its audit row.
THEOREM SpecAccounted == Spec => []Accounted
<1>1. Init => Accounted
  BY InitAccounted DEF Init
<1>2. Consistent /\ Accounted /\ [Next]_vars => Accounted'
  BY NextAccounted
<1> QED
  BY <1>1, <1>2, SpecConsistent, PTL DEF Spec

\* The audit table accounts for the orders table, and the log for the audit table,
\* whatever the interleaving: an event's row commits with the change it reports,
\* and its line went out before.
THEOREM SpecAuditAccountsForTables == Spec => []AuditAccountsForTables
<1>1. TypeOK /\ Accounted => AuditAccountsForTables
  BY AccountedForTables
<1> QED
  BY <1>1, SpecTypeOK, SpecAccounted, PTL

\* Whatever a thread that reads the shelf and writes it later misses, no count it
\* is about to write is below what was handed out accounts for, nor above what
\* is left without its own order.
THEOREM SpecStockOK == Spec => []StockOK
<1>1. Init => StockOK
  BY InitStock DEF Init
<1>2. Consistent /\ StockOK /\ [Next]_vars => StockOK'
  BY NextStock
<1> QED
  BY <1>1, <1>2, SpecConsistent, PTL DEF Spec

\* However pickups interleave, fail or are killed, their stale reads lose
\* decrements of the stock and never invent one, and once something was handed
\* out at least one whole order is missing from the shelf.
THEOREM SpecStockNeverOverCounted == Spec => []StockNeverOverCounted
<1>1. StockOK => StockNeverOverCounted
  BY DEF StockOK
<1> QED
  BY <1>1, SpecStockOK, PTL
=============================================================================
