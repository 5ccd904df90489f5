--------------------------- MODULE WorkflowProofs ---------------------------
(***************************************************************************)
(* Proofs about the workflow whichever create_order feeds it: every step of*)
(* the handlers keeps the audit table accounting for the others, and the   *)
(* shelf count never above or below what was handed out allows.  The       *)
(* applications cite these lemmas for the steps they share.                *)
(***************************************************************************)
EXTENDS WorkflowInvariants, FiniteSetTheorems, TLAPS

USE DEF Reason

-----------------------------------------------------------------------------
(* The shapes of tasks and units of work. *)

LEMMA IdleType == Idle \in Task
BY DEF Idle, Task

LEMMA ReadingType ==
  ASSUME NEW t \in Task, t.pc \in {"order", "part"}
  PROVE  /\ t \in [pc : {"order", "part"}, actor : Account, at : Nat, row : CodeId]
         /\ [t EXCEPT !.pc = "part"] \in Task
         /\ [t EXCEPT !.pc = "part"].row = t.row
         /\ [t EXCEPT !.pc = "part"].at = t.at
         /\ [t EXCEPT !.pc = "part"].pc = "part"
BY DEF Task

LEMMA WorkingType ==
  ASSUME NEW t \in Task, t.pc \in {"flush", "commit"}
  PROVE  t = [pc |-> t.pc, work |-> t.work] /\ t.work \in Work
BY DEF Task

LEMMA WorkType ==
  ASSUME NEW u \in Work
  PROVE  /\ u.reason = "order_created" => u \in Create
         /\ u.reason = "order_approved" => u \in Approve
         /\ u.reason = "order_rejected" => u \in Reject
         /\ u.reason = "order_collected" => u \in Collect
         /\ u.reason = "pickup_refused" => u \in Refuse
         /\ u.reason \in Reason
BY DEF Work, Create, Approve, Reject, Collect, Refuse

LEMMA StagedType ==
  ASSUME NEW u \in Work, NEW p \in {"flush", "commit"}
  PROVE  [pc |-> p, work |-> u] \in Task
BY DEF Task

LEMMA EmitLineType ==
  ASSUME TypeOK, NEW r \in Reason, EmitLine(r)
  PROVE  log' \in [Reason -> Nat]
BY DEF TypeOK, EmitLine

LEMMA KnownWork ==
  ASSUME Known, NEW w \in Worker, NEW r \in Reason, CommitWork(w, r)
  PROVE  /\ audit' \in [Reason -> Nat]
         /\ task[w].work \in Work /\ WorkKnown(task[w].work)
<1>1. task[w] \in Task /\ task[w].pc = "commit" /\ TaskKnown(task[w])
  BY DEF CommitWork, Known, TypeOK
<1>2. audit' \in [Reason -> Nat]
  BY DEF CommitWork, PersistEvent, Known, TypeOK
<1> QED
  BY <1>1, <1>2, WorkingType DEF TaskKnown

LEMMA DecidedOrders ==
  ASSUME TypeOK, NEW o \in DOMAIN orders, NEW a \in Account, NEW s \in OrderState,
         orders' = [orders EXCEPT ![o].state = s, ![o].approved_by = a]
  PROVE  /\ DOMAIN orders' = DOMAIN orders
         /\ orders' \in [DOMAIN orders -> Order]
         /\ \A x \in DOMAIN orders :
              /\ orders'[x].account = orders[x].account
              /\ orders'[x].part = orders[x].part
              /\ orders'[x].quantity = orders[x].quantity
              /\ orders'[x].line_total = orders[x].line_total
              /\ orders'[x].restricted = orders[x].restricted
              /\ orders'[x].collected_at = orders[x].collected_at
              /\ x # o => orders'[x] = orders[x]
         /\ orders'[o].state = s /\ orders'[o].approved_by = a
<1> DEFINE row == [orders[o] EXCEPT !.state = s, !.approved_by = a]
<1>1. orders \in [DOMAIN orders -> Order] /\ orders[o] \in Order
  BY DEF TypeOK
<1>2. /\ row \in Order
      /\ row.account = orders[o].account /\ row.part = orders[o].part
      /\ row.quantity = orders[o].quantity
      /\ row.line_total = orders[o].line_total
      /\ row.restricted = orders[o].restricted
      /\ row.collected_at = orders[o].collected_at
      /\ row.state = s /\ row.approved_by = a
  BY <1>1 DEF Order
<1>3. orders' = [orders EXCEPT ![o] = row]
  BY <1>1
<1> HIDE DEF row
<1> QED
  BY <1>1, <1>2, <1>3

-----------------------------------------------------------------------------
(* Lines whose rows are yet to come. *)

\* Thread w alone moves, to task t.
LEMMA PendingMoves ==
  ASSUME task \in [Worker -> Task], NEW w \in Worker, NEW t,
         task' = [task EXCEPT ![w] = t], NEW r
  PROVE  Pending(r)' = IF LineOut(t, r) THEN Pending(r) \cup {w} ELSE Pending(r) \ {w}
<1>1. task'[w] = t /\ \A v \in Worker \ {w} : task'[v] = task[v]
  OBVIOUS
<1>2. LineOut(task[w], r)' <=> LineOut(t, r)
  BY <1>1 DEF LineOut
<1>3. \A v \in Worker \ {w} : LineOut(task[v], r)' <=> LineOut(task[v], r)
  BY <1>1 DEF LineOut
<1> QED
  BY <1>2, <1>3 DEF Pending

\* Of the events of kind r, a step that takes thread w to task t logs and persists
\* none, or logs one, or persists one that was logged before.
LineMoves(w, t, r) ==
  \/ /\ audit'[r] = audit[r] /\ log'[r] = log[r]
     /\ LineOut(t, r) => LineOut(task[w], r)
  \/ audit'[r] = audit[r] /\ log'[r] = log[r] + 1
  \/ /\ audit'[r] = audit[r] + 1 /\ log'[r] = log[r]
     /\ LineOut(task[w], r) /\ ~LineOut(t, r)

LEMMA LinesMove ==
  ASSUME TypeOK, LinesOK, NEW w \in Worker, NEW t,
         task' = [task EXCEPT ![w] = t],
         \A r \in Reason : LineMoves(w, t, r)
  PROVE  LinesOK'
<1> USE DEF LineMoves
<1> SUFFICES ASSUME NEW r \in Reason
             PROVE  (IsFiniteSet(Pending(r)) /\ audit[r] + Cardinality(Pending(r)) <= log[r])'
  BY DEF LinesOK
<1>1. /\ task \in [Worker -> Task]
      /\ audit[r] \in Nat /\ log[r] \in Nat
  BY DEF TypeOK
<1>2. IsFiniteSet(Pending(r)) /\ audit[r] + Cardinality(Pending(r)) <= log[r]
  BY DEF LinesOK
<1>3. Cardinality(Pending(r)) \in Nat
  BY <1>2, FS_CardinalityType
<1>4. w \in Pending(r) <=> LineOut(task[w], r)
  BY DEF Pending
<1>5. CASE LineOut(t, r)
  <2>1. Pending(r)' = Pending(r) \cup {w}
    BY <1>1, <1>5, PendingMoves
  <2>2. /\ IsFiniteSet(Pending(r) \cup {w})
        /\ Cardinality(Pending(r) \cup {w}) =
             IF w \in Pending(r) THEN Cardinality(Pending(r))
             ELSE Cardinality(Pending(r)) + 1
    BY <1>2, FS_AddElement
  <2> QED
    BY <1>1, <1>2, <1>3, <1>4, <1>5, <2>1, <2>2
<1>6. CASE ~LineOut(t, r)
  <2>1. Pending(r)' = Pending(r) \ {w}
    BY <1>1, <1>6, PendingMoves
  <2>2. /\ IsFiniteSet(Pending(r) \ {w})
        /\ Cardinality(Pending(r) \ {w}) =
             IF w \in Pending(r) THEN Cardinality(Pending(r)) - 1
             ELSE Cardinality(Pending(r))
    BY <1>2, FS_RemoveElement
  <2> QED
    BY <1>1, <1>2, <1>3, <1>4, <2>1, <2>2
<1> QED
  BY <1>5, <1>6

\* A step that writes no table: the rows stay as they are.
LEMMA RowsStay ==
  ASSUME RowsOK, UNCHANGED <<orders, audit>>
  PROVE  RowsOK'
BY DEF RowsOK, Decided, HandedOver

\* A thread that goes idle or on reading has no line out.
LEMMA NoLineOut ==
  ASSUME NEW t, t.pc \notin {"flush", "commit"}, NEW r
  PROVE  ~LineOut(t, r)
BY DEF LineOut

LEMMA EmitLineOne ==
  ASSUME TypeOK, NEW reason \in Reason, EmitLine(reason), NEW r \in Reason
  PROVE  log'[r] = IF r = reason THEN log[r] + 1 ELSE log[r]
BY DEF EmitLine, TypeOK

\* Thread w makes an event pending and logs it at once.
LEMMA LoggedStep ==
  ASSUME TypeOK, Accounted, NEW w \in Worker, NEW u,
         task' = [task EXCEPT ![w] = [pc |-> "flush", work |-> u]],
         u.reason \in Reason, EmitLine(u.reason), UNCHANGED tables
  PROVE  Accounted'
<1> DEFINE t == [pc |-> "flush", work |-> u]
<1>1. RowsOK'
  BY RowsStay DEF Accounted, tables
<1>2. \A r \in Reason : LineOut(t, r) => r = u.reason
  BY DEF LineOut
<1>3. \A r \in Reason : LineMoves(w, t, r)
  BY <1>2, EmitLineOne DEF LineMoves, tables
<1>4. task' = [task EXCEPT ![w] = t]
  OBVIOUS
<1>5. LinesOK
  BY DEF Accounted
<1> HIDE DEF t, Reason
<1>6. LinesOK'
  BY <1>3, <1>4, <1>5, LinesMove
<1> QED
  BY <1>1, <1>6 DEF Accounted

\* Thread w takes on a task that has no line out, and nothing is logged.
LEMMA SilentStep ==
  ASSUME TypeOK, Accounted, NEW w \in Worker, NEW t,
         task' = [task EXCEPT ![w] = t], \A r \in Reason : ~LineOut(t, r),
         UNCHANGED <<tables, log>>
  PROVE  Accounted'
<1>1. RowsOK'
  BY RowsStay DEF Accounted, tables
<1>2. \A r \in Reason : LineMoves(w, t, r)
  BY DEF LineMoves, tables
<1>3. LinesOK
  BY DEF Accounted
<1> HIDE DEF Reason
<1>4. LinesOK'
  BY <1>2, <1>3, LinesMove
<1> QED
  BY <1>1, <1>4 DEF Accounted
-----------------------------------------------------------------------------
(* The requests and the steps before a commit. *)

LEMMA ForbidAccounted ==
  ASSUME TypeOK, Accounted, NEW w \in Worker, Forbid(w)
  PROVE  Accounted'
<1>1. \A r \in Reason : ~LineOut(Idle, r)
  BY NoLineOut DEF Idle
<1> QED
  BY <1>1, SilentStep DEF Forbid, Start

LEMMA RequestAccounted ==
  ASSUME TypeOK, Accounted, NEW w \in Worker, NEW a \in Account, NEW at,
         WorkflowRequest(w, a, at)
  PROVE  Accounted'
<1>1. ASSUME NEW o \in OrderId, ApproveOrder(w, a, o)
      PROVE  Accounted'
  <2> DEFINE t == [pc |-> "flush",
                   work |-> [reason |-> "order_approved", order |-> o, actor |-> a,
                             at |-> now, issue |-> FALSE]]
  <2>1. \A r \in Reason : ~LineOut(t, r)
    BY DEF LineOut
  <2>2. task' = [task EXCEPT ![w] = t] /\ UNCHANGED <<tables, log>>
    BY <1>1 DEF ApproveOrder, Start
  <2> HIDE DEF t
  <2> QED
    BY <2>1, <2>2, SilentStep
<1>2. ASSUME NEW o \in OrderId, RejectOrder(w, a, o)
      PROVE  Accounted'
  <2> DEFINE u == [reason |-> "order_rejected", order |-> o, actor |-> a]
  <2>1. /\ task' = [task EXCEPT ![w] = [pc |-> "flush", work |-> u]]
        /\ u.reason \in Reason /\ EmitLine(u.reason)
        /\ UNCHANGED tables
    BY <1>2 DEF RejectOrder, Start, tables
  <2> HIDE DEF u
  <2> QED
    BY <2>1, LoggedStep
<1>3. ASSUME NEW o \in OrderId, DecisionForbidden(w, a, o)
      PROVE  Accounted'
  BY <1>3, ForbidAccounted DEF DecisionForbidden
<1>4. ASSUME NEW v \in CodeValue, PresentCode(w, a, v, at)
      PROVE  Accounted'
  <2>1. PICK c \in Matches(v) :
          task' = [task EXCEPT ![w] = [pc |-> "order", actor |-> a, at |-> at, row |-> c]]
    BY <1>4 DEF PresentCode, Start
  <2>2. UNCHANGED <<tables, log>>
    BY <1>4 DEF PresentCode
  <2> DEFINE t == [pc |-> "order", actor |-> a, at |-> at, row |-> c]
  <2>3. \A r \in Reason : ~LineOut(t, r)
    BY NoLineOut
  <2>4. task' = [task EXCEPT ![w] = t]
    BY <2>1
  <2> HIDE DEF t
  <2> QED
    BY <2>2, <2>3, <2>4, SilentStep
<1>5. ASSUME NEW v \in CodeValue, PresentBadCode(w, a, v, at)
      PROVE  Accounted'
  <2> DEFINE u == [reason |-> "pickup_refused"]
  <2>1. /\ task' = [task EXCEPT ![w] = [pc |-> "flush", work |-> u]]
        /\ u.reason \in Reason /\ EmitLine(u.reason)
        /\ UNCHANGED tables
    BY <1>5 DEF PresentBadCode, RefusedPickup, Start, tables
  <2> HIDE DEF u
  <2> QED
    BY <2>1, LoggedStep
<1> QED
  BY <1>1, <1>2, <1>3, <1>4, <1>5 DEF WorkflowRequest

LEMMA StageAccounted ==
  ASSUME TypeOK, Accounted, NEW w \in Worker, NEW draft, NEW code, NEW at,
         StageOrder(w, draft, code, at)
  PROVE  Accounted'
<1> DEFINE u == [reason |-> "order_created", draft |-> draft, code |-> code, at |-> at]
<1>1. /\ task' = [task EXCEPT ![w] = [pc |-> "flush", work |-> u]]
      /\ u.reason \in Reason /\ EmitLine(u.reason)
      /\ UNCHANGED tables
  BY DEF StageOrder, Start, tables
<1> HIDE DEF u
<1> QED
  BY <1>1, LoggedStep

LEMMA ReadAccounted ==
  ASSUME TypeOK, Accounted, NEW w \in Worker,
         ReadOrder(w) \/ ReadUncollectable(w) \/ ReadPart(w)
  PROVE  Accounted'
<1>0. task[w] \in Task
  BY DEF TypeOK
<1>1. CASE ReadOrder(w)
  <2> DEFINE t == [task[w] EXCEPT !.pc = "part"]
  <2>1. task' = [task EXCEPT ![w] = t] /\ UNCHANGED <<tables, log>>
    BY <1>1 DEF ReadOrder, TypeOK
  <2>2. t.pc = "part"
    BY <1>0, <1>1 DEF ReadOrder, Task
  <2> HIDE DEF t
  <2>3. \A r \in Reason : ~LineOut(t, r)
    BY <2>2, NoLineOut
  <2> QED
    BY <2>1, <2>3, SilentStep
<1>2. CASE ReadUncollectable(w)
  <2> DEFINE u == [reason |-> "pickup_refused"]
  <2>1. /\ task' = [task EXCEPT ![w] = [pc |-> "flush", work |-> u]]
        /\ u.reason \in Reason /\ EmitLine(u.reason)
        /\ UNCHANGED tables
    BY <1>2 DEF ReadUncollectable, RefusedPickup, tables
  <2> HIDE DEF u
  <2> QED
    BY <2>1, LoggedStep
<1>3. CASE ReadPart(w)
  <2> DEFINE o == codes[task[w].row].order_id
             u == [reason |-> "order_collected", order |-> o,
                   row |-> task[w].row, at |-> task[w].at,
                   stock |-> stock[orders[o].part] - orders[o].quantity]
  <2>1. /\ task' = [task EXCEPT ![w] = [pc |-> "flush", work |-> u]]
        /\ u.reason \in Reason /\ EmitLine(u.reason)
        /\ UNCHANGED tables
    BY <1>3 DEF ReadPart, tables
  <2> HIDE DEF u
  <2> QED
    BY <2>1, LoggedStep
<1> QED
  BY <1>1, <1>2, <1>3

\* The lock: an approval's line goes out with it, the others' went before.
LEMMA FlushAccounted ==
  ASSUME TypeOK, Accounted, NEW w \in Worker, Flush(w)
  PROVE  Accounted'
<1>0. task[w] \in Task /\ task[w].pc = "flush" /\ UNCHANGED tables
  BY DEF TypeOK, Flush
<1> DEFINE u == task[w].work
<1>1. RowsOK'
  BY <1>0, RowsStay DEF Accounted, tables
<1>2. CASE u.reason = "order_approved"
  <2>1. PICK at : task' = [task EXCEPT ![w] = [pc |-> "commit",
                     work |-> [u EXCEPT !.at = at, !.issue = ~HasCode(u.order)]]]
    BY <1>2 DEF Flush
  <2> DEFINE t == [pc |-> "commit",
                   work |-> [u EXCEPT !.at = at, !.issue = ~HasCode(u.order)]]
  <2>2. u \in Approve
    BY <1>0, <1>2, WorkingType, WorkType
  <2>3. t.work.reason = "order_approved"
    BY <1>2, <2>2 DEF Approve
  <2>4. \A r \in Reason : LineOut(t, r) => r = "order_approved"
    BY <2>3 DEF LineOut
  <2>5. EmitLine("order_approved")
    BY <1>2 DEF Flush
  <2>6. \A r \in Reason : LineMoves(w, t, r)
    BY <1>0, <2>4, <2>5, EmitLineOne DEF LineMoves, tables
  <2>7. task' = [task EXCEPT ![w] = t]
    BY <2>1
  <2>8. LinesOK
    BY DEF Accounted
  <2> HIDE DEF t, Reason
  <2>9. LinesOK'
    BY <2>6, <2>7, <2>8, LinesMove
  <2> QED
    BY <1>1, <2>9 DEF Accounted
<1>3. CASE u.reason # "order_approved"
  <2> DEFINE t == [task[w] EXCEPT !.pc = "commit"]
  <2>1. task' = [task EXCEPT ![w] = t] /\ UNCHANGED log
    BY <1>3 DEF Flush, TypeOK
  <2>2. t.pc = "commit" /\ t.work = u
    BY <1>0, WorkingType
  <2> HIDE DEF t
  <2>3. \A r \in Reason : LineOut(t, r) => LineOut(task[w], r)
    BY <1>0, <1>3, <2>2 DEF LineOut
  <2>4. \A r \in Reason : LineMoves(w, t, r)
    BY <1>0, <2>1, <2>3 DEF LineMoves, tables
  <2>5. LinesOK
    BY DEF Accounted
  <2> HIDE DEF Reason
  <2>6. LinesOK'
    BY <2>1, <2>4, <2>5, LinesMove
  <2> QED
    BY <1>1, <2>6 DEF Accounted
<1> QED
  BY <1>2, <1>3

LEMMA RollbackAccounted ==
  ASSUME TypeOK, Accounted, NEW w \in Worker, Rollback(w)
  PROVE  Accounted'
<1>1. \A r \in Reason : ~LineOut(Idle, r)
  BY NoLineOut DEF Idle
<1> QED
  BY <1>1, SilentStep DEF Rollback

LEMMA CrashAccounted ==
  ASSUME TypeOK, Accounted, Crash
  PROVE  Accounted'
<1>1. RowsOK'
  BY RowsStay DEF Accounted, Crash, tables
<1>2. \A r \in Reason : Pending(r)' = {}
  BY NoLineOut DEF Crash, Pending, Idle, LineOut
<1>3. ASSUME NEW r \in Reason
      PROVE  (IsFiniteSet(Pending(r)) /\ audit[r] + Cardinality(Pending(r)) <= log[r])'
  <2>1. audit[r] \in Nat /\ log[r] \in Nat
    BY DEF TypeOK
  <2>2. audit[r] <= log[r]
    <3>1. IsFiniteSet(Pending(r)) /\ audit[r] + Cardinality(Pending(r)) <= log[r]
      BY DEF Accounted, LinesOK
    <3> QED
      BY <2>1, <3>1, FS_CardinalityType
  <2>3. audit'[r] = audit[r] /\ log'[r] = log[r]
    BY DEF Crash, tables
  <2> QED
    BY <1>2, <2>1, <2>2, <2>3, FS_EmptySet
<1> QED
  BY <1>1, <1>3 DEF Accounted, LinesOK
-----------------------------------------------------------------------------
(* Commits: the event's row, and the orders it stands for. *)

LEMMA PersistEventOne ==
  ASSUME TypeOK, NEW reason \in Reason, PersistEvent(reason), NEW r \in Reason
  PROVE  audit'[r] = IF r = reason THEN audit[r] + 1 ELSE audit[r]
BY DEF PersistEvent, TypeOK

LEMMA CommitLines ==
  ASSUME TypeOK, LinesOK, NEW w \in Worker, NEW reason \in Reason,
         CommitWork(w, reason)
  PROVE  LinesOK'
<1>1. \A r \in Reason : ~LineOut(Idle, r)
  BY NoLineOut DEF Idle
<1>2. LineOut(task[w], reason)
  BY DEF CommitWork, LineOut
<1>3. \A r \in Reason : LineMoves(w, Idle, r)
  BY <1>1, <1>2, PersistEventOne DEF LineMoves, CommitWork
<1>4. task' = [task EXCEPT ![w] = Idle]
  BY DEF CommitWork
<1> QED
  BY <1>3, <1>4, LinesMove

LEMMA RowsFinite ==
  ASSUME RowsOK
  PROVE  /\ IsFiniteSet(Decided) /\ Cardinality(Decided) \in Nat
         /\ IsFiniteSet(HandedOver) /\ Cardinality(HandedOver) \in Nat
<1>1. Decided \in SUBSET DOMAIN orders /\ HandedOver \in SUBSET DOMAIN orders
  BY DEF Decided, HandedOver
<1> QED
  BY <1>1, FS_Subset, FS_CardinalityType DEF RowsOK

\* At most one element joins a finite set.
LEMMA AtMostOneMore ==
  ASSUME NEW S, IsFiniteSet(S), NEW x, NEW T, T \subseteq S \cup {x}
  PROVE  Cardinality(T) \in Nat /\ Cardinality(T) <= Cardinality(S) + 1
<1>1. /\ IsFiniteSet(S \cup {x})
      /\ Cardinality(S \cup {x}) = IF x \in S THEN Cardinality(S) ELSE Cardinality(S) + 1
  BY FS_AddElement
<1>2. IsFiniteSet(T) /\ Cardinality(T) <= Cardinality(S \cup {x})
  BY <1>1, FS_Subset
<1> QED
  BY <1>1, <1>2, FS_CardinalityType

\* A commit that decides on or hands over at most order o, and has a row for it.
LEMMA RowsMove ==
  ASSUME TypeOK, RowsOK, audit' \in [Reason -> Nat], NEW o,
         DOMAIN orders' = DOMAIN orders,
         audit'["order_created"] = audit["order_created"],
         \/ /\ Decided' = Decided
            /\ audit'["order_approved"] + audit'["order_rejected"]
                 >= audit["order_approved"] + audit["order_rejected"]
         \/ /\ Decided' \subseteq Decided \cup {o}
            /\ audit'["order_approved"] + audit'["order_rejected"]
                 = audit["order_approved"] + audit["order_rejected"] + 1,
         \/ /\ HandedOver' = HandedOver
            /\ audit'["order_collected"] >= audit["order_collected"]
         \/ /\ HandedOver' \subseteq HandedOver \cup {o}
            /\ audit'["order_collected"] = audit["order_collected"] + 1
  PROVE  RowsOK'
<1>0. \A r \in Reason : audit[r] \in Nat /\ audit'[r] \in Nat
  BY DEF TypeOK
<1>1. audit'["order_approved"] + audit'["order_rejected"] >= Cardinality(Decided')
  <2>1. audit["order_approved"] + audit["order_rejected"] >= Cardinality(Decided)
    BY DEF RowsOK
  <2>2. CASE Decided' = Decided
    BY <1>0, <2>1, <2>2, RowsFinite
  <2>3. CASE Decided' \subseteq Decided \cup {o}
    <3>1. /\ Cardinality(Decided') \in Nat /\ Cardinality(Decided) \in Nat
          /\ Cardinality(Decided') <= Cardinality(Decided) + 1
      BY <2>3, RowsFinite, AtMostOneMore
    <3> QED
      BY <1>0, <2>1, <2>2, <3>1
  <2> QED
    BY <2>2, <2>3
<1>2. audit'["order_collected"] >= Cardinality(HandedOver')
  <2>1. audit["order_collected"] >= Cardinality(HandedOver)
    BY DEF RowsOK
  <2>2. CASE HandedOver' = HandedOver
    BY <1>0, <2>1, <2>2, RowsFinite
  <2>3. CASE HandedOver' \subseteq HandedOver \cup {o}
    <3>1. /\ Cardinality(HandedOver') \in Nat /\ Cardinality(HandedOver) \in Nat
          /\ Cardinality(HandedOver') <= Cardinality(HandedOver) + 1
      BY <2>3, RowsFinite, AtMostOneMore
    <3> QED
      BY <1>0, <2>1, <2>2, <3>1
  <2> QED
    BY <2>2, <2>3
<1> QED
  BY <1>1, <1>2 DEF RowsOK

LEMMA CommitCreateAccounted ==
  ASSUME Known, Accounted, NEW w \in Worker, CommitCreate(w)
  PROVE  Accounted'
<1>1. CommitWork(w, "order_created")
  BY DEF CommitCreate
<1>2. TypeOK /\ audit \in [Reason -> Nat] /\ PersistEvent("order_created")
  BY <1>1 DEF Known, TypeOK, CommitWork
<1>3. LinesOK'
  BY <1>1, <1>2, CommitLines DEF Accounted
<1>4. PICK u \in Create : u = task[w].work /\ WorkKnown(u)
  BY <1>1, KnownWork, WorkType DEF CommitWork
<1>5. PICK row \in Order : row = u.draft
  BY DEF Create
<1>6. row.approved_by = None /\ row.collected_at = None
  BY <1>4, <1>5 DEF WorkKnown, Create
<1>7. PICK o \in OrderId \ DOMAIN orders : orders' = Insert(orders, o, row)
  BY <1>4, <1>5 DEF CommitCreate
<1>8. /\ DOMAIN orders' = DOMAIN orders \cup {o}
      /\ \A x \in DOMAIN orders : x # o /\ orders'[x] = orders[x]
      /\ orders'[o] = row
  BY <1>7 DEF Insert, Known, TypeOK
<1>9. Decided' = Decided /\ HandedOver' = HandedOver
  BY <1>6, <1>8 DEF Decided, HandedOver
<1>10. /\ audit'["order_created"] = audit["order_created"] + 1
       /\ audit'["order_approved"] = audit["order_approved"]
       /\ audit'["order_rejected"] = audit["order_rejected"]
       /\ audit'["order_collected"] = audit["order_collected"]
  BY <1>2, PersistEventOne
<1>11. RowsOK'
  <2>1. IsFiniteSet(DOMAIN orders) /\ o \notin DOMAIN orders
    BY DEF Accounted, RowsOK
  <2>2. /\ IsFiniteSet(DOMAIN orders \cup {o})
        /\ Cardinality(DOMAIN orders \cup {o}) = Cardinality(DOMAIN orders) + 1
    BY <2>1, FS_AddElement
  <2> QED
    BY <1>2, <1>8, <1>9, <1>10, <2>2 DEF Accounted, RowsOK
<1> QED
  BY <1>3, <1>11 DEF Accounted

\* A decision, whichever: one row more, at most one decided order more.
LEMMA DecisionAccounted ==
  ASSUME Known, Accounted, NEW w \in Worker,
         CommitApprove(w) \/ CommitReject(w)
  PROVE  Accounted'
<1>1. PICK reason \in {"order_approved", "order_rejected"} : CommitWork(w, reason)
  BY DEF CommitApprove, CommitReject
<1>2. TypeOK /\ audit \in [Reason -> Nat] /\ PersistEvent(reason)
  BY <1>1 DEF Known, TypeOK, CommitWork
<1>3. LinesOK'
  BY <1>1, <1>2, CommitLines DEF Accounted
<1>4. PICK u \in Approve \cup Reject, o \in DOMAIN orders : u = task[w].work /\ o = u.order
  BY <1>1, KnownWork, WorkType DEF CommitWork, WorkKnown
<1>5. PICK a \in Account : a = u.actor
  BY DEF Approve, Reject
<1>6. PICK s \in OrderState :
        orders' = [orders EXCEPT ![o].state = s, ![o].approved_by = a]
  BY <1>4, <1>5 DEF CommitApprove, CommitReject, OrderState
<1>7. /\ DOMAIN orders' = DOMAIN orders
      /\ \A x \in DOMAIN orders :
           /\ orders'[x].collected_at = orders[x].collected_at
           /\ x # o => orders'[x] = orders[x]
  BY <1>2, <1>6, DecidedOrders
<1>8. Decided' \subseteq Decided \cup {o} /\ HandedOver' = HandedOver
  BY <1>7 DEF Decided, HandedOver
<1>9. /\ audit'["order_created"] = audit["order_created"]
      /\ audit'["order_approved"] + audit'["order_rejected"]
           = audit["order_approved"] + audit["order_rejected"] + 1
      /\ audit'["order_collected"] = audit["order_collected"]
  BY <1>1, <1>2, PersistEventOne
<1>10. audit' \in [Reason -> Nat] /\ \A r \in Reason : audit[r] \in Nat
  BY <1>1, <1>2, KnownWork
<1>11. RowsOK'
  <2>1. audit'["order_collected"] >= audit["order_collected"]
    BY <1>9, <1>10
  <2> QED
    BY <1>2, <1>7, <1>8, <1>9, <1>10, <2>1, RowsMove DEF Accounted
<1> QED
  BY <1>3, <1>11 DEF Accounted

LEMMA CommitCollectAccounted ==
  ASSUME Known, Accounted, NEW w \in Worker, CommitCollect(w)
  PROVE  Accounted'
<1>1. CommitWork(w, "order_collected")
  BY DEF CommitCollect
<1>2. TypeOK /\ audit \in [Reason -> Nat] /\ PersistEvent("order_collected")
  BY <1>1 DEF Known, TypeOK, CommitWork
<1>3. LinesOK'
  BY <1>1, <1>2, CommitLines DEF Accounted
<1>4. PICK u \in Collect, o \in DOMAIN orders : u = task[w].work /\ o = u.order
  BY <1>1, KnownWork, WorkType DEF CommitWork, WorkKnown
<1>5. PICK at : orders' = [orders EXCEPT ![o].state = "collected", ![o].collected_at = at]
  BY <1>4 DEF CommitCollect
<1>6. /\ DOMAIN orders' = DOMAIN orders
      /\ \A x \in DOMAIN orders :
           /\ orders'[x].approved_by = orders[x].approved_by
           /\ x # o => orders'[x] = orders[x]
  <2>1. orders \in [DOMAIN orders -> Order]
    BY <1>2 DEF TypeOK
  <2> QED
    BY <1>5, <2>1 DEF Order
<1>7. Decided' = Decided /\ HandedOver' \subseteq HandedOver \cup {o}
  BY <1>6 DEF Decided, HandedOver
<1>8. /\ audit'["order_created"] = audit["order_created"]
      /\ audit'["order_approved"] = audit["order_approved"]
      /\ audit'["order_rejected"] = audit["order_rejected"]
      /\ audit'["order_collected"] = audit["order_collected"] + 1
  BY <1>2, PersistEventOne
<1>9. RowsOK'
  BY <1>1, <1>2, <1>6, <1>7, <1>8, KnownWork, RowsMove DEF Accounted
<1> QED
  BY <1>3, <1>9 DEF Accounted

LEMMA CommitRefuseAccounted ==
  ASSUME Known, Accounted, NEW w \in Worker, CommitRefuse(w)
  PROVE  Accounted'
<1>1. CommitWork(w, "pickup_refused") /\ UNCHANGED orders
  BY DEF CommitRefuse
<1>2. TypeOK /\ PersistEvent("pickup_refused")
  BY <1>1 DEF Known, CommitWork
<1>3. LinesOK'
  BY <1>1, <1>2, CommitLines DEF Accounted
<1>4. \A r \in Reason \ {"pickup_refused"} : audit'[r] = audit[r]
  BY <1>2, PersistEventOne
<1>5. RowsOK'
  BY <1>1, <1>4 DEF Accounted, RowsOK, Decided, HandedOver
<1> QED
  BY <1>3, <1>5 DEF Accounted

-----------------------------------------------------------------------------
-----------------------------------------------------------------------------
(* Sums over finite sets.  SumFunctionOnSet takes the elements one by one   *)
(* and any of them next; the table of all partial sums solves IsSum.        *)

Any(S) == CHOOSE x \in S : TRUE

IsSum(g, v, S) ==
  g = [T \in SUBSET S |-> IF T = {} THEN 0 ELSE v[Any(T)] + g[T \ {Any(T)}]]

\* The table is right for the sets of up to n elements.
SumUpTo(g, v, S, n) ==
  \A T \in SUBSET S :
    Cardinality(T) <= n =>
      g[T] = IF T = {} THEN 0 ELSE v[Any(T)] + g[T \ {Any(T)}]

\* Induction over the natural numbers, for a set of them.
LEMMA SetInduction ==
  ASSUME NEW N, 0 \in N, \A n \in Nat : n \in N => n + 1 \in N
  PROVE  Nat \subseteq N
<1> SUFFICES ASSUME Nat \ N # {} PROVE FALSE
  OBVIOUS
<1>1. PICK m \in Nat \ N : \A n \in Nat \ N : ~ (<<n, m>> \in OpToRel(<, Nat))
  <2>1. Nat \ N \subseteq Nat
    OBVIOUS
  <2> QED
    BY <2>1, NatLessThanWellFounded, WFMin
<1>2. m # 0 /\ m - 1 \in Nat /\ m - 1 < m
  OBVIOUS
<1>3. <<m - 1, m>> \in OpToRel(<, Nat)
  BY <1>2 DEF OpToRel
<1>4. m - 1 \in N
  BY <1>1, <1>2, <1>3, Zenon
<1>5. (m - 1) + 1 \in N
  BY <1>2, <1>4
<1> QED
  BY <1>5

LEMMA SumIsChosen ==
  ASSUME NEW v, NEW S
  PROVE  SumFunctionOnSet(v, S) = (CHOOSE g : IsSum(g, v, S))[S]
BY DEF SumFunctionOnSet, FoldFunctionOnSet, MapThenFoldSet, IsSum, Any

\* Taking any element out of a subset of a finite set.
LEMMA AnyOut ==
  ASSUME NEW S, IsFiniteSet(S), NEW T \in SUBSET S, T # {}
  PROVE  /\ Any(T) \in T /\ Any(T) \in S
         /\ T \ {Any(T)} \in SUBSET S
         /\ IsFiniteSet(T) /\ Cardinality(T) \in Nat
         /\ Cardinality(T \ {Any(T)}) = Cardinality(T) - 1
<1>1. Any(T) \in T
  BY DEF Any
<1>2. IsFiniteSet(T) /\ Cardinality(T) \in Nat
  BY FS_Subset, FS_CardinalityType
<1> QED
  BY <1>1, <1>2, FS_RemoveElement

\* There is such a table, with values in any set that sums do not leave.
LEMMA SumExists ==
  ASSUME NEW S, IsFiniteSet(S), NEW V, 0 \in V, \A a, b \in V : a + b \in V,
         NEW v, \A x \in S : v[x] \in V
  PROVE  \E g \in [SUBSET S -> V] : IsSum(g, v, S)
<1> DEFINE N == {n \in Nat : \E g \in [SUBSET S -> V] : SumUpTo(g, v, S, n)}
<1>0. \A T \in SUBSET S : /\ IsFiniteSet(T) /\ Cardinality(T) \in Nat
                          /\ Cardinality(T) <= Cardinality(S)
  BY FS_Subset, FS_CardinalityType
<1>1. 0 \in N
  <2> DEFINE g == [T \in SUBSET S |-> 0]
  <2>1. g \in [SUBSET S -> V]
    OBVIOUS
  <2>2. \A T \in SUBSET S : Cardinality(T) <= 0 => T = {}
    BY <1>0, FS_EmptySet
  <2>3. SumUpTo(g, v, S, 0)
    BY <2>2 DEF SumUpTo
  <2> QED
    BY <2>1, <2>3
<1>2. ASSUME NEW n \in Nat, n \in N PROVE n + 1 \in N
  <2>1. PICK g \in [SUBSET S -> V] : SumUpTo(g, v, S, n)
    BY <1>2
  <2> DEFINE h == [T \in SUBSET S |->
       IF Cardinality(T) <= n THEN g[T] ELSE v[Any(T)] + g[T \ {Any(T)}]]
  <2>2. Cardinality({}) <= n
    BY FS_EmptySet
  <2>3. h \in [SUBSET S -> V]
    <3> SUFFICES ASSUME NEW T \in SUBSET S, ~ (Cardinality(T) <= n)
                 PROVE  v[Any(T)] + g[T \ {Any(T)}] \in V
      OBVIOUS
    <3>1. T # {}
      BY <2>2
    <3>2. v[Any(T)] \in V /\ g[T \ {Any(T)}] \in V
      BY <3>1, AnyOut
    <3> QED
      BY <3>2
  <2>4. SumUpTo(h, v, S, n + 1)
    <3> SUFFICES ASSUME NEW T \in SUBSET S, Cardinality(T) <= n + 1
                 PROVE  h[T] = IF T = {} THEN 0 ELSE v[Any(T)] + h[T \ {Any(T)}]
      BY DEF SumUpTo
    <3>1. CASE T = {}
      <4>1. h[T] = g[T] /\ g[T] = 0
        BY <2>1, <2>2, <3>1 DEF SumUpTo
      <4> QED
        BY <3>1, <4>1
    <3>2. CASE T # {}
      <4>1. h[T \ {Any(T)}] = g[T \ {Any(T)}]
        BY <3>2, AnyOut
      <4>2. h[T] = v[Any(T)] + g[T \ {Any(T)}]
        BY <2>1, <3>2 DEF SumUpTo
      <4> QED
        BY <3>2, <4>1, <4>2
    <3> QED
      BY <3>1, <3>2
  <2> HIDE DEF h
  <2> QED
    BY <2>3, <2>4
<1>3. Cardinality(S) \in N
  <2> HIDE DEF N
  <2> QED
    BY <1>0, <1>1, <1>2, SetInduction
<1>4. PICK g \in [SUBSET S -> V] : SumUpTo(g, v, S, Cardinality(S))
  BY <1>3
<1>5. \A T \in SUBSET S : g[T] = IF T = {} THEN 0 ELSE v[Any(T)] + g[T \ {Any(T)}]
  BY <1>0, <1>4 DEF SumUpTo
<1> QED
  BY <1>5 DEF IsSum

\* Two tables agree wherever both are right.
LEMMA SumUnique ==
  ASSUME NEW R, NEW S, IsFiniteSet(R), R \subseteq S, NEW v,
         NEW g, IsSum(g, v, R), NEW h, IsSum(h, v, S)
  PROVE  g[R] = h[R]
<1> DEFINE N == {n \in Nat : \A T \in SUBSET R : Cardinality(T) <= n => g[T] = h[T]}
<1>0. \A T \in SUBSET R : /\ g[T] = IF T = {} THEN 0 ELSE v[Any(T)] + g[T \ {Any(T)}]
                          /\ h[T] = IF T = {} THEN 0 ELSE v[Any(T)] + h[T \ {Any(T)}]
  BY DEF IsSum
<1>1. 0 \in N
  <2>1. \A T \in SUBSET R : Cardinality(T) <= 0 => T = {}
    BY FS_Subset, FS_CardinalityType, FS_EmptySet
  <2> QED
    BY <1>0, <2>1
<1>2. ASSUME NEW n \in Nat, n \in N PROVE n + 1 \in N
  <2> SUFFICES ASSUME NEW T \in SUBSET R, Cardinality(T) <= n + 1
               PROVE  g[T] = h[T]
    OBVIOUS
  <2>1. CASE T = {}
    BY <1>0, <2>1
  <2>2. CASE T # {}
    <3>1. g[T \ {Any(T)}] = h[T \ {Any(T)}]
      BY <1>2, <2>2, AnyOut
    <3> QED
      BY <1>0, <2>2, <3>1
  <2> QED
    BY <2>1, <2>2
<1>3. Cardinality(R) \in Nat
  BY FS_CardinalityType
<1>4. Cardinality(R) \in N
  <2> HIDE DEF N
  <2> QED
    BY <1>1, <1>2, <1>3, SetInduction
<1> QED
  BY <1>3, <1>4

\* The sum is the table's entry, for every table that is right.
LEMMA SumIsTable ==
  ASSUME NEW S, IsFiniteSet(S), NEW R \in SUBSET S, NEW v, NEW h, IsSum(h, v, S),
         \A x \in S : v[x] \in Int
  PROVE  SumFunctionOnSet(v, R) = h[R]
<1>1. IsFiniteSet(R) /\ \A x \in R : v[x] \in Int
  BY FS_Subset
<1>2. \E g : IsSum(g, v, R)
  <2>1. 0 \in Int /\ \A a, b \in Int : a + b \in Int
    OBVIOUS
  <2> QED
    BY <1>1, <2>1, SumExists
<1>3. IsSum(CHOOSE g : IsSum(g, v, R), v, R)
  BY <1>2
<1> DEFINE g == CHOOSE g : IsSum(g, v, R)
<1>4. IsSum(g, v, R) /\ SumFunctionOnSet(v, R) = g[R]
  BY <1>3, SumIsChosen
<1> HIDE DEF g
<1> QED
  BY <1>1, <1>4, SumUnique

\* A sum of members of V, a set of integers closed under addition, is one.
LEMMA SumType ==
  ASSUME NEW S, IsFiniteSet(S), NEW V, V \subseteq Int, 0 \in V,
         \A a, b \in V : a + b \in V, NEW v, \A x \in S : v[x] \in V
  PROVE  SumFunctionOnSet(v, S) \in V
<1>1. PICK g \in [SUBSET S -> V] : IsSum(g, v, S)
  BY SumExists
<1>2. SumFunctionOnSet(v, S) = g[S]
  <2>1. S \in SUBSET S /\ \A x \in S : v[x] \in Int
    OBVIOUS
  <2> QED
    BY <1>1, <2>1, SumIsTable
<1> QED
  BY <1>1, <1>2

LEMMA SumNat ==
  ASSUME NEW S, IsFiniteSet(S), NEW v, \A x \in S : v[x] \in Nat
  PROVE  SumFunctionOnSet(v, S) \in Nat
<1>1. Nat \subseteq Int /\ 0 \in Nat /\ \A a, b \in Nat : a + b \in Nat
  OBVIOUS
<1> QED
  BY <1>1, SumType

\* Any element may be taken first.
LEMMA SumTake ==
  ASSUME NEW S, IsFiniteSet(S), NEW v, \A x \in S : v[x] \in Int, NEW e \in S
  PROVE  SumFunctionOnSet(v, S) = v[e] + SumFunctionOnSet(v, S \ {e})
<1>1. PICK g \in [SUBSET S -> Int] : IsSum(g, v, S)
  <2>1. 0 \in Int /\ \A a, b \in Int : a + b \in Int
    OBVIOUS
  <2> QED
    BY <2>1, SumExists
<1>2. \A T \in SUBSET S : T # {} => g[T] = v[Any(T)] + g[T \ {Any(T)}]
  BY <1>1 DEF IsSum
<1> DEFINE N == {n \in Nat : \A T \in SUBSET S : Cardinality(T) <= n =>
                                \A x \in T : g[T] = v[x] + g[T \ {x}]}
<1>3. 0 \in N
  <2>1. \A T \in SUBSET S : Cardinality(T) <= 0 => T = {}
    BY FS_Subset, FS_CardinalityType, FS_EmptySet
  <2> QED
    BY <2>1
<1>4. ASSUME NEW n \in Nat, n \in N PROVE n + 1 \in N
  <2> SUFFICES ASSUME NEW T \in SUBSET S, Cardinality(T) <= n + 1, NEW x \in T, x # Any(T)
               PROVE  g[T] = v[x] + g[T \ {x}]
    BY <1>2
  <2> DEFINE y == Any(T)
             U == T \ {x, y}
  <2>1. /\ y \in T /\ IsFiniteSet(T) /\ Cardinality(T) \in Nat
        /\ T \ {y} \in SUBSET S /\ T \ {x} \in SUBSET S /\ U \in SUBSET S
        /\ Cardinality(T \ {y}) <= n /\ Cardinality(T \ {x}) <= n
    <3>1. /\ y \in T /\ IsFiniteSet(T) /\ Cardinality(T) \in Nat
          /\ Cardinality(T \ {y}) = Cardinality(T) - 1
      BY AnyOut
    <3>2. Cardinality(T \ {x}) = Cardinality(T) - 1
      BY <3>1, FS_RemoveElement
    <3> QED
      BY <3>1, <3>2
  <2>2. /\ x \in T \ {y} /\ (T \ {y}) \ {x} = U
        /\ y \in T \ {x} /\ (T \ {x}) \ {y} = U
    BY <2>1
  <2>3. g[T] = v[y] + g[T \ {y}]
    BY <1>2
  <2>4. g[T \ {y}] = v[x] + g[U] /\ g[T \ {x}] = v[y] + g[U]
    BY <1>4, <2>1, <2>2
  <2>5. g[U] \in Int /\ v[x] \in Int /\ v[y] \in Int
    BY <2>1
  <2> HIDE DEF y, U
  <2> QED
    BY <2>3, <2>4, <2>5
<1>5. Cardinality(S) \in Nat
  BY FS_CardinalityType
<1>6. Cardinality(S) \in N
  <2> HIDE DEF N
  <2> QED
    BY <1>3, <1>4, <1>5, SetInduction
<1>7. g[S] = v[e] + g[S \ {e}]
  BY <1>5, <1>6
<1> QED
  BY <1>1, <1>7, SumIsTable

\* A sum depends on the values it adds, and on nothing else.
LEMMA SumSame ==
  ASSUME NEW S, IsFiniteSet(S), NEW v, NEW u, \A x \in S : v[x] \in Int /\ u[x] = v[x]
  PROVE  SumFunctionOnSet(u, S) = SumFunctionOnSet(v, S)
<1>1. PICK g : IsSum(g, v, S)
  <2>1. 0 \in Int /\ \A a, b \in Int : a + b \in Int
    OBVIOUS
  <2> QED
    BY <2>1, SumExists
<1>2. \A T \in SUBSET S : T # {} => v[Any(T)] = u[Any(T)]
  BY AnyOut
<1>3. IsSum(g, u, S)
  BY <1>1, <1>2 DEF IsSum
<1> QED
  BY <1>1, <1>3, SumIsTable

\* Nothing but zeroes adds up to zero.
LEMMA SumZero ==
  ASSUME NEW S, IsFiniteSet(S), NEW v, \A x \in S : v[x] = 0
  PROVE  SumFunctionOnSet(v, S) = 0
<1> DEFINE Z == {0}
<1>1. Z \subseteq Int /\ 0 \in Z /\ \A a, b \in Z : a + b \in Z
  OBVIOUS
<1>2. \A x \in S : v[x] \in Z
  OBVIOUS
<1>3. SumFunctionOnSet(v, S) \in Z
  <2> HIDE DEF Z
  <2> QED
    BY <1>1, <1>2, SumType
<1> QED
  BY <1>3

-----------------------------------------------------------------------------
(* What was handed out of a part. *)

LEMMA PiecesType ==
  ASSUME TypeOK
  PROVE  \A o \in DOMAIN orders :
           /\ orders[o].part \in Part /\ orders[o].quantity \in Nat \ {0}
           /\ handed[o] \in Nat
           /\ Pieces[o] = handed[o] * orders[o].quantity /\ Pieces[o] \in Nat
<1> SUFFICES ASSUME NEW o \in DOMAIN orders
             PROVE  /\ orders[o].part \in Part /\ orders[o].quantity \in Nat \ {0}
                    /\ handed[o] \in Nat
                    /\ Pieces[o] = handed[o] * orders[o].quantity /\ Pieces[o] \in Nat
  OBVIOUS
<1>1. /\ orders[o].part \in Part /\ orders[o].quantity \in Nat \ {0}
      /\ handed[o] \in Nat
  BY DEF TypeOK, Order
<1>2. \A m, n \in Nat : m * n \in Nat
  OBVIOUS
<1>3. handed[o] * orders[o].quantity \in Nat
  BY <1>1, <1>2
<1> QED
  BY <1>1, <1>3 DEF Pieces

LEMMA HandedOutType ==
  ASSUME TypeOK, IsFiniteSet(DOMAIN orders), NEW p
  PROVE  /\ IsFiniteSet(OrdersOf(p)) /\ OrdersOf(p) \subseteq DOMAIN orders
         /\ \A o \in OrdersOf(p) : Pieces[o] \in Nat /\ Pieces[o] \in Int
         /\ HandedOut(p) \in Nat
<1>1. OrdersOf(p) \subseteq DOMAIN orders
  BY DEF OrdersOf
<1>2. IsFiniteSet(OrdersOf(p)) /\ \A o \in OrdersOf(p) : Pieces[o] \in Nat
  BY <1>1, PiecesType, FS_Subset
<1> QED
  BY <1>1, <1>2, SumNat DEF HandedOut

\* Changes to other columns of the orders change nothing.
LEMMA HandedOutSame ==
  ASSUME TypeOK, IsFiniteSet(DOMAIN orders), DOMAIN orders' = DOMAIN orders,
         \A o \in DOMAIN orders : /\ orders'[o].part = orders[o].part
                                  /\ orders'[o].quantity = orders[o].quantity
                                  /\ handed'[o] = handed[o],
         NEW p
  PROVE  HandedOut(p)' = HandedOut(p)
<1>1. OrdersOf(p)' = OrdersOf(p)
  BY DEF OrdersOf
<1>2. \A o \in OrdersOf(p) : Pieces[o] \in Int /\ Pieces'[o] = Pieces[o]
  <2>1. \A o \in DOMAIN orders : Pieces'[o] = Pieces[o]
    BY DEF Pieces
  <2> QED
    BY <2>1, HandedOutType
<1>3. SumFunctionOnSet(Pieces', OrdersOf(p)) = SumFunctionOnSet(Pieces, OrdersOf(p))
  BY <1>2, HandedOutType, SumSame
<1> QED
  BY <1>1, <1>3 DEF HandedOut

\* A new order has handed out nothing yet.
LEMMA HandedOutNew ==
  ASSUME TypeOK, IsFiniteSet(DOMAIN orders), NEW o, o \notin DOMAIN orders,
         DOMAIN orders' = DOMAIN orders \cup {o}, UNCHANGED handed, handed[o] = 0,
         orders'[o].quantity \in Nat,
         \A x \in DOMAIN orders : orders'[x] = orders[x],
         NEW p
  PROVE  HandedOut(p)' = HandedOut(p)
<1>1. Pieces'[o] = 0 /\ \A x \in DOMAIN orders : Pieces'[x] = Pieces[x]
  BY DEF Pieces
<1>2. /\ \A x \in OrdersOf(p) : Pieces[x] \in Int /\ Pieces'[x] = Pieces[x]
      /\ o \notin OrdersOf(p)
  BY <1>1, HandedOutType
<1>3. SumFunctionOnSet(Pieces', OrdersOf(p)) = HandedOut(p)
  BY <1>2, HandedOutType, SumSame DEF HandedOut
<1>4. CASE orders'[o].part # p
  <2>1. OrdersOf(p)' = OrdersOf(p)
    BY <1>4 DEF OrdersOf
  <2> QED
    BY <1>3, <2>1 DEF HandedOut
<1>5. CASE orders'[o].part = p
  <2>1. OrdersOf(p)' = OrdersOf(p) \cup {o}
    BY <1>5 DEF OrdersOf
  <2> DEFINE S == OrdersOf(p) \cup {o}
  <2>2. IsFiniteSet(S) /\ \A x \in S : Pieces'[x] \in Int
    BY <1>1, <1>2, HandedOutType, FS_AddElement
  <2>3. o \in S /\ S \ {o} = OrdersOf(p)
    BY <1>2
  <2> HIDE DEF S
  <2>4. SumFunctionOnSet(Pieces', S) = Pieces'[o] + SumFunctionOnSet(Pieces', S \ {o})
    BY <2>2, <2>3, SumTake
  <2>5. SumFunctionOnSet(Pieces', S) = HandedOut(p)
    BY <1>1, <1>3, <2>3, <2>4, HandedOutType
  <2> QED
    BY <2>1, <2>5 DEF HandedOut, S
<1> QED
  BY <1>4, <1>5

\* Handing out order o counts its quantity, for its part.
LEMMA HandedOutMore ==
  ASSUME TypeOK, IsFiniteSet(DOMAIN orders), NEW o \in DOMAIN orders,
         DOMAIN orders' = DOMAIN orders,
         \A x \in DOMAIN orders : /\ orders'[x].part = orders[x].part
                                  /\ orders'[x].quantity = orders[x].quantity
                                  /\ handed'[x] = IF x = o THEN handed[x] + 1 ELSE handed[x],
         NEW p
  PROVE  HandedOut(p)' = IF p = orders[o].part THEN HandedOut(p) + orders[o].quantity
                         ELSE HandedOut(p)
<1>1. OrdersOf(p)' = OrdersOf(p)
  BY DEF OrdersOf
<1>2. Pieces'[o] = Pieces[o] + orders[o].quantity
  <2>1. Pieces'[o] = (handed[o] + 1) * orders[o].quantity
    BY DEF Pieces
  <2>2. \A m, n \in Nat : (m + 1) * n = m * n + n
    OBVIOUS
  <2>3. /\ handed[o] \in Nat /\ orders[o].quantity \in Nat
        /\ Pieces[o] = handed[o] * orders[o].quantity
    BY PiecesType
  <2>4. (handed[o] + 1) * orders[o].quantity
          = handed[o] * orders[o].quantity + orders[o].quantity
    BY <2>2, <2>3
  <2> QED
    BY <2>1, <2>3, <2>4
<1>3. \A x \in DOMAIN orders \ {o} : Pieces'[x] = Pieces[x]
  BY DEF Pieces
<1>4. CASE p # orders[o].part
  <2>0. o \notin OrdersOf(p)
    BY <1>4 DEF OrdersOf
  <2>1. \A x \in OrdersOf(p) : Pieces[x] \in Int /\ Pieces'[x] = Pieces[x]
    BY <1>3, <2>0, HandedOutType
  <2>2. SumFunctionOnSet(Pieces', OrdersOf(p)) = HandedOut(p)
    BY <2>1, HandedOutType, SumSame DEF HandedOut
  <2> QED
    BY <1>1, <1>4, <2>2 DEF HandedOut
<1>5. CASE p = orders[o].part
  <2> DEFINE S == OrdersOf(p)
  <2>1. /\ o \in S /\ IsFiniteSet(S) /\ IsFiniteSet(S \ {o})
        /\ \A x \in S : Pieces[x] \in Int /\ Pieces'[x] \in Int
        /\ \A x \in S \ {o} : Pieces'[x] = Pieces[x]
    <3>1. o \in S /\ IsFiniteSet(S) /\ \A x \in S : Pieces[x] \in Nat
      BY <1>5, HandedOutType DEF OrdersOf
    <3>2. \A x \in S \ {o} : Pieces'[x] = Pieces[x]
      BY <1>3 DEF OrdersOf
    <3>3. Pieces'[o] \in Int
      BY <1>2, <3>1, PiecesType
    <3> QED
      BY <3>1, <3>2, <3>3, FS_RemoveElement
  <2>2. HandedOut(p) = Pieces[o] + SumFunctionOnSet(Pieces, S \ {o})
    <3> HIDE DEF S
    <3>1. SumFunctionOnSet(Pieces, S) = Pieces[o] + SumFunctionOnSet(Pieces, S \ {o})
      BY <2>1, SumTake
    <3> QED
      BY <3>1 DEF HandedOut, S
  <2>3. HandedOut(p)' = Pieces'[o] + SumFunctionOnSet(Pieces', S \ {o})
    <3> HIDE DEF S
    <3>1. SumFunctionOnSet(Pieces', S) = Pieces'[o] + SumFunctionOnSet(Pieces', S \ {o})
      BY <2>1, SumTake
    <3> QED
      BY <1>1, <3>1 DEF HandedOut, S
  <2>4. SumFunctionOnSet(Pieces', S \ {o}) = SumFunctionOnSet(Pieces, S \ {o})
    <3> HIDE DEF S
    <3> QED
      BY <2>1, SumSame
  <2>5. SumFunctionOnSet(Pieces, S \ {o}) \in Nat
    <3>1. \A x \in S \ {o} : Pieces[x] \in Nat
      BY HandedOutType
    <3> HIDE DEF S
    <3> QED
      BY <2>1, <3>1, SumNat
  <2>6. Pieces[o] \in Nat /\ orders[o].quantity \in Nat
    BY PiecesType
  <2> HIDE DEF S
  <2> QED
    BY <1>2, <1>5, <2>2, <2>3, <2>4, <2>5, <2>6
<1> QED
  BY <1>4, <1>5

-----------------------------------------------------------------------------
(* The shelf counts threads are about to write. *)

\* What every step leaves of the orders there are: what they are for, and what was
\* handed out of their parts.
ShelfGrows ==
  /\ DOMAIN orders \subseteq DOMAIN orders'
  /\ \A o \in DOMAIN orders : /\ orders'[o].part = orders[o].part
                              /\ orders'[o].quantity = orders[o].quantity
  /\ \A p \in Part : HandedOut(p)' \in Nat /\ HandedOut(p)' >= HandedOut(p)

LEMMA ShelfLeftKept ==
  ASSUME TypeOK, IsFiniteSet(DOMAIN orders), ShelfGrows,
         NEW u, u.order \in DOMAIN orders, u.stock \in Int, ShelfLeft(u)
  PROVE  ShelfLeft(u)'
<1>1. PICK o \in DOMAIN orders, p \in Part, q \in Nat :
        /\ o = u.order /\ p = orders[o].part /\ q = orders[o].quantity
        /\ p = orders'[o].part /\ q = orders'[o].quantity
  BY PiecesType DEF ShelfGrows
<1>2. /\ HandedOut(p) \in Nat /\ HandedOut(p)' \in Nat /\ HandedOut(p)' >= HandedOut(p)
      /\ SeedStock[p] \in Nat
  BY <1>1, HandedOutType, TablesAssumption DEF ShelfGrows
<1>3. u.stock <= SeedStock[p] - q /\ u.stock >= SeedStock[p] - HandedOut(p) - q
  BY <1>1 DEF ShelfLeft
<1>4. u.stock >= SeedStock[p] - HandedOut(p)' - q
  BY <1>2, <1>3
<1> QED
  BY <1>1, <1>3, <1>4 DEF ShelfLeft

\* Thread w alone moves, to task t.
LEMMA ShelfMoves ==
  ASSUME Known, StockOK, ShelfGrows, NEW w \in Worker, NEW t,
         task' = [task EXCEPT ![w] = t], ShelfOK(t)'
  PROVE  \A v \in Worker : ShelfOK(task[v])'
<1> SUFFICES ASSUME NEW v \in Worker PROVE ShelfOK(task[v])'
  OBVIOUS
<1>1. CASE v = w
  <2>1. task'[v] = t
    BY <1>1 DEF Known, TypeOK
  <2> QED
    BY <2>1 DEF ShelfOK, ShelfLeft
<1>2. CASE v # w
  <2>1. PICK s \in Task : s = task[v] /\ s = task'[v] /\ ShelfOK(s) /\ TaskKnown(s)
    BY <1>2 DEF Known, TypeOK, StockOK
  <2>2. ASSUME s.pc \in {"flush", "commit"}, s.work.reason = "order_collected"
        PROVE  ShelfLeft(s.work)'
    <3>1. PICK u \in Collect : u = s.work
      BY <2>2, WorkingType, WorkType
    <3>2. u.order \in DOMAIN orders /\ u.stock \in Int /\ ShelfLeft(u)
      BY <2>1, <2>2, <3>1 DEF TaskKnown, WorkKnown, ShelfOK, Collect
    <3>3. ShelfLeft(u)'
      BY <3>2, ShelfLeftKept DEF Known, StockOK
    <3> QED
      BY <3>1, <3>3
  <2> QED
    BY <2>1, <2>2 DEF ShelfOK, ShelfLeft
<1> QED
  BY <1>1, <1>2

\* A step that hands nothing out and leaves the shelf counts alone.
NothingOut ==
  /\ UNCHANGED <<stock, handed>>
  /\ IsFiniteSet(DOMAIN orders')
  /\ DOMAIN orders \subseteq DOMAIN orders'
  /\ \A o \in DOMAIN orders : /\ orders'[o].part = orders[o].part
                              /\ orders'[o].quantity = orders[o].quantity
  /\ \A p : HandedOut(p)' = HandedOut(p) /\ HandedOut(p) \in Nat

LEMMA QuietNothingOut ==
  ASSUME TypeOK, IsFiniteSet(DOMAIN orders), UNCHANGED <<orders, stock, handed>>
  PROVE  NothingOut
<1>1. \A p : HandedOut(p)' = HandedOut(p)
  BY HandedOutSame
<1>2. \A p : HandedOut(p) \in Nat
  BY HandedOutType
<1> QED
  BY <1>1, <1>2 DEF NothingOut

LEMMA NothingOutGrows == ASSUME NothingOut PROVE ShelfGrows
BY DEF NothingOut, ShelfGrows

LEMMA SameStock ==
  ASSUME StockOK, NothingOut, \A w \in Worker : ShelfOK(task[w])'
  PROVE  StockOK'
<1> USE DEF NothingOut
<1>1. \A o \in OrderId \ DOMAIN orders' : handed'[o] = 0
  BY DEF StockOK
<1>2. \A p \in Part : stock'[p] <= SeedStock[p]
  BY DEF StockOK
<1>3. StockNeverOverCounted'
  <2> SUFFICES ASSUME NEW p \in Part
               PROVE  /\ stock'[p] >= SeedStock[p] - HandedOut(p)'
                      /\ HandedOut(p)' > 0 =>
                           \E o \in DOMAIN orders' :
                             /\ orders'[o].part = p
                             /\ handed'[o] > 0
                             /\ stock'[p] <= SeedStock[p] - orders'[o].quantity
    BY DEF StockNeverOverCounted
  <2>1. HandedOut(p)' = HandedOut(p) /\ stock'[p] = stock[p]
    OBVIOUS
  <2>2. stock[p] >= SeedStock[p] - HandedOut(p)
    BY DEF StockOK, StockNeverOverCounted
  <2>3. ASSUME HandedOut(p) > 0
        PROVE  \E o \in DOMAIN orders' :
                 /\ orders'[o].part = p
                 /\ handed'[o] > 0
                 /\ stock'[p] <= SeedStock[p] - orders'[o].quantity
    <3>1. PICK o \in DOMAIN orders : /\ orders[o].part = p
                                     /\ handed[o] > 0
                                     /\ stock[p] <= SeedStock[p] - orders[o].quantity
      BY <2>3 DEF StockOK, StockNeverOverCounted
    <3>2. /\ o \in DOMAIN orders' /\ orders'[o].part = p /\ handed'[o] > 0
          /\ stock'[p] <= SeedStock[p] - orders'[o].quantity
      BY <3>1
    <3> QED
      BY <3>2
  <2> QED
    BY <2>1, <2>2, <2>3
<1> QED
  BY <1>1, <1>2, <1>3 DEF StockOK

\* A step of thread w that writes no table.
LEMMA QuietShelf ==
  ASSUME Known, StockOK, UNCHANGED <<orders, stock, handed>>,
         NEW w \in Worker, NEW t, task' = [task EXCEPT ![w] = t], ShelfOK(t)
  PROVE  StockOK'
<1>1. NothingOut
  BY QuietNothingOut DEF Known, StockOK
<1>2. \A p : HandedOut(p)' = HandedOut(p)
  BY <1>1 DEF NothingOut
<1>3. ShelfOK(t)'
  <2>1. ASSUME t.pc \in {"flush", "commit"}, t.work.reason = "order_collected"
        PROVE  ShelfLeft(t.work)'
    BY <1>2, <2>1 DEF ShelfOK, ShelfLeft
  <2> QED
    BY <2>1 DEF ShelfOK
<1>4. \A v \in Worker : ShelfOK(task[v])'
  BY <1>1, <1>3, NothingOutGrows, ShelfMoves
<1> QED
  BY <1>1, <1>4, SameStock

\* A task that is not about to collect.
LEMMA NotCollecting ==
  ASSUME NEW t, t.pc \notin {"flush", "commit"} \/ t.work.reason # "order_collected"
  PROVE  ShelfOK(t)
BY DEF ShelfOK
-----------------------------------------------------------------------------
(* The requests and the steps before a commit. *)

\* A request's first step that does not collect.
LEMMA StartStock ==
  ASSUME Known, StockOK, NEW w \in Worker, NEW t, Start(w, t),
         UNCHANGED <<tables, handed>>,
         t.pc \notin {"flush", "commit"} \/ t.work.reason # "order_collected"
  PROVE  StockOK'
BY QuietShelf, NotCollecting DEF Start, tables

LEMMA ForbidStock ==
  ASSUME Known, StockOK, NEW w \in Worker, Forbid(w)
  PROVE  StockOK'
<1>1. Idle.pc = "idle"
  BY DEF Idle
<1> QED
  BY <1>1, StartStock DEF Forbid

LEMMA StageStock ==
  ASSUME Known, StockOK, NEW w \in Worker, NEW draft, NEW code, NEW at,
         StageOrder(w, draft, code, at)
  PROVE  StockOK'
BY StartStock DEF StageOrder, tables

LEMMA RequestStock ==
  ASSUME Known, StockOK, NEW w \in Worker, NEW a \in Account, NEW at,
         WorkflowRequest(w, a, at)
  PROVE  StockOK'
<1>1. ASSUME NEW u, Start(w, [pc |-> "flush", work |-> u]), UNCHANGED <<tables, handed>>,
             u.reason # "order_collected"
      PROVE  StockOK'
  BY <1>1, StartStock
<1>2. ASSUME NEW o \in OrderId, ApproveOrder(w, a, o) PROVE StockOK'
  BY <1>1, <1>2 DEF ApproveOrder, tables
<1>3. ASSUME NEW o \in OrderId, RejectOrder(w, a, o) PROVE StockOK'
  BY <1>1, <1>3 DEF RejectOrder, tables
<1>4. ASSUME NEW v \in CodeValue, PresentCode(w, a, v, at) PROVE StockOK'
  BY <1>4, StartStock DEF PresentCode, tables
<1>5. ASSUME NEW v \in CodeValue, PresentBadCode(w, a, v, at) PROVE StockOK'
  BY <1>1, <1>5 DEF PresentBadCode, RefusedPickup, tables
<1> QED
  BY <1>2, <1>3, <1>4, <1>5, ForbidStock DEF WorkflowRequest, DecisionForbidden

\* pickup's read of the part: whatever was handed out since seeding is all that
\* can be missing from the count it reads.
LEMMA ReadPartStock ==
  ASSUME Known, StockOK, NEW w \in Worker, ReadPart(w)
  PROVE  StockOK'
<1>1. task[w] \in Task /\ task[w].pc = "part" /\ TaskKnown(task[w])
  BY DEF ReadPart, Known, TypeOK
<1>2. PICK o \in DOMAIN orders : o = codes[task[w].row].order_id
  BY <1>1 DEF TaskKnown, Known
<1>3. PICK p \in Part, q \in Nat : p = orders[o].part /\ q = orders[o].quantity
  BY PiecesType DEF Known
<1>4. PICK n \in Int : n = stock[p] - q
  BY DEF Known, TypeOK
<1> DEFINE u == [reason |-> "order_collected", order |-> o, row |-> task[w].row,
                 at |-> task[w].at, stock |-> n]
<1>5. task' = [task EXCEPT ![w] = [pc |-> "flush", work |-> u]]
  BY <1>2, <1>3, <1>4 DEF ReadPart
<1>6. ShelfLeft(u)
  <2>1. /\ SeedStock[p] \in Nat /\ stock[p] \in Int /\ HandedOut(p) \in Nat
        /\ stock[p] <= SeedStock[p] /\ stock[p] >= SeedStock[p] - HandedOut(p)
    BY HandedOutType, TablesAssumption
       DEF Known, TypeOK, StockOK, StockNeverOverCounted
  <2>2. n <= SeedStock[p] - q /\ n >= SeedStock[p] - HandedOut(p) - q
    BY <1>4, <2>1
  <2> QED
    BY <1>3, <2>2 DEF ShelfLeft
<1> HIDE DEF u
<1>7. ShelfOK([pc |-> "flush", work |-> u])
  BY <1>6 DEF ShelfOK
<1> QED
  BY <1>5, <1>7, QuietShelf DEF ReadPart, tables

LEMMA ReadStock ==
  ASSUME Known, StockOK, NEW w \in Worker,
         ReadOrder(w) \/ ReadUncollectable(w) \/ ReadPart(w)
  PROVE  StockOK'
<1> USE DEF tables
<1>0. task[w] \in Task
  BY DEF Known, TypeOK
<1>1. CASE ReadOrder(w)
  <2> DEFINE t == [task[w] EXCEPT !.pc = "part"]
  <2>1. task' = [task EXCEPT ![w] = t] /\ UNCHANGED <<orders, stock, handed>>
    BY <1>1 DEF ReadOrder, Known, TypeOK
  <2>2. t.pc = "part"
    BY <1>0, <1>1 DEF ReadOrder, Task
  <2> HIDE DEF t
  <2>3. ShelfOK(t)
    BY <2>2, NotCollecting
  <2> QED
    BY <2>1, <2>3, QuietShelf
<1>2. CASE ReadUncollectable(w)
  <2>1. ShelfOK(RefusedPickup)
    BY NotCollecting DEF RefusedPickup
  <2> QED
    BY <1>2, <2>1, QuietShelf DEF ReadUncollectable
<1> QED
  BY <1>1, <1>2, ReadPartStock

LEMMA FlushStock ==
  ASSUME Known, StockOK, NEW w \in Worker, Flush(w)
  PROVE  StockOK'
<1> DEFINE u == task[w].work
<1>0. /\ task[w] \in Task /\ task[w].pc = "flush" /\ UNCHANGED <<orders, stock, handed>>
      /\ ShelfOK(task[w])
  BY DEF Flush, tables, Known, TypeOK, StockOK
<1>1. CASE u.reason = "order_approved"
  <2>1. PICK at : task' = [task EXCEPT ![w] = [pc |-> "commit",
                     work |-> [u EXCEPT !.at = at, !.issue = ~HasCode(u.order)]]]
    BY <1>1 DEF Flush
  <2> DEFINE t == [pc |-> "commit",
                   work |-> [u EXCEPT !.at = at, !.issue = ~HasCode(u.order)]]
  <2>2. u \in Approve
    BY <1>0, <1>1, WorkingType, WorkType
  <2>3. t.work.reason # "order_collected"
    BY <1>1, <2>2 DEF Approve
  <2>4. task' = [task EXCEPT ![w] = t]
    BY <2>1
  <2> HIDE DEF t
  <2> QED
    BY <1>0, <2>3, <2>4, NotCollecting, QuietShelf
<1>2. CASE u.reason # "order_approved"
  <2> DEFINE t == [task[w] EXCEPT !.pc = "commit"]
  <2>1. task' = [task EXCEPT ![w] = t]
    BY <1>2 DEF Flush, Known, TypeOK
  <2>2. t.pc = "commit" /\ t.work = u
    BY <1>0, WorkingType
  <2> HIDE DEF t
  <2>3. ShelfOK(t)
    BY <1>0, <2>2 DEF ShelfOK
  <2> QED
    BY <1>0, <2>1, <2>3, QuietShelf
<1> QED
  BY <1>1, <1>2

LEMMA RollbackStock ==
  ASSUME Known, StockOK, NEW w \in Worker, Rollback(w)
  PROVE  StockOK'
<1>1. ShelfOK(Idle)
  BY NotCollecting DEF Idle
<1> QED
  BY <1>1, QuietShelf DEF Rollback, tables

\* The other steps that write no table.
LEMMA RestStock ==
  ASSUME Known, StockOK, Crash \/ Tick \/ AtBound \/ UNCHANGED vars
  PROVE  StockOK'
<1>1. UNCHANGED <<orders, stock, handed>>
  BY DEF Crash, Tick, AtBound, vars, tables
<1>2. NothingOut
  BY <1>1, QuietNothingOut DEF Known, StockOK
<1>3. ASSUME NEW w \in Worker PROVE ShelfOK(task[w])'
  <2>1. CASE Crash
    BY <2>1 DEF Crash, Idle, ShelfOK
  <2>2. CASE task' = task
    BY <1>1, <1>2, <2>2 DEF StockOK, ShelfOK, ShelfLeft, NothingOut
  <2> QED
    BY <2>1, <2>2 DEF Tick, AtBound, vars
<1> QED
  BY <1>2, <1>3, SameStock
-----------------------------------------------------------------------------
(* Commits. *)

LEMMA CommitIdleShelf ==
  ASSUME Known, StockOK, ShelfGrows, NEW w \in Worker, NEW r, CommitWork(w, r)
  PROVE  \A v \in Worker : ShelfOK(task[v])'
<1>1. ShelfOK(Idle)'
  BY DEF ShelfOK, Idle
<1>2. task' = [task EXCEPT ![w] = Idle]
  BY DEF CommitWork
<1> QED
  BY <1>1, <1>2, ShelfMoves

LEMMA CreateNothingOut ==
  ASSUME Known, StockOK, NEW w \in Worker, CommitCreate(w)
  PROVE  NothingOut /\ CommitWork(w, "order_created")
<1>1. CommitWork(w, "order_created") /\ UNCHANGED <<stock, handed>>
  BY DEF CommitCreate
<1>2. PICK u \in Create : u = task[w].work
  BY <1>1, KnownWork, WorkType DEF CommitWork
<1>3. PICK row \in Order : row = u.draft
  BY DEF Create
<1>4. PICK o \in OrderId \ DOMAIN orders : orders' = Insert(orders, o, row)
  BY <1>2, <1>3 DEF CommitCreate
<1>5. /\ DOMAIN orders' = DOMAIN orders \cup {o}
      /\ \A x \in DOMAIN orders : x # o /\ orders'[x] = orders[x]
      /\ orders'[o].quantity \in Nat
      /\ handed[o] = 0
  BY <1>3, <1>4 DEF Insert, Known, TypeOK, StockOK, Order
<1>6. IsFiniteSet(DOMAIN orders) /\ IsFiniteSet(DOMAIN orders')
  BY <1>5, FS_AddElement DEF StockOK
<1>7. \A p : HandedOut(p)' = HandedOut(p) /\ HandedOut(p) \in Nat
  BY <1>1, <1>5, <1>6, HandedOutNew, HandedOutType DEF Known
<1> QED
  BY <1>1, <1>5, <1>6, <1>7 DEF NothingOut

LEMMA DecisionNothingOut ==
  ASSUME Known, StockOK, NEW w \in Worker, CommitApprove(w) \/ CommitReject(w)
  PROVE  NothingOut /\ \E r : CommitWork(w, r)
<1>1. PICK r \in {"order_approved", "order_rejected"}, s \in {"approved", "rejected"} :
        /\ CommitWork(w, r)
        /\ UNCHANGED <<stock, handed>>
        /\ orders' = [orders EXCEPT ![task[w].work.order].state = s,
                                    ![task[w].work.order].approved_by = task[w].work.actor]
  BY DEF CommitApprove, CommitReject
<1>2. PICK o \in DOMAIN orders, a \in Account : o = task[w].work.order /\ a = task[w].work.actor
  <2>1. task[w].work \in Approve \cup Reject /\ WorkKnown(task[w].work)
    BY <1>1, KnownWork, WorkType DEF CommitWork
  <2> QED
    BY <1>1, <2>1 DEF CommitWork, WorkKnown, Approve, Reject
<1>3. /\ DOMAIN orders' = DOMAIN orders
      /\ \A x \in DOMAIN orders : /\ orders'[x].part = orders[x].part
                                  /\ orders'[x].quantity = orders[x].quantity
  BY <1>1, <1>2, DecidedOrders DEF Known, OrderState
<1>4. IsFiniteSet(DOMAIN orders)
  BY DEF StockOK
<1>5. \A p : HandedOut(p)' = HandedOut(p) /\ HandedOut(p) \in Nat
  BY <1>1, <1>3, <1>4, HandedOutSame, HandedOutType DEF Known
<1> QED
  BY <1>1, <1>3, <1>4, <1>5 DEF NothingOut

LEMMA RefuseNothingOut ==
  ASSUME Known, StockOK, NEW w \in Worker, CommitRefuse(w)
  PROVE  NothingOut /\ CommitWork(w, "pickup_refused")
BY QuietNothingOut DEF CommitRefuse, Known, StockOK

LEMMA OtherCommitStock ==
  ASSUME Known, StockOK, NEW w \in Worker, NEW r, CommitWork(w, r), NothingOut
  PROVE  StockOK'
BY NothingOutGrows, CommitIdleShelf, SameStock

\* What a collection writes, and hands out.
LEMMA CollectedOrders ==
  ASSUME Known, IsFiniteSet(DOMAIN orders), NEW w \in Worker, CommitCollect(w)
  PROVE  \E o \in DOMAIN orders, p \in Part, q \in Nat, n \in Int :
           /\ o = task[w].work.order /\ n = task[w].work.stock
           /\ p = orders[o].part /\ q = orders[o].quantity
           /\ DOMAIN orders' = DOMAIN orders
           /\ \A x \in DOMAIN orders : /\ orders'[x].part = orders[x].part
                                       /\ orders'[x].quantity = orders[x].quantity
                                       /\ handed[x] \in Nat
                                       /\ handed'[x] = IF x = o THEN handed[x] + 1
                                                       ELSE handed[x]
           /\ \A x \in OrderId \ DOMAIN orders : handed'[x] = handed[x]
           /\ stock' = [stock EXCEPT ![p] = n]
           /\ \A x \in Part : HandedOut(x)' = IF x = p THEN HandedOut(x) + q
                                              ELSE HandedOut(x)
<1>1. CommitWork(w, "order_collected")
  BY DEF CommitCollect
<1>2. PICK u \in Collect : u = task[w].work /\ WorkKnown(u)
  BY <1>1, KnownWork, WorkType DEF CommitWork
<1>3. PICK o \in DOMAIN orders, n \in Int : o = u.order /\ n = u.stock
  BY <1>2 DEF WorkKnown, Collect
<1>4. PICK p \in Part, q \in Nat : p = orders[o].part /\ q = orders[o].quantity
  BY PiecesType DEF Known
<1>5. /\ orders' = [orders EXCEPT ![o].state = "collected", ![o].collected_at = u.at]
      /\ handed' = [handed EXCEPT ![o] = @ + 1]
      /\ stock' = [stock EXCEPT ![p] = n]
  BY <1>2, <1>3, <1>4 DEF CommitCollect
<1>6. /\ DOMAIN orders' = DOMAIN orders
      /\ \A x \in DOMAIN orders : /\ orders'[x].part = orders[x].part
                                  /\ orders'[x].quantity = orders[x].quantity
  BY <1>5 DEF Known, TypeOK, Order
<1>7. \A x \in OrderId : /\ handed[x] \in Nat
                         /\ handed'[x] = IF x = o THEN handed[x] + 1 ELSE handed[x]
  BY <1>5 DEF Known, TypeOK
<1>8. DOMAIN orders \subseteq OrderId
  BY DEF Known, TypeOK
<1>9. ASSUME NEW x \in Part
      PROVE  HandedOut(x)' = IF x = p THEN HandedOut(x) + q ELSE HandedOut(x)
  <2>1. \A y \in DOMAIN orders : handed'[y] = IF y = o THEN handed[y] + 1 ELSE handed[y]
    BY <1>7, <1>8
  <2> QED
    BY <1>4, <1>6, <2>1, HandedOutMore DEF Known
<1>10. /\ o = task[w].work.order /\ n = task[w].work.stock
       /\ p = orders[o].part /\ q = orders[o].quantity
       /\ DOMAIN orders' = DOMAIN orders
       /\ \A x \in DOMAIN orders : /\ orders'[x].part = orders[x].part
                                   /\ orders'[x].quantity = orders[x].quantity
                                   /\ handed[x] \in Nat
                                   /\ handed'[x] = IF x = o THEN handed[x] + 1
                                                   ELSE handed[x]
       /\ \A x \in OrderId \ DOMAIN orders : handed'[x] = handed[x]
       /\ stock' = [stock EXCEPT ![p] = n]
       /\ \A x \in Part : HandedOut(x)' = IF x = p THEN HandedOut(x) + q
                                          ELSE HandedOut(x)
  <2>1. o = task[w].work.order /\ n = task[w].work.stock
    BY <1>2, <1>3
  <2>2. \A x \in DOMAIN orders : /\ handed[x] \in Nat
                                 /\ handed'[x] = IF x = o THEN handed[x] + 1
                                                 ELSE handed[x]
    BY <1>7, <1>8
  <2>3. \A x \in OrderId \ DOMAIN orders : handed'[x] = handed[x]
    BY <1>7
  <2> QED
    BY <1>4, <1>5, <1>6, <1>9, <2>1, <2>2, <2>3
<1> QED
  BY <1>10

LEMMA CommitCollectStock ==
  ASSUME Known, StockOK, NEW w \in Worker, CommitCollect(w)
  PROVE  StockOK'
<1>1. CommitWork(w, "order_collected") /\ IsFiniteSet(DOMAIN orders)
  BY DEF CommitCollect, StockOK
<1>2. PICK o \in DOMAIN orders, p \in Part, q \in Nat, n \in Int :
        /\ o = task[w].work.order /\ n = task[w].work.stock
        /\ p = orders[o].part /\ q = orders[o].quantity
        /\ DOMAIN orders' = DOMAIN orders
        /\ \A x \in DOMAIN orders : /\ orders'[x].part = orders[x].part
                                    /\ orders'[x].quantity = orders[x].quantity
                                    /\ handed[x] \in Nat
                                    /\ handed'[x] = IF x = o THEN handed[x] + 1
                                                    ELSE handed[x]
        /\ \A x \in OrderId \ DOMAIN orders : handed'[x] = handed[x]
        /\ stock' = [stock EXCEPT ![p] = n]
        /\ \A x \in Part : HandedOut(x)' = IF x = p THEN HandedOut(x) + q
                                           ELSE HandedOut(x)
  BY <1>1, CollectedOrders
<1>3. /\ \A x \in Part : HandedOut(x) \in Nat /\ SeedStock[x] \in Nat /\ stock[x] \in Int
      /\ \A x \in Part : stock'[x] = IF x = p THEN n ELSE stock[x]
  BY <1>1, <1>2, HandedOutType, TablesAssumption DEF Known, TypeOK
<1>4. n <= SeedStock[p] - q /\ n >= SeedStock[p] - HandedOut(p) - q
  <2>1. ShelfLeft(task[w].work)
    BY <1>1 DEF StockOK, ShelfOK, CommitWork
  <2> QED
    BY <1>2, <2>1 DEF ShelfLeft
<1>5. ShelfGrows
  BY <1>2, <1>3 DEF ShelfGrows
<1>6. \A v \in Worker : ShelfOK(task[v])'
  BY <1>1, <1>5, CommitIdleShelf
<1>7. \A x \in Part : stock'[x] <= SeedStock[x]
  BY <1>3, <1>4 DEF StockOK
<1>8. \A x \in OrderId \ DOMAIN orders' : handed'[x] = 0
  BY <1>2 DEF StockOK
<1>9. StockNeverOverCounted'
  <2> SUFFICES ASSUME NEW x \in Part
               PROVE  /\ stock'[x] >= SeedStock[x] - HandedOut(x)'
                      /\ HandedOut(x)' > 0 =>
                           \E y \in DOMAIN orders' :
                             /\ orders'[y].part = x
                             /\ handed'[y] > 0
                             /\ stock'[x] <= SeedStock[x] - orders'[y].quantity
    BY DEF StockNeverOverCounted
  <2>1. CASE x = p
    <3>1. HandedOut(x)' = HandedOut(p) + q /\ stock'[x] = n
      BY <1>2, <1>3, <2>1
    <3>2. stock'[x] >= SeedStock[x] - HandedOut(x)'
      BY <1>3, <1>4, <2>1, <3>1
    <3>3. /\ o \in DOMAIN orders' /\ orders'[o].part = x /\ handed'[o] > 0
          /\ stock'[x] <= SeedStock[x] - orders'[o].quantity
      BY <1>2, <1>4, <2>1, <3>1
    <3> QED
      BY <3>2, <3>3
  <2>2. CASE x # p
    <3>1. HandedOut(x)' = HandedOut(x) /\ stock'[x] = stock[x]
      BY <1>2, <1>3, <2>2
    <3>2. stock[x] >= SeedStock[x] - HandedOut(x)
      BY DEF StockOK, StockNeverOverCounted
    <3>3. ASSUME HandedOut(x) > 0
          PROVE  \E y \in DOMAIN orders' :
                   /\ orders'[y].part = x
                   /\ handed'[y] > 0
                   /\ stock'[x] <= SeedStock[x] - orders'[y].quantity
      <4>1. PICK y \in DOMAIN orders : /\ orders[y].part = x
                                       /\ handed[y] > 0
                                       /\ stock[x] <= SeedStock[x] - orders[y].quantity
        BY <3>3 DEF StockOK, StockNeverOverCounted
      <4>2. handed'[y] > 0
        BY <1>2, <4>1
      <4> QED
        BY <1>2, <3>1, <4>1, <4>2
    <3> QED
      BY <3>1, <3>2, <3>3
  <2> QED
    BY <2>1, <2>2
<1> QED
  BY <1>1, <1>2, <1>6, <1>7, <1>8, <1>9 DEF StockOK

-----------------------------------------------------------------------------
(* What the applications need of all this. *)

LEMMA InitAccounted == WorkflowInit => Accounted
<1> SUFFICES ASSUME WorkflowInit PROVE Accounted
  OBVIOUS
<1> USE DEF WorkflowInit
<1>1. DOMAIN orders = {}
  OBVIOUS
<1>2. Decided = {} /\ HandedOver = {}
  BY <1>1 DEF Decided, HandedOver
<1>3. \A r \in Reason : Pending(r) = {}
  BY DEF Pending, LineOut, Idle
<1>4. \A r \in Reason : audit[r] = 0 /\ log[r] = 0
  OBVIOUS
<1>5. IsFiniteSet({}) /\ Cardinality({}) = 0
  BY FS_EmptySet
<1> HIDE DEF WorkflowInit
<1>6. LinesOK
  BY <1>3, <1>4, <1>5 DEF LinesOK
<1>7. RowsOK
  BY <1>1, <1>2, <1>4, <1>5 DEF RowsOK
<1> QED
  BY <1>6, <1>7 DEF Accounted

LEMMA StepAccounted ==
  ASSUME Known, Accounted, WorkflowStep \/ AtBound \/ UNCHANGED vars
  PROVE  Accounted'
<1>0. TypeOK
  BY DEF Known
<1>1. ASSUME NEW w \in Worker, Commit(w) PROVE Accounted'
  BY <1>1, CommitCreateAccounted, DecisionAccounted, CommitCollectAccounted,
     CommitRefuseAccounted DEF Commit
<1>2. ASSUME NEW w \in Worker, Advance(w) \/ Fail(w) PROVE Accounted'
  BY <1>0, <1>1, <1>2, ReadAccounted, FlushAccounted, RollbackAccounted
     DEF Advance, BusyTimeout, Fail
<1>3. CASE Crash
  BY <1>0, <1>3, CrashAccounted
<1>4. CASE Tick \/ AtBound \/ UNCHANGED vars
  <2>1. UNCHANGED <<tables, log, task>>
    BY <1>4 DEF Tick, AtBound, vars, tables
  <2>2. RowsOK'
    BY <2>1, RowsStay DEF Accounted, tables
  <2>3. LinesOK'
    BY <2>1 DEF Accounted, LinesOK, Pending, LineOut, tables
  <2> QED
    BY <2>2, <2>3 DEF Accounted
<1> QED
  BY <1>2, <1>3, <1>4 DEF WorkflowStep

LEMMA AccountedForTables ==
  ASSUME TypeOK, Accounted
  PROVE  AuditAccountsForTables
<1>1. ASSUME NEW r \in Reason PROVE audit[r] <= log[r]
  <2>1. IsFiniteSet(Pending(r)) /\ audit[r] + Cardinality(Pending(r)) <= log[r]
    BY DEF Accounted, LinesOK
  <2>2. audit[r] \in Nat /\ log[r] \in Nat
    BY DEF TypeOK
  <2> QED
    BY <2>1, <2>2, FS_CardinalityType
<1> QED
  BY <1>1 DEF AuditAccountsForTables, Accounted, RowsOK, Decided, HandedOver

LEMMA InitShelf ==
  ASSUME WorkflowInit
  PROVE  /\ DOMAIN orders = {} /\ IsFiniteSet(DOMAIN orders)
         /\ \A p \in Part : /\ HandedOut(p) = 0 /\ SeedStock[p] \in Nat
                            /\ stock[p] = SeedStock[p]
<1>1. DOMAIN orders = {} /\ stock = SeedStock
  BY DEF WorkflowInit
<1>2. ASSUME NEW p \in Part PROVE HandedOut(p) = 0
  <2>1. OrdersOf(p) = {}
    BY <1>1 DEF OrdersOf
  <2> QED
    BY <2>1, FS_EmptySet, SumZero DEF HandedOut
<1> QED
  BY <1>1, <1>2, FS_EmptySet, TablesAssumption

LEMMA InitStock == WorkflowInit => StockOK
<1> SUFFICES ASSUME WorkflowInit PROVE StockOK
  OBVIOUS
<1>1. \A o \in OrderId : handed[o] = 0
  BY DEF WorkflowInit
<1>2. \A w \in Worker : ShelfOK(task[w])
  BY DEF WorkflowInit, ShelfOK, Idle
<1>3. StockNeverOverCounted
  BY InitShelf DEF StockNeverOverCounted
<1> QED
  BY <1>1, <1>2, <1>3, InitShelf DEF StockOK

LEMMA StepStock ==
  ASSUME Known, StockOK, WorkflowStep \/ AtBound \/ UNCHANGED vars
  PROVE  StockOK'
<1>1. ASSUME NEW w \in Worker, Commit(w) PROVE StockOK'
  BY <1>1, CreateNothingOut, DecisionNothingOut, RefuseNothingOut, OtherCommitStock,
     CommitCollectStock DEF Commit
<1>2. ASSUME NEW w \in Worker, Advance(w) \/ Fail(w) PROVE StockOK'
  BY <1>1, <1>2, ReadStock, FlushStock, RollbackStock DEF Advance, BusyTimeout, Fail
<1> QED
  BY <1>2, RestStock DEF WorkflowStep
-----------------------------------------------------------------------------
(***************************************************************************)
(* Requests served one at a time.                                          *)
(***************************************************************************)

LEMMA InitSerial == WorkflowInit => Serial
<1> SUFFICES ASSUME WorkflowInit PROVE Serial
  OBVIOUS
<1>1. DOMAIN orders = {} /\ \A w \in Worker : task[w].pc = "idle"
  BY DEF WorkflowInit, Idle
<1>2. HandedOK
  BY <1>1 DEF WorkflowInit, HandedOK, Collected
<1> QED
  BY <1>1, <1>2 DEF Serial, TaskCurrent, ReadCurrent

\* A step that writes no table and moves one thread.
LEMMA QuietSerial ==
  ASSUME TypeOK, Serial, UNCHANGED <<orders, codes, stock, handed>>, NEW w \in Worker,
         NEW t, task' = [task EXCEPT ![w] = t], TaskCurrent(t)
  PROVE  Serial'
<1>1. task'[w] = t /\ \A v \in Worker \ {w} : task'[v] = task[v]
  BY DEF TypeOK
<1>2. \A v \in Worker : TaskCurrent(task[v])'
  BY <1>1 DEF Serial, TaskCurrent, ReadCurrent, WorkCurrent
<1>3. HandedOK'
  BY DEF Serial, HandedOK, Collected
<1> QED
  BY <1>2, <1>3 DEF Serial

LEMMA IdleCurrent == TaskCurrent(Idle)
BY DEF TaskCurrent, ReadCurrent, Idle

LEMMA PendingCurrent ==
  ASSUME NEW u, NEW pc \in {"flush", "commit"}, WorkCurrent(u)
  PROVE  TaskCurrent([pc |-> pc, work |-> u])
BY DEF TaskCurrent, ReadCurrent

\* A request's first step writes no table; what it starts with is current.
LEMMA StartSerial ==
  ASSUME TypeOK, Serial, NEW w \in Worker, NEW t, Start(w, t), UNCHANGED <<tables, handed>>,
         TaskCurrent(t)
  PROVE  Serial' /\ UNCHANGED <<orders, codes, stock, handed>>
BY QuietSerial DEF Start, tables

LEMMA ForbidSerial ==
  ASSUME TypeOK, Serial, NEW w \in Worker, Forbid(w)
  PROVE  Serial' /\ UNCHANGED <<orders, codes, stock, handed>>
BY StartSerial, IdleCurrent DEF Forbid

LEMMA StageSerial ==
  ASSUME TypeOK, Serial, NEW w \in Worker, NEW draft, NEW code, NEW at,
         StageOrder(w, draft, code, at), draft.state # "collected"
  PROVE  Serial' /\ UNCHANGED <<orders, codes, stock, handed>>
<1> DEFINE u == [reason |-> "order_created", draft |-> draft, code |-> code, at |-> at]
<1>1. WorkCurrent(u)
  BY DEF WorkCurrent
<1> HIDE DEF u
<1>2. TaskCurrent([pc |-> "flush", work |-> u])
  BY <1>1, PendingCurrent
<1> QED
  BY <1>2, StartSerial DEF StageOrder, u

LEMMA RequestSerial ==
  ASSUME TypeOK, Serial, NEW w \in Worker, NEW a \in Account, NEW at,
         WorkflowRequest(w, a, at)
  PROVE  Serial' /\ UNCHANGED <<orders, codes, stock, handed>>
<1> DEFINE Goal == Serial' /\ UNCHANGED <<orders, codes, stock, handed>>
<1>1. ASSUME NEW u, Start(w, [pc |-> "flush", work |-> u]), UNCHANGED <<tables, handed>>,
             WorkCurrent(u)
      PROVE  Goal
  BY <1>1, PendingCurrent, StartSerial
<1>2. ASSUME NEW o \in OrderId, ApproveOrder(w, a, o) PROVE Goal
  <2> DEFINE u == [reason |-> "order_approved", order |-> o, actor |-> a, at |-> now,
                   issue |-> FALSE]
  <2>1. WorkCurrent(u)
    BY <1>2 DEF ApproveOrder, MayDecide, WorkCurrent
  <2> QED
    BY <1>1, <1>2, <2>1 DEF ApproveOrder, tables
<1>3. ASSUME NEW o \in OrderId, RejectOrder(w, a, o) PROVE Goal
  <2> DEFINE u == [reason |-> "order_rejected", order |-> o, actor |-> a]
  <2>1. WorkCurrent(u)
    BY <1>3 DEF RejectOrder, MayDecide, WorkCurrent
  <2> QED
    BY <1>1, <1>3, <2>1 DEF RejectOrder, tables
<1>4. ASSUME NEW v \in CodeValue, PresentCode(w, a, v, at) PROVE Goal
  <2>1. PICK c \in Matches(v) : Start(w, [pc |-> "order", actor |-> a, at |-> at, row |-> c])
    BY <1>4 DEF PresentCode
  <2>2. TaskCurrent([pc |-> "order", actor |-> a, at |-> at, row |-> c])
    BY DEF TaskCurrent, ReadCurrent
  <2> QED
    BY <1>4, <2>1, <2>2, StartSerial DEF PresentCode, tables
<1>5. ASSUME NEW v \in CodeValue, PresentBadCode(w, a, v, at) PROVE Goal
  <2>1. WorkCurrent([reason |-> "pickup_refused"])
    BY DEF WorkCurrent
  <2> QED
    BY <1>1, <1>5, <2>1 DEF PresentBadCode, RefusedPickup, tables
<1> QED
  BY <1>2, <1>3, <1>4, <1>5, ForbidSerial DEF WorkflowRequest, DecisionForbidden

\* A handler's reads, its flush and its rollback write no table, and what it
\* has read it remembers.
LEMMA ReadSerial ==
  ASSUME TypeOK, Serial, NEW w \in Worker,
         ReadOrder(w) \/ ReadUncollectable(w) \/ ReadPart(w) \/ Flush(w) \/ Rollback(w)
  PROVE  Serial' /\ UNCHANGED <<orders, codes, stock, handed>>
<1> USE DEF tables
<1> DEFINE u == task[w].work
<1>0. task[w] \in Task /\ TaskCurrent(task[w])
  BY DEF TypeOK, Serial
<1>1. CASE ReadOrder(w)
  <2> DEFINE t == [task[w] EXCEPT !.pc = "part"]
  <2>1. t.pc = "part" /\ t.row = task[w].row
    BY <1>0, <1>1, ReadingType DEF ReadOrder, Task
  <2>2. TaskCurrent(t)
    BY <1>1, <2>1 DEF ReadOrder, TaskCurrent, ReadCurrent
  <2>3. task' = [task EXCEPT ![w] = t]
    BY <1>1 DEF ReadOrder, TypeOK
  <2> HIDE DEF t
  <2> QED
    BY <1>1, <2>2, <2>3, QuietSerial DEF ReadOrder
<1>2. CASE ReadUncollectable(w)
  <2>1. WorkCurrent([reason |-> "pickup_refused"])
    BY DEF WorkCurrent
  <2> QED
    BY <1>2, <2>1, PendingCurrent, QuietSerial DEF ReadUncollectable, RefusedPickup
<1>3. CASE ReadPart(w)
  <2> DEFINE o == codes[task[w].row].order_id
             v == [reason |-> "order_collected", order |-> o, row |-> task[w].row,
                   at |-> task[w].at, stock |-> stock[orders[o].part] - orders[o].quantity]
  <2>1. orders[o].state \in COLLECTABLE_STATES
    BY <1>0, <1>3 DEF ReadPart, TaskCurrent, ReadCurrent
  <2>2. TaskCurrent([pc |-> "flush", work |-> v])
    BY <2>1, PendingCurrent DEF WorkCurrent
  <2>3. task' = [task EXCEPT ![w] = [pc |-> "flush", work |-> v]]
    BY <1>3 DEF ReadPart
  <2> QED
    BY <1>3, <2>2, <2>3, QuietSerial DEF ReadPart
<1>4. CASE Flush(w)
  <2>1. WorkCurrent(u) /\ u \in Work
    BY <1>0, <1>4, WorkingType DEF Flush, TaskCurrent
  <2>2. CASE u.reason = "order_approved"
    <3>1. PICK t : task' = [task EXCEPT ![w] = [pc |-> "commit",
                     work |-> [u EXCEPT !.at = t, !.issue = ~HasCode(u.order)]]]
      BY <1>4, <2>2 DEF Flush
    <3> DEFINE v == [u EXCEPT !.at = t, !.issue = ~HasCode(u.order)]
    <3>2. v.reason = u.reason /\ v.order = u.order
      BY <2>1, <2>2, WorkType DEF Approve
    <3>3. WorkCurrent(v)
      BY <2>1, <2>2, <3>2 DEF WorkCurrent
    <3>4. TaskCurrent([pc |-> "commit", work |-> v])
      BY <3>3, PendingCurrent
    <3> HIDE DEF v
    <3> QED
      BY <1>4, <3>1, <3>4, QuietSerial DEF Flush, v
  <2>3. CASE u.reason # "order_approved"
    <3>1. task' = [task EXCEPT ![w] = [pc |-> "commit", work |-> u]]
      <4>1. task[w] = [pc |-> "flush", work |-> u]
        BY <1>0, <1>4, WorkingType DEF Flush
      <4>2. task' = [task EXCEPT ![w].pc = "commit"]
        BY <1>4, <2>3 DEF Flush
      <4> HIDE DEF u
      <4>3. [task[w] EXCEPT !.pc = "commit"] = [pc |-> "commit", work |-> u]
        BY <4>1
      <4> QED
        BY <4>2, <4>3 DEF TypeOK
    <3> QED
      BY <1>4, <2>1, <3>1, PendingCurrent, QuietSerial DEF Flush
  <2> QED
    BY <2>2, <2>3
<1>5. CASE Rollback(w)
  BY <1>5, IdleCurrent, QuietSerial DEF Rollback
<1> QED
  BY <1>1, <1>2, <1>3, <1>4, <1>5

-----------------------------------------------------------------------------
(* Each commit is a step of one order's life, and of the shelf. *)

LEMMA CommitIdle ==
  ASSUME TypeOK, SingleThread, NEW w \in Worker, NEW r, CommitWork(w, r)
  PROVE  \A v \in Worker : TaskCurrent(task[v])'
<1>1. \A v \in Worker : task'[v] = Idle
  BY DEF SingleThread, CommitWork, TypeOK
<1> QED
  BY <1>1 DEF TaskCurrent, ReadCurrent, Idle

LEMMA TurnLives ==
  ASSUME Turn
  PROVE  Lives
<1>1. PICK o \in OrderId : (\E w \in Worker : Places(w, o)) \/ Decides(o) \/ HandsOut(o)
  BY DEF Turn
<1>2. Writes(o)
  BY <1>1 DEF Places, Decides, HandsOut
<1>3. o \in DOMAIN orders => LegalTransition(orders[o].state, orders'[o].state)
  BY <1>1 DEF Places, Decides, HandsOut, LegalTransition
<1> QED
  BY <1>2, <1>3 DEF Writes, Lives, LegalTransition

LEMMA SameLives == ASSUME UNCHANGED orders PROVE Lives
BY DEF Lives, LegalTransition

LEMMA CommitCreateSerial ==
  ASSUME Known, Serial, SingleThread, NEW w \in Worker, CommitCreate(w)
  PROVE  Serial' /\ Turn
<1>1. CommitWork(w, "order_created") /\ UNCHANGED <<stock, handed>>
  BY DEF CommitCreate
<1>2. PICK u \in Create : u = task[w].work /\ WorkCurrent(u)
  <2>1. task[w].work \in Create
    BY <1>1, KnownWork, WorkType DEF CommitWork
  <2>2. WorkCurrent(task[w].work)
    BY <1>1 DEF CommitWork, Serial, TaskCurrent
  <2> QED
    BY <2>1, <2>2
<1>3. PICK o \in OrderId \ DOMAIN orders : orders' = Insert(orders, o, u.draft)
  BY <1>2 DEF CommitCreate
<1>4. Writes(o) /\ orders'[o] = u.draft
  BY <1>3 DEF Writes, Insert
<1>5. u.draft.state # "collected"
  BY <1>1, <1>2 DEF WorkCurrent, CommitWork
<1>6. HandedOK'
  BY <1>1, <1>3, <1>4, <1>5 DEF Serial, HandedOK, Collected, Writes
<1>7. Places(w, o)
  BY <1>1, <1>2, <1>3, <1>4 DEF Places, Staged, CommitWork
<1>8. Turn
  BY <1>4, <1>7 DEF Turn, Writes
<1> QED
  BY <1>1, <1>6, <1>8, CommitIdle DEF Serial, Known

LEMMA DecisionSerial ==
  ASSUME Known, Serial, SingleThread, NEW w \in Worker,
         CommitApprove(w) \/ CommitReject(w)
  PROVE  Serial' /\ Turn
<1>1. PICK r \in {"order_approved", "order_rejected"}, s \in {"approved", "rejected"} :
        /\ CommitWork(w, r)
        /\ UNCHANGED <<stock, handed>>
        /\ orders' = [orders EXCEPT ![task[w].work.order].state = s,
                                    ![task[w].work.order].approved_by = task[w].work.actor]
  BY DEF CommitApprove, CommitReject
<1>2. PICK o \in DOMAIN orders, a \in Account :
        /\ o = task[w].work.order /\ a = task[w].work.actor
        /\ orders[o].state = "pending_supervisor"
  <2>1. task[w].work \in Approve \cup Reject /\ WorkKnown(task[w].work)
    BY <1>1, KnownWork, WorkType DEF CommitWork
  <2>2. WorkCurrent(task[w].work)
    BY <1>1 DEF CommitWork, Serial, TaskCurrent
  <2> QED
    BY <1>1, <2>1, <2>2 DEF CommitWork, WorkKnown, WorkCurrent, Approve, Reject
<1>3. /\ DOMAIN orders' = DOMAIN orders
      /\ orders'[o].account = orders[o].account
      /\ orders'[o].part = orders[o].part
      /\ orders'[o].quantity = orders[o].quantity
      /\ \A x \in DOMAIN orders : x # o => orders'[x] = orders[x]
      /\ orders'[o].state = s
  <2>1. orders' = [orders EXCEPT ![o].state = s, ![o].approved_by = a]
    BY <1>1, <1>2
  <2>2. TypeOK /\ s \in OrderState
    BY DEF Known, OrderState
  <2>3. /\ DOMAIN orders' = DOMAIN orders
        /\ orders' \in [DOMAIN orders -> Order]
        /\ \A x \in DOMAIN orders :
             /\ orders'[x].account = orders[x].account
             /\ orders'[x].part = orders[x].part
             /\ orders'[x].quantity = orders[x].quantity
             /\ orders'[x].line_total = orders[x].line_total
             /\ orders'[x].restricted = orders[x].restricted
             /\ orders'[x].collected_at = orders[x].collected_at
             /\ x # o => orders'[x] = orders[x]
        /\ orders'[o].state = s /\ orders'[o].approved_by = a
    BY <2>1, <2>2, DecidedOrders, Zenon
  <2> QED
    BY <2>3
<1>4. Writes(o) /\ KeepsFacts(o)
  BY <1>3 DEF Writes, KeepsFacts, Known, TypeOK
<1>5. Decides(o) /\ o \in OrderId
  BY <1>1, <1>2, <1>3, <1>4 DEF Decides, Writes
<1>6. HandedOK'
  BY <1>1, <1>2, <1>3 DEF Serial, HandedOK, Collected
<1> QED
  BY <1>1, <1>5, <1>6, CommitIdle DEF Serial, Turn, Known

LEMMA CommitCollectSerial ==
  ASSUME Known, Serial, SingleThread, NEW w \in Worker, CommitCollect(w)
  PROVE  Serial' /\ Turn
<1>1. CommitWork(w, "order_collected")
  BY DEF CommitCollect
<1>2. PICK o \in DOMAIN orders, at \in Nat, n \in Int :
        /\ o = task[w].work.order /\ at = task[w].work.at /\ n = task[w].work.stock
        /\ orders[o].state \in COLLECTABLE_STATES
        /\ n = stock[orders[o].part] - orders[o].quantity
  <2>1. task[w].work \in Collect /\ WorkKnown(task[w].work)
    BY <1>1, KnownWork, WorkType DEF CommitWork
  <2>2. WorkCurrent(task[w].work)
    BY <1>1 DEF CommitWork, Serial, TaskCurrent
  <2> QED
    BY <1>1, <2>1, <2>2 DEF CommitWork, WorkKnown, WorkCurrent, Collect
<1>3. /\ stock' = [stock EXCEPT ![orders[o].part] = n]
      /\ orders' = [orders EXCEPT ![o].state = "collected", ![o].collected_at = at]
      /\ handed' = [handed EXCEPT ![o] = @ + 1]
  BY <1>2 DEF CommitCollect
<1>4. /\ DOMAIN orders' = DOMAIN orders
      /\ \A x \in DOMAIN orders : x # o => orders'[x] = orders[x]
      /\ orders'[o].account = orders[o].account
      /\ orders'[o].part = orders[o].part
      /\ orders'[o].quantity = orders[o].quantity
      /\ orders'[o].state = "collected"
  <2> DEFINE row == [orders[o] EXCEPT !.state = "collected", !.collected_at = at]
  <2>1. orders \in [DOMAIN orders -> Order] /\ orders[o] \in Order
    BY DEF Known, TypeOK
  <2>2. /\ row.account = orders[o].account /\ row.part = orders[o].part
        /\ row.quantity = orders[o].quantity /\ row.state = "collected"
    BY <2>1 DEF Order
  <2>3. orders' = [orders EXCEPT ![o] = row]
    BY <1>3, <2>1
  <2> HIDE DEF row
  <2> QED
    BY <2>1, <2>2, <2>3
<1>5. Writes(o) /\ KeepsFacts(o)
  BY <1>4 DEF Writes, KeepsFacts, Known, TypeOK
<1>6. HandsOut(o) /\ o \in OrderId
  BY <1>2, <1>3, <1>4, <1>5 DEF HandsOut, Writes
<1>7. HandedOK'
  <2>1. ~Collected(o) /\ Collected(o)'
    BY <1>2, <1>4 DEF Collected, COLLECTABLE_STATES
  <2>2. handed[o] = 0 /\ handed \in [OrderId -> Nat] /\ o \in OrderId
    BY <1>5, <2>1 DEF Serial, HandedOK, Writes, Known, TypeOK
  <2>3. \A x \in OrderId \ {o} : Collected(x)' <=> Collected(x)
    BY <1>4 DEF Collected
  <2> QED
    BY <1>3, <2>1, <2>2, <2>3 DEF Serial, HandedOK
<1> QED
  BY <1>1, <1>6, <1>7, CommitIdle DEF Serial, Turn, Known

\* Every step that is not the arrival of a request: nothing but a commit writes the
\* orders or the shelf, and a commit's writes are as of now.
LEMMA StepSerial ==
  ASSUME Known, Serial, SingleThread, WorkflowStep \/ AtBound \/ UNCHANGED vars
  PROVE  Serial' /\ (Turn \/ UNCHANGED <<orders, stock>>)
<1>0. TypeOK
  BY DEF Known
<1>1. ASSUME NEW w \in Worker, CommitRefuse(w)
      PROVE  Serial' /\ UNCHANGED <<orders, stock>>
  <2>1. CommitWork(w, "pickup_refused") /\ UNCHANGED <<orders, codes, stock, handed>>
    BY <1>1 DEF CommitRefuse
  <2>2. HandedOK'
    BY <2>1 DEF Serial, HandedOK, Collected
  <2> QED
    BY <1>0, <2>1, <2>2, CommitIdle DEF Serial
<1>2. ASSUME NEW w \in Worker, Advance(w) \/ Fail(w)
      PROVE  Serial' /\ (Turn \/ UNCHANGED <<orders, stock>>)
  BY <1>0, <1>1, <1>2, ReadSerial, CommitCreateSerial, DecisionSerial, CommitCollectSerial
     DEF Advance, Commit, BusyTimeout, Fail
<1>3. CASE Crash
  <2>1. /\ UNCHANGED <<orders, codes, stock, handed>>
        /\ \A w \in Worker : task'[w] = Idle
    BY <1>3 DEF Crash, tables
  <2>2. \A w \in Worker : TaskCurrent(task[w])'
    BY <2>1 DEF TaskCurrent, ReadCurrent, Idle
  <2>3. HandedOK'
    BY <2>1 DEF Serial, HandedOK, Collected
  <2> QED
    BY <2>1, <2>2, <2>3 DEF Serial
<1>4. CASE Tick \/ AtBound \/ UNCHANGED vars
  <2>1. UNCHANGED <<orders, codes, stock, handed, task>>
    BY <1>4 DEF Tick, AtBound, vars, tables
  <2>2. HandedOK' /\ \A w \in Worker : TaskCurrent(task[w])'
    BY <2>1 DEF Serial, HandedOK, Collected, TaskCurrent, ReadCurrent, WorkCurrent
  <2> QED
    BY <2>1, <2>2 DEF Serial
<1> QED
  BY <1>2, <1>3, <1>4 DEF WorkflowStep

LEMMA SerialHanded == ASSUME Serial PROVE SingleUse
BY DEF Serial, HandedOK, SingleUse

-----------------------------------------------------------------------------
(* The same steps as the parts desk sees them. *)

LEMMA StatusOfStates ==
  /\ StatusOf("pending_supervisor") = "waiting"
  /\ StatusOf("rejected") = "rejected"
  /\ StatusOf("collected") = "collected"
  /\ \A s \in COLLECTABLE_STATES : StatusOf(s) = "ready"
BY DEF StatusOf, COLLECTABLE_STATES

LEMMA WrittenStatus ==
  ASSUME TypeOK, NEW o, Writes(o)
  PROVE  StatusIn(orders') = [StatusIn(orders) EXCEPT ![o] = StatusOf(orders'[o].state)]
<1> DEFINE s == StatusOf(orders'[o].state)
<1>1. o \in OrderId /\ o \in DOMAIN orders' /\ DOMAIN orders \subseteq OrderId
  BY DEF Writes, TypeOK
<1>2. \A x \in OrderId \ {o} :
        /\ x \in DOMAIN orders' <=> x \in DOMAIN orders
        /\ x \in DOMAIN orders => orders'[x] = orders[x]
  BY DEF Writes
<1>3. StatusIn(orders') = [StatusIn(orders) EXCEPT ![o] = s]
  BY <1>1, <1>2 DEF StatusIn
<1> QED
  BY <1>3

LEMMA PlacedStatus ==
  ASSUME TypeOK, NEW w \in Worker, NEW o \in OrderId, Places(w, o), NEW auto \in BOOLEAN,
         orders'[o].state = IF auto THEN "auto_approved" ELSE "pending_supervisor"
  PROVE  /\ StatusIn(orders)[o] = "absent"
         /\ StatusIn(orders') = [StatusIn(orders) EXCEPT
                                  ![o] = IF auto THEN "ready" ELSE "waiting"]
<1>1. StatusOf(orders'[o].state) = IF auto THEN "ready" ELSE "waiting"
  BY StatusOfStates DEF COLLECTABLE_STATES
<1>2. StatusIn(orders)[o] = "absent"
  BY DEF Places, StatusIn
<1>3. Writes(o)
  BY DEF Places
<1> QED
  BY <1>1, <1>2, <1>3, WrittenStatus

LEMMA DecidedStatus ==
  ASSUME TypeOK, NEW o \in OrderId, Decides(o)
  PROVE  /\ StatusIn(orders)[o] = "waiting"
         /\ \/ StatusIn(orders') = [StatusIn(orders) EXCEPT ![o] = "ready"]
            \/ StatusIn(orders') = [StatusIn(orders) EXCEPT ![o] = "rejected"]
<1>1. StatusIn(orders)[o] = "waiting"
  BY StatusOfStates DEF Decides, KeepsFacts, StatusIn
<1>2. StatusOf(orders'[o].state) \in {"ready", "rejected"}
  BY StatusOfStates DEF Decides, COLLECTABLE_STATES
<1>3. Writes(o)
  BY DEF Decides
<1> QED
  BY <1>1, <1>2, <1>3, WrittenStatus

LEMMA HandedOutStatus ==
  ASSUME TypeOK, NEW o \in OrderId, HandsOut(o)
  PROVE  /\ StatusIn(orders)[o] = "ready"
         /\ StatusIn(orders') = [StatusIn(orders) EXCEPT ![o] = "collected"]
<1>1. StatusIn(orders)[o] = "ready"
  BY StatusOfStates DEF HandsOut, KeepsFacts, StatusIn
<1>2. StatusOf(orders'[o].state) = "collected"
  BY StatusOfStates DEF HandsOut
<1>3. Writes(o)
  BY DEF HandsOut
<1> QED
  BY <1>1, <1>2, <1>3, WrittenStatus

-----------------------------------------------------------------------------
(* A collection takes exactly the order's quantity off the shelf as it is. *)

LEMMA InitExact == WorkflowInit => StockExact
<1> SUFFICES ASSUME WorkflowInit PROVE StockExact
  OBVIOUS
<1>1. \A p \in Part : HandedOut(p) = 0 /\ SeedStock[p] \in Nat /\ stock[p] = SeedStock[p]
  BY InitShelf
<1> QED
  BY <1>1 DEF StockExact

LEMMA SameExact ==
  ASSUME Known, StockOK, StockExact, UNCHANGED <<orders, stock, handed>>
  PROVE  StockExact'
<1>1. NothingOut
  BY QuietNothingOut DEF Known, StockOK
<1> QED
  BY <1>1 DEF StockExact, NothingOut

LEMMA CommitCollectExact ==
  ASSUME Known, Serial, StockOK, StockExact, NEW w \in Worker, CommitCollect(w)
  PROVE  StockExact'
<1>1. PICK o \in DOMAIN orders, p \in Part, q \in Nat, n \in Int :
        /\ o = task[w].work.order /\ n = task[w].work.stock
        /\ p = orders[o].part /\ q = orders[o].quantity
        /\ stock' = [stock EXCEPT ![p] = n]
        /\ \A x \in Part : HandedOut(x)' = IF x = p THEN HandedOut(x) + q
                                           ELSE HandedOut(x)
  BY CollectedOrders DEF StockOK
<1>2. n = stock[p] - q
  BY <1>1 DEF CommitCollect, CommitWork, Serial, TaskCurrent, WorkCurrent
<1>3. \A x \in Part : /\ HandedOut(x) \in Nat /\ SeedStock[x] \in Nat
                      /\ stock[x] = SeedStock[x] - HandedOut(x)
  BY HandedOutType, TablesAssumption DEF Known, StockOK, StockExact
<1>4. \A x \in Part : stock'[x] = IF x = p THEN n ELSE stock[x]
  BY <1>1 DEF Known, TypeOK
<1>5. ASSUME NEW x \in Part PROVE stock'[x] = SeedStock[x] - HandedOut(x)'
  <2>1. CASE x = p
    <3>1. HandedOut(x)' = HandedOut(x) + q /\ stock'[x] = stock[x] - q
      BY <1>1, <1>2, <1>4, <2>1
    <3>2. stock[x] = SeedStock[x] - HandedOut(x)
      BY <1>3
    <3>3. HandedOut(x) \in Nat /\ SeedStock[x] \in Nat
      BY <1>3
    <3> QED
      BY <3>1, <3>2, <3>3
  <2>2. CASE x # p
    BY <1>1, <1>3, <1>4, <2>2
  <2> QED
    BY <2>1, <2>2
<1> QED
  BY <1>5 DEF StockExact

LEMMA StepExact ==
  ASSUME Known, Serial, StockOK, StockExact, WorkflowStep \/ AtBound \/ UNCHANGED vars
  PROVE  StockExact'
<1>1. ASSUME NothingOut PROVE StockExact'
  BY <1>1 DEF StockExact, NothingOut
<1>2. ASSUME NEW w \in Worker, Commit(w) PROVE StockExact'
  BY <1>1, <1>2, CommitCollectExact, CreateNothingOut, DecisionNothingOut,
     RefuseNothingOut DEF Commit
<1>3. ASSUME NEW w \in Worker, Advance(w) \/ Fail(w), ~Commit(w)
      PROVE  UNCHANGED <<orders, stock, handed>>
  BY <1>3 DEF Advance, ReadOrder, ReadUncollectable, ReadPart, Flush, BusyTimeout, Rollback,
              Fail, tables
<1>4. Crash \/ Tick \/ AtBound \/ UNCHANGED vars => UNCHANGED <<orders, stock, handed>>
  BY DEF Crash, Tick, AtBound, vars, tables
<1> QED
  BY <1>2, <1>3, <1>4, SameExact DEF WorkflowStep
-----------------------------------------------------------------------------
(* What create_order staged stays as it is until its commit. *)

LEMMA MoveKeepsDrafts ==
  ASSUME TypeOK, NEW w \in Worker, NEW t, task' = [task EXCEPT ![w] = t],
         t.pc \in {"flush", "commit"} /\ t.work.reason = "order_created" =>
           task[w].pc \in {"flush", "commit"} /\ task[w].work = t.work,
         NEW v \in Worker, Staged(task'[v])
  PROVE  Staged(task[v]) /\ task'[v].work = task[v].work
BY DEF TypeOK, Staged

LEMMA RequestKeepsDrafts ==
  ASSUME TypeOK, NEW w \in Worker, NEW a, NEW at, WorkflowRequest(w, a, at) \/ Forbid(w),
         NEW v \in Worker, Staged(task'[v])
  PROVE  Staged(task[v]) /\ task'[v].work = task[v].work
<1> DEFINE Goal == Staged(task[v]) /\ task'[v].work = task[v].work
<1>1. ASSUME NEW t, Start(w, t),
             t.pc \notin {"flush", "commit"} \/ t.work.reason # "order_created"
      PROVE  Goal
  BY <1>1, MoveKeepsDrafts DEF Start
<1>2. Forbid(w) => Goal
  BY <1>1 DEF Forbid, Idle
<1>3. ASSUME NEW o \in OrderId,
             ApproveOrder(w, a, o) \/ RejectOrder(w, a, o) \/ DecisionForbidden(w, a, o)
      PROVE  Goal
  BY <1>1, <1>2, <1>3 DEF ApproveOrder, RejectOrder, DecisionForbidden
<1>4. ASSUME NEW x \in CodeValue, PresentCode(w, a, x, at) \/ PresentBadCode(w, a, x, at)
      PROVE  Goal
  BY <1>1, <1>4 DEF PresentCode, PresentBadCode, RefusedPickup
<1> QED
  BY <1>2, <1>3, <1>4 DEF WorkflowRequest

LEMMA StepKeepsDrafts ==
  ASSUME TypeOK, WorkflowStep \/ AtBound \/ UNCHANGED vars,
         NEW v \in Worker, Staged(task'[v])
  PROVE  Staged(task[v]) /\ task'[v].work = task[v].work
<1> DEFINE Goal == Staged(task[v]) /\ task'[v].work = task[v].work
<1>1. ASSUME NEW w \in Worker, Advance(w) \/ Fail(w) PROVE Goal
  <2>0. task[w] \in Task
    BY DEF TypeOK
  <2>1. CASE ReadOrder(w)
    <3> DEFINE t == [task[w] EXCEPT !.pc = "part"]
    <3>1. task' = [task EXCEPT ![w] = t]
      BY <2>1 DEF ReadOrder, TypeOK
    <3>2. t.pc = "part"
      BY <2>0, <2>1, ReadingType DEF ReadOrder
    <3> HIDE DEF t
    <3> QED
      BY <3>1, <3>2, MoveKeepsDrafts
  <2>2. CASE ReadUncollectable(w) \/ ReadPart(w)
    BY <2>2, MoveKeepsDrafts DEF ReadUncollectable, ReadPart, RefusedPickup
  <2>3. CASE Flush(w)
    <3> DEFINE u == task[w].work
    <3>0. u \in Work /\ task[w] = [pc |-> "flush", work |-> u]
      BY <2>0, <2>3, WorkingType DEF Flush
    <3>1. CASE u.reason = "order_approved"
      <4>1. PICK at : task' = [task EXCEPT ![w] = [pc |-> "commit",
                         work |-> [u EXCEPT !.at = at, !.issue = ~HasCode(u.order)]]]
        BY <2>3, <3>1 DEF Flush
      <4> DEFINE x == [u EXCEPT !.at = at, !.issue = ~HasCode(u.order)]
      <4>2. x.reason = "order_approved"
        BY <3>0, <3>1, WorkType DEF Approve
      <4> HIDE DEF x
      <4>3. task' = [task EXCEPT ![w] = [pc |-> "commit", work |-> x]]
        BY <4>1 DEF x
      <4> HIDE DEF u
      <4> QED
        BY <4>2, <4>3, MoveKeepsDrafts
    <3>2. CASE u.reason # "order_approved"
      <4> DEFINE t == [task[w] EXCEPT !.pc = "commit"]
      <4>1. task' = [task EXCEPT ![w] = t]
        BY <2>3, <3>2 DEF Flush, TypeOK
      <4>2. task[w].pc = "flush" /\ t.work = task[w].work
        BY <2>3, <3>0 DEF Flush
      <4> HIDE DEF t, u
      <4> QED
        BY <4>1, <4>2, MoveKeepsDrafts
    <3> QED
      BY <3>1, <3>2
  <2>4. CASE Commit(w) \/ BusyTimeout(w) \/ Fail(w)
    <3>1. task' = [task EXCEPT ![w] = Idle]
      BY <2>4 DEF Commit, CommitCreate, CommitApprove, CommitReject, CommitCollect,
                  CommitRefuse, CommitWork, BusyTimeout, Fail, Rollback
    <3> QED
      BY <3>1, MoveKeepsDrafts DEF Idle
  <2> QED
    BY <1>1, <2>1, <2>2, <2>3, <2>4 DEF Advance
<1>2. CASE Crash
  BY <1>2 DEF Crash, Idle, Staged
<1>3. CASE Tick \/ AtBound \/ UNCHANGED vars
  BY <1>3 DEF Tick, AtBound, vars
<1> QED
  BY <1>1, <1>2, <1>3 DEF WorkflowStep
=============================================================================
