--------------------------- MODULE KeyjackProofs ----------------------------
(***************************************************************************)
(* Proofs about the whole secure site, for any number of threads, tokens,  *)
(* accounts and orders: behind its door it is SecureApp, and the door      *)
(* keeps its own promises.                                                 *)
(***************************************************************************)
EXTENDS KeyjackInvariants, SerialProofs

-----------------------------------------------------------------------------
(* The door is a refinement of the application behind it. *)

LEMMA EntryType ==
  ASSUME NEW e \in Entry
  PROVE  /\ e.pc \in {"actor", "detail"} => e.actor \in Account
         /\ e.pc = "detail" => e.order \in OrderId
         /\ e.pc = "logout" => e.token \in Token
BY DEF Entry

LEMMA EntryShapes ==
  /\ Nobody \in Entry /\ Nobody \in Login
  /\ \A a \in Account : [pc |-> "actor", actor |-> a] \in Entry
  /\ \A t \in Token : [pc |-> "logout", token |-> t] \in Entry
  /\ \A a \in Account, o \in OrderId :
       [pc |-> "detail", actor |-> a, order |-> o] \in Entry
  /\ \A a \in Account, t \in Nat : [pc |-> "open", account |-> a, at |-> t] \in Login
  /\ [pc |-> "refuse"] \in Login /\ [pc |-> "answer"] \in Login
BY DEF Entry, Login, Nobody

LEMMA LoginType ==
  ASSUME login \in Login, login.pc = "open"
  PROVE  login.account \in Account /\ login.at \in Nat
BY DEF Login

\* A step of the door leaves the application alone, or is one of its steps.
LEMMA SiteStepIsStep ==
  ASSUME SiteTypeOK, [SiteNext]_allVars
  PROVE  [Next]_vars
<1> USE DEF allVars
<1>1. CASE AppStep
  BY <1>1 DEF AppStep, Next, WorkflowStep
<1>2. ASSUME NEW w \in Worker, EntryStep(w) PROVE [Next]_vars
  <2>1. CASE Handle(w)
    <3>1. entry[w].actor \in Account
      BY <2>1, EntryType DEF Handle, SiteTypeOK
    <3> QED
      BY <2>1, <3>1 DEF Handle, Next
  <2>2. CASE ~Handle(w)
    BY <1>2, <2>2 DEF EntryStep, CurrentActor, Browse, GetOrder, GetOrderCode, Logout,
                      LogoutCommit, EntryFail
  <2> QED
    BY <2>1, <2>2
<1>3. ASSUME NEW c, NEW p, LoginBody(c, p) PROVE [Next]_vars
  BY <1>3 DEF LoginBody
<1>4. CASE LoginStep
  BY <1>4 DEF LoginStep, LoginOpen, LoginRefuse, LoginAnswer, LoginFails
<1>5. CASE SiteCrash
  BY <1>5 DEF SiteCrash, Next, WorkflowStep
<1>6. CASE Quiet \/ UNCHANGED allVars
  BY <1>6 DEF Quiet
<1> QED
  BY <1>1, <1>2, <1>3, <1>4, <1>5, <1>6 DEF SiteNext

-----------------------------------------------------------------------------
(* Types of the door. *)

\* A step that changes at most one entry, and no token's standing.
LEMMA EntryFrame ==
  ASSUME SiteTypeOK, NEW w \in Worker, NEW e \in Entry,
         e.pc = "logout" => e.token \in issued,
         entry' = [entry EXCEPT ![w] = e], UNCHANGED issued
  PROVE  /\ entry' \in [Worker -> Entry]
         /\ (\A v \in Worker : entry[v].pc = "logout" => entry[v].token \in issued)'
BY DEF SiteTypeOK

LEMMA NobodyFrame ==
  ASSUME SiteTypeOK, NEW w \in Worker,
         entry' = [entry EXCEPT ![w] = Nobody], UNCHANGED issued
  PROVE  /\ entry' \in [Worker -> Entry]
         /\ (\A v \in Worker : entry[v].pc = "logout" => entry[v].token \in issued)'
<1>1. Nobody.pc # "logout"
  BY DEF Nobody
<1> QED
  BY <1>1, EntryFrame, EntryShapes

LEMMA EntryStepType ==
  ASSUME SiteTypeOK, TypeOK, NEW w \in Worker, EntryStep(w)
  PROVE  SiteTypeOK'
<1>1. CASE CurrentActor(w)
  <2>1. PICK t \in DOMAIN sessions :
          entry' = [entry EXCEPT ![w] = [pc |-> "actor", actor |-> sessions[t].account]]
    BY <1>1 DEF CurrentActor
  <2>2. sessions[t].account \in Account
    BY DEF SiteTypeOK, Session
  <2>3. [pc |-> "actor", actor |-> sessions[t].account] \in Entry
    BY <2>2, EntryShapes
  <2> QED
    BY <1>1, <2>1, <2>3, EntryFrame DEF CurrentActor, SiteTypeOK
<1>2. CASE Handle(w) \/ Browse(w) \/ EntryFail(w)
  BY <1>2, NobodyFrame DEF Handle, Browse, EntryFail, SiteTypeOK
<1>3. CASE GetOrder(w)
  <2>1. PICK o \in DOMAIN orders :
          entry' = [entry EXCEPT ![w] =
                      [pc |-> "detail", actor |-> entry[w].actor, order |-> o]]
    BY <1>3 DEF GetOrder
  <2>2. entry[w].actor \in Account /\ o \in OrderId
    BY <1>3, EntryType DEF GetOrder, TypeOK, SiteTypeOK
  <2>3. [pc |-> "detail", actor |-> entry[w].actor, order |-> o] \in Entry
    BY <2>2, EntryShapes
  <2> QED
    BY <1>3, <2>1, <2>3, EntryFrame DEF GetOrder, SiteTypeOK
<1>4. CASE GetOrderCode(w)
  <2> DEFINE o == entry[w].order
             found == {c \in DOMAIN codes : codes[c].order_id = o}
  <2>1. PICK c \in IF found = {} THEN {None} ELSE found :
          shown' = shown \cup {[account |-> entry[w].actor, order |-> o, code |-> c]}
    BY <1>4 DEF GetOrderCode
  <2>2. entry[w].actor \in Account /\ o \in OrderId /\ c \in CodeId \cup {None}
    BY <1>4, EntryType DEF GetOrderCode, TypeOK, SiteTypeOK
  <2>3. shown' \subseteq Detail
    BY <2>1, <2>2 DEF Detail, SiteTypeOK
  <2> QED
    BY <1>4, <2>3, NobodyFrame DEF GetOrderCode, SiteTypeOK
<1>5. CASE Logout(w)
  <2>1. CASE UNCHANGED entry
    BY <1>5, <2>1 DEF Logout, SiteTypeOK
  <2>2. CASE \E t \in issued : entry' = [entry EXCEPT ![w] = [pc |-> "logout", token |-> t]]
    <3>1. PICK t \in issued : entry' = [entry EXCEPT ![w] = [pc |-> "logout", token |-> t]]
      BY <2>2
    <3>2. [pc |-> "logout", token |-> t] \in Entry
      BY EntryShapes DEF SiteTypeOK
    <3> QED
      BY <1>5, <3>1, <3>2, EntryFrame DEF Logout, SiteTypeOK
  <2> QED
    BY <1>5, <2>1, <2>2 DEF Logout
<1>6. CASE LogoutCommit(w)
  <2>1. ended' \subseteq issued' /\ DOMAIN sessions' \subseteq issued'
    BY <1>6 DEF LogoutCommit, SiteTypeOK
  <2>2. sessions' \in [DOMAIN sessions' -> Session]
    BY <1>6 DEF LogoutCommit, SiteTypeOK
  <2> QED
    BY <1>6, <2>1, <2>2, NobodyFrame DEF LogoutCommit, SiteTypeOK
<1> QED
  BY <1>1, <1>2, <1>3, <1>4, <1>5, <1>6 DEF EntryStep

LEMMA FailedType ==
  ASSUME NEW f \in Failed
  PROVE  /\ [f EXCEPT !.logins = @ + 1] \in Failed
         /\ [f EXCEPT !.logins = @ + 1, !.lines = @ + 1] \in Failed
         /\ [f EXCEPT !.rows = @ + 1] \in Failed
         /\ [f EXCEPT !.answers = @ + 1] \in Failed
<1>1. /\ f = [lines |-> f.lines, rows |-> f.rows, answers |-> f.answers, logins |-> f.logins]
      /\ f.lines \in Nat /\ f.rows \in Nat /\ f.answers \in Nat /\ f.logins \in Nat
  BY DEF Failed
<1>2. /\ f.lines + 1 \in Nat /\ f.rows + 1 \in Nat
      /\ f.answers + 1 \in Nat /\ f.logins + 1 \in Nat
  BY <1>1
<1> QED
  BY <1>1, <1>2 DEF Failed

LEMMA LoginStepType ==
  ASSUME SiteTypeOK, TypeOK,
         LoginStep \/ \E c, p \in Account \cup {None} : LoginBody(c, p)
  PROVE  SiteTypeOK'
<1>1. ASSUME NEW c \in Account \cup {None}, NEW p \in Account \cup {None}, LoginBody(c, p)
      PROVE  SiteTypeOK'
  <2>1. login' \in Login /\ proven' \subseteq Account
    BY <1>1, EntryShapes DEF LoginBody, CredentialOk, SiteTypeOK, TypeOK
  <2>2. failed' \in Failed
    BY <1>1, FailedType DEF LoginBody, SiteTypeOK
  <2> QED
    BY <1>1, <2>1, <2>2 DEF LoginBody, SiteTypeOK
<1>2. CASE LoginOpen
  <2>1. PICK t \in Token \ issued :
          /\ sessions' = Insert(sessions, t,
               [account |-> login.account, expires_at |-> login.at + SessionTTL])
          /\ issued' = issued \cup {t}
    BY <1>2 DEF LoginOpen
  <2>2. [account |-> login.account, expires_at |-> login.at + SessionTTL] \in Session
    BY <1>2, LoginType, SessionsAssumption DEF LoginOpen, SiteTypeOK, Session
  <2>3. DOMAIN sessions' \subseteq issued' /\ sessions' \in [DOMAIN sessions' -> Session]
    BY <2>1, <2>2 DEF Insert, SiteTypeOK
  <2> QED
    BY <1>2, <2>1, <2>3, EntryShapes DEF LoginOpen, SiteTypeOK
<1>3. CASE LoginRefuse
  <2>1. failed' \in Failed
    BY <1>3, FailedType DEF LoginRefuse, SiteTypeOK
  <2> QED
    BY <1>3, <2>1, EntryShapes DEF LoginRefuse, SiteTypeOK
<1>4. CASE LoginAnswer
  <2>1. failed' \in Failed
    BY <1>4, FailedType DEF LoginAnswer, SiteTypeOK
  <2> QED
    BY <1>4, <2>1, EntryShapes DEF LoginAnswer, SiteTypeOK
<1>5. CASE LoginFails
  BY <1>5, EntryShapes DEF LoginFails, SiteTypeOK
<1> QED
  BY <1>1, <1>2, <1>3, <1>4, <1>5 DEF LoginStep

LEMMA SiteStepType ==
  ASSUME SiteTypeOK, TypeOK, [SiteNext]_allVars
  PROVE  SiteTypeOK'
<1>1. CASE AppStep \/ Quiet \/ UNCHANGED allVars
  BY <1>1 DEF AppStep, Quiet, site, allVars, SiteTypeOK
<1>2. CASE SiteCrash
  <2>1. Nobody.pc # "logout"
    BY DEF Nobody
  <2> QED
    BY <1>2, <2>1, EntryShapes DEF SiteCrash, SiteTypeOK
<1> QED
  BY <1>1, <1>2, EntryStepType, LoginStepType DEF SiteNext

LEMMA InitSiteConsistent == SiteInit => SiteConsistent
<1> SUFFICES ASSUME SiteInit PROVE SiteConsistent
  OBVIOUS
<1>1. SiteTypeOK
  BY EntryShapes DEF SiteInit, SiteTypeOK, Nobody, Failed
<1> QED
  BY <1>1, InitConsistent DEF SiteInit, SiteConsistent

LEMMA SiteStepConsistent ==
  ASSUME SiteConsistent, [SiteNext]_allVars
  PROVE  SiteConsistent'
<1>1. SiteTypeOK' /\ [Next]_vars
  BY SiteStepType, SiteStepIsStep DEF SiteConsistent, Consistent
<1> QED
  BY <1>1, NextConsistent DEF SiteConsistent

THEOREM SiteSpecConsistent == SiteSpec => []SiteConsistent
<1>1. SiteInit => SiteConsistent
  BY InitSiteConsistent
<1>2. SiteConsistent /\ [SiteNext]_allVars => SiteConsistent'
  BY SiteStepConsistent
<1> QED
  BY <1>1, <1>2, PTL DEF SiteSpec

\* Types of the whole site.
THEOREM SiteSpecTypeOK == SiteSpec => []SiteTypeOK
<1>1. SiteConsistent => SiteTypeOK
  BY DEF SiteConsistent
<1> QED
  BY <1>1, SiteSpecConsistent, PTL

\* The site, with its logins, look-ups and reads, implements the application the
\* other theorems are about: all of them hold behind the door too.
THEOREM SiteImplementsSecureApp == SiteSpec => ImplementsSecureApp
<1>1. SiteInit => Init
  BY DEF SiteInit
<1>2. SiteConsistent /\ [SiteNext]_allVars => [Next]_vars
  BY SiteStepIsStep DEF SiteConsistent
<1> QED
  BY <1>1, <1>2, SiteSpecConsistent, PTL DEF SiteSpec, Spec, ImplementsSecureApp
-----------------------------------------------------------------------------
(* Who acts.  People is any set: the lemmas are used with the accounts that *)
(* had presented their password before the step.                            *)

LEMMA TaskBy ==
  ASSUME TypeOK, NEW people, TasksBy(task, people), NEW w \in Worker, NEW t,
         t.pc \in {"flush", "commit"} => WorkBy(t.work, people),
         task' = [task EXCEPT ![w] = t]
  PROVE  TasksBy(task', people)
BY DEF TypeOK, TasksBy

LEMMA IdleBy ==
  ASSUME TypeOK, NEW people, TasksBy(task, people), NEW w \in Worker,
         task' = [task EXCEPT ![w] = Idle]
  PROVE  TasksBy(task', people)
<1>1. Idle.pc = "idle"
  BY DEF Idle
<1> QED
  BY <1>1, TaskBy

LEMMA RequestBy ==
  ASSUME Consistent, NEW people, TasksBy(task, people), NEW w \in Worker,
         NEW a \in Account, a \in people, SecureRequest(w, a)
  PROVE  UNCHANGED orders /\ TasksBy(task', people)
<1>0. TypeOK
  BY DEF Consistent
<1>1. ASSUME NEW o \in OrderId, ApproveOrder(w, a, o) \/ RejectOrder(w, a, o)
      PROVE  UNCHANGED orders /\ TasksBy(task', people)
  BY <1>0, <1>1, TaskBy DEF ApproveOrder, RejectOrder, Start, WorkBy, tables
<1>2. CASE Forbid(w)
  BY <1>0, <1>2, IdleBy DEF Forbid, Start, tables
<1>3. ASSUME NEW v \in CodeValue, PresentCode(w, a, v, now) \/ PresentBadCode(w, a, v, now)
      PROVE  UNCHANGED orders /\ TasksBy(task', people)
  BY <1>0, <1>3, TaskBy DEF PresentCode, PresentBadCode, RefusedPickup, Start, WorkBy, tables
<1>4. ASSUME NEW p, NEW wo, NEW quantity, CreateOrder(w, a, p, wo, quantity)
      PROVE  UNCHANGED orders /\ TasksBy(task', people)
  <2>1. NewOrder(a, p, quantity).account = a /\ NewOrder(a, p, quantity).approved_by = None
    BY DEF NewOrder
  <2> QED
    BY <1>0, <1>4, <2>1, TaskBy DEF CreateOrder, StageOrder, Start, WorkBy, tables
<1> QED
  BY <1>1, <1>2, <1>3, <1>4 DEF SecureRequest, WorkflowRequest, DecisionForbidden,
                                CreateRequest, CreateForbidden

\* What a commit does to the orders of the table, and to whom they name.
LEMMA CommitBy ==
  ASSUME Consistent, NEW people, OrdersBy(orders, people), TasksBy(task, people),
         NEW w \in Worker, Commit(w)
  PROVE  OrdersBy(orders', people) /\ TasksBy(task', people)
<1>0. TypeOK
  BY DEF Consistent
<1>1. PICK r \in Reason : CommitWork(w, r)
  BY DEF Commit, CommitCreate, CommitApprove, CommitReject, CommitCollect,
         CommitRefuse, Reason
<1>2. TasksBy(task', people)
  BY <1>0, <1>1, IdleBy DEF CommitWork
<1> DEFINE u == task[w].work
<1>3. u \in Work /\ u.reason = r /\ WorkBy(u, people) /\ DecisionOK(u) /\ CollectOK(u)
  BY <1>1, CommitFrame DEF CommitWork, TasksBy
<1> HIDE DEF u
<1>4. CASE CommitCreate(w)
  <2>1. PICK o \in OrderId \ DOMAIN orders : orders' = Insert(orders, o, u.draft)
    BY <1>4 DEF CommitCreate, u
  <2>2. u.draft.account \in people /\ u.draft.approved_by = None
    BY <1>3, <1>4 DEF CommitCreate, CommitWork, WorkBy, u
  <2>3. OrdersBy(orders', people)
    BY <2>1, <2>2 DEF Insert, OrdersBy
  <2> QED
    BY <1>2, <2>3
<1>5. ASSUME NEW s \in OrderState, u.order \in DOMAIN orders,
             u.actor \in Account, u.actor \in people,
             orders' = [orders EXCEPT ![u.order].state = s, ![u.order].approved_by = u.actor]
      PROVE  OrdersBy(orders', people)
  <2> DEFINE o == u.order
             a == u.actor
  <2>1. orders' = [orders EXCEPT ![o].state = s, ![o].approved_by = a]
    BY <1>5
  <2>2. o \in DOMAIN orders /\ a \in Account /\ a \in people
    BY <1>5
  <2> HIDE DEF o, a
  <2>3. /\ DOMAIN orders' = DOMAIN orders
        /\ \A x \in DOMAIN orders : /\ orders'[x].account = orders[x].account
                                    /\ x # o => orders'[x] = orders[x]
        /\ orders'[o].approved_by = a
    BY <1>0, <2>1, <2>2, DecidedOrders
  <2> QED
    BY <2>2, <2>3 DEF OrdersBy
<1>6. CASE CommitApprove(w)
  <2>1. u.reason = "order_approved"
    BY <1>6 DEF CommitApprove, CommitWork, u
  <2>2. u.order \in DOMAIN orders /\ u.actor \in Account /\ u.actor \in people
    BY <1>3, <2>1, WorkType DEF DecisionOK, WorkBy, Approve
  <2>3. orders' = [orders EXCEPT ![u.order].state = "approved",
                                 ![u.order].approved_by = u.actor]
    BY <1>6 DEF CommitApprove, u
  <2> QED
    BY <1>2, <1>5, <2>2, <2>3 DEF OrderState
<1>7. CASE CommitReject(w)
  <2>1. u.reason = "order_rejected"
    BY <1>7 DEF CommitReject, CommitWork, u
  <2>2. u.order \in DOMAIN orders /\ u.actor \in Account /\ u.actor \in people
    BY <1>3, <2>1, WorkType DEF DecisionOK, WorkBy, Reject
  <2>3. orders' = [orders EXCEPT ![u.order].state = "rejected",
                                 ![u.order].approved_by = u.actor]
    BY <1>7 DEF CommitReject, u
  <2> QED
    BY <1>2, <1>5, <2>2, <2>3 DEF OrderState
<1>8. CASE CommitCollect(w)
  <2>1. orders' = [orders EXCEPT ![u.order].state = "collected",
                                 ![u.order].collected_at = u.at]
    BY <1>8 DEF CommitCollect, u
  <2>2. \A x \in DOMAIN orders' : /\ x \in DOMAIN orders
                                  /\ orders'[x].account = orders[x].account
                                  /\ orders'[x].approved_by = orders[x].approved_by
    BY <1>0, <2>1 DEF TypeOK, Order
  <2> QED
    BY <1>2, <2>2 DEF OrdersBy
<1>9. CASE CommitRefuse(w)
  BY <1>2, <1>9 DEF CommitRefuse
<1> QED
  BY <1>4, <1>6, <1>7, <1>8, <1>9 DEF Commit

LEMMA AdvanceBy ==
  ASSUME Consistent, NEW people, OrdersBy(orders, people), TasksBy(task, people),
         NEW w \in Worker, Advance(w) \/ Fail(w)
  PROVE  OrdersBy(orders', people) /\ TasksBy(task', people)
<1>0. TypeOK
  BY DEF Consistent
<1>1. CASE ReadOrder(w)
  <2>1. TasksBy(task', people)
    BY <1>0, <1>1 DEF ReadOrder, TasksBy, TypeOK, Task
  <2> QED
    BY <1>1, <2>1 DEF ReadOrder, tables
<1>2. CASE ReadUncollectable(w) \/ ReadPart(w)
  <2>1. PICK t : /\ task' = [task EXCEPT ![w] = t]
                 /\ t.pc \in {"flush", "commit"} => WorkBy(t.work, people)
    BY <1>2 DEF ReadUncollectable, ReadPart, RefusedPickup, WorkBy
  <2> QED
    BY <1>0, <1>2, <2>1, TaskBy DEF ReadUncollectable, ReadPart, tables
<1>3. CASE Flush(w)
  <2> DEFINE u == task[w].work
  <2>1. u \in Work /\ WorkBy(u, people) /\ task[w] = [pc |-> "flush", work |-> u]
    BY <1>0, <1>3, WorkingType DEF Flush, TypeOK, TasksBy
  <2>2. CASE u.reason = "order_approved"
    <3>1. PICK at : task' = [task EXCEPT ![w] = [pc |-> "commit",
                     work |-> [u EXCEPT !.at = at, !.issue = ~HasCode(u.order)]]]
      BY <1>3, <2>2 DEF Flush
    <3>2. u \in Approve
      BY <2>1, <2>2, WorkType
    <3>3. WorkBy([u EXCEPT !.at = at, !.issue = ~HasCode(u.order)], people)
      BY <2>1, <2>2, <3>2 DEF WorkBy, Approve
    <3> QED
      BY <1>0, <1>3, <3>1, <3>3, TaskBy DEF Flush, tables
  <2>3. CASE u.reason # "order_approved"
    <3>1. task' = [task EXCEPT ![w].pc = "commit"]
      BY <1>3, <2>3 DEF Flush
    <3>2. TasksBy(task', people)
      BY <1>0, <2>1, <3>1 DEF TasksBy, TypeOK
    <3> QED
      BY <1>3, <3>2 DEF Flush, tables
  <2> QED
    BY <2>2, <2>3
<1>4. CASE Rollback(w)
  BY <1>0, <1>4, IdleBy DEF Rollback, tables
<1> QED
  BY <1>1, <1>2, <1>3, <1>4, CommitBy DEF Advance, BusyTimeout, Fail

LEMMA CrashBy ==
  ASSUME NEW people, Crash \/ UNCHANGED vars, TasksBy(task, people)
  PROVE  UNCHANGED orders /\ TasksBy(task', people)
BY DEF Crash, vars, tables, TasksBy, Idle

-----------------------------------------------------------------------------
(* The door's own promises. *)

\* Who has presented a password has done so for good.
LEMMA MoreBy ==
  ASSUME NEW people, NEW more, people \subseteq more
  PROVE  /\ \A table : OrdersBy(table, people) => OrdersBy(table, more)
         /\ \A tasks : TasksBy(tasks, people) => TasksBy(tasks, more)
BY DEF OrdersBy, TasksBy, WorkBy

LEMMA EntryBy ==
  ASSUME SiteConsistent, SignedIn, NEW w \in Worker, EntryStep(w)
  PROVE  SignedIn'
<1> USE DEF SignedIn, SiteConsistent
<1>0. entry \in [Worker -> Entry] /\ UNCHANGED <<login, proven>>
  BY DEF SiteTypeOK, EntryStep, CurrentActor, Handle, Browse, GetOrder, GetOrderCode,
         Logout, LogoutCommit, EntryFail
<1>1. OrdersBy(orders', proven) /\ TasksBy(task', proven)
  <2>1. CASE Handle(w)
    <3>1. entry[w].actor \in Account /\ entry[w].actor \in proven
      BY <1>0, <2>1, EntryType DEF Handle, DoorBy
    <3>2. SecureRequest(w, entry[w].actor)
      BY <2>1 DEF Handle
    <3> QED
      BY <3>1, <3>2, RequestBy
  <2>2. CASE UNCHANGED vars
    BY <2>2 DEF vars
  <2> QED
    BY <2>1, <2>2 DEF EntryStep, CurrentActor, Browse, GetOrder, GetOrderCode, Logout,
                      LogoutCommit, EntryFail
<1>2. \A t \in DOMAIN sessions' : t \in DOMAIN sessions /\ sessions'[t] = sessions[t]
  BY DEF EntryStep, CurrentActor, Handle, Browse, GetOrder, GetOrderCode, Logout,
         LogoutCommit, EntryFail
<1>3. \A v \in Worker :
        entry'[v].pc \in {"actor", "detail"} => entry'[v].actor \in proven
  <2>1. CASE CurrentActor(w)
    BY <1>0, <2>1 DEF CurrentActor, DoorBy
  <2>2. CASE GetOrder(w)
    BY <1>0, <2>2 DEF GetOrder, DoorBy
  <2>3. CASE Logout(w)
    BY <1>0, <2>3 DEF Logout, DoorBy
  <2>4. CASE entry' = [entry EXCEPT ![w] = Nobody]
    BY <1>0, <2>4 DEF DoorBy, Nobody
  <2> QED
    BY <2>1, <2>2, <2>3, <2>4 DEF EntryStep, Handle, Browse, GetOrderCode,
                                  LogoutCommit, EntryFail
<1> QED
  BY <1>0, <1>1, <1>2, <1>3 DEF DoorBy

LEMMA LoginBodyBy ==
  ASSUME SiteConsistent, SignedIn, NEW c \in Account \cup {None},
         NEW p \in Account \cup {None}, LoginBody(c, p)
  PROVE  SignedIn'
<1>1. UNCHANGED <<vars, sessions, entry>> /\ proven \subseteq proven'
  BY DEF LoginBody
<1>2. login'.pc = "open" => login'.account \in proven'
  <2>1. CASE login' = [pc |-> "refuse"]
    BY <2>1
  <2>2. CASE CredentialOk(c, p) /\ login' = [pc |-> "open", account |-> c, at |-> now]
    <3>1. c \in proven'
      BY <2>2 DEF LoginBody, CredentialOk
    <3> QED
      BY <2>2, <3>1
  <2> QED
    BY <2>1, <2>2 DEF LoginBody
<1>3. OrdersBy(orders, proven') /\ TasksBy(task, proven')
  BY <1>1, MoreBy DEF SignedIn
<1> QED
  BY <1>1, <1>2, <1>3 DEF SignedIn, DoorBy, vars

LEMMA LoginStepBy ==
  ASSUME SiteConsistent, SignedIn, LoginStep
  PROVE  SignedIn'
<1>1. UNCHANGED <<vars, entry, proven>> /\ login'.pc # "open"
  BY DEF LoginStep, LoginOpen, LoginRefuse, LoginAnswer, LoginFails, Nobody
<1>2. \A t \in DOMAIN sessions' : sessions'[t].account \in proven
  <2>1. CASE LoginOpen
    <3>1. PICK t \in Token : sessions' = Insert(sessions, t,
            [account |-> login.account, expires_at |-> login.at + SessionTTL])
      BY <2>1 DEF LoginOpen
    <3>2. login.account \in proven
      BY <2>1 DEF LoginOpen, SignedIn, DoorBy
    <3> QED
      BY <3>1, <3>2 DEF Insert, SignedIn, DoorBy
  <2>2. CASE UNCHANGED sessions
    BY <2>2 DEF SignedIn, DoorBy
  <2> QED
    BY <2>1, <2>2 DEF LoginStep, LoginRefuse, LoginAnswer, LoginFails
<1> QED
  BY <1>1, <1>2 DEF SignedIn, DoorBy, vars

LEMMA SiteStepBy ==
  ASSUME SiteConsistent, SignedIn, [SiteNext]_allVars
  PROVE  SignedIn'
<1>1. CASE AppStep
  <2>1. CASE Tick
    BY <1>1, <2>1 DEF AppStep, Tick, tables, site, SignedIn, DoorBy
  <2>2. ASSUME NEW w \in Worker, Advance(w) \/ Fail(w)
        PROVE  OrdersBy(orders', proven) /\ TasksBy(task', proven)
    BY <2>2, AdvanceBy DEF SiteConsistent, SignedIn
  <2> QED
    BY <1>1, <2>1, <2>2 DEF AppStep, site, SignedIn, DoorBy
<1>2. CASE SiteCrash
  <2>1. OrdersBy(orders', proven) /\ TasksBy(task', proven)
    BY <1>2, CrashBy DEF SiteCrash, SignedIn
  <2> QED
    BY <1>2, <2>1 DEF SiteCrash, SignedIn, DoorBy, Nobody
<1>3. CASE Quiet \/ UNCHANGED allVars
  BY <1>3 DEF Quiet, allVars, site, vars, SignedIn, DoorBy
<1> QED
  BY <1>1, <1>2, <1>3, EntryBy, LoginBodyBy, LoginStepBy DEF SiteNext

\* Nothing is ordered or decided in the name of an account whose password nobody
\* presented, through any number of sessions, expiries, logouts and restarts.
THEOREM SiteOnlySignedInAct == SiteSpec => []OnlySignedInAct
<1>1. SiteInit => SignedIn
  BY DEF SiteInit, Init, WorkflowInit, SignedIn, OrdersBy, TasksBy, DoorBy, Idle, Nobody
<1>2. SiteConsistent /\ SignedIn /\ [SiteNext]_allVars => SignedIn'
  BY SiteStepBy
<1>3. SignedIn => OnlySignedInAct
  BY DEF SignedIn, OrdersBy, OnlySignedInAct
<1> QED
  BY <1>1, <1>2, <1>3, SiteSpecConsistent, PTL DEF SiteSpec

\* An answered logout is final: its token is in no later sessions table.
THEOREM SiteLoggedOutStaysOut == SiteSpec => []LoggedOutStaysOut
<1>1. SiteInit => LoggedOutStaysOut
  BY DEF SiteInit, LoggedOutStaysOut
<1>2. SiteConsistent /\ LoggedOutStaysOut /\ [SiteNext]_allVars => LoggedOutStaysOut'
  <2> SUFFICES ASSUME SiteTypeOK, LoggedOutStaysOut, [SiteNext]_allVars
               PROVE  LoggedOutStaysOut'
    BY DEF SiteConsistent
  <2>1. CASE UNCHANGED <<sessions, ended>>
    BY <2>1 DEF LoggedOutStaysOut
  <2>2. CASE LoginOpen
    BY <2>2 DEF LoginOpen, Insert, LoggedOutStaysOut, SiteTypeOK
  <2>3. ASSUME NEW w \in Worker, Logout(w) \/ LogoutCommit(w)
        PROVE  LoggedOutStaysOut'
    BY <2>3 DEF Logout, LogoutCommit, LoggedOutStaysOut
  <2> QED
    BY <2>1, <2>2, <2>3
       DEF SiteNext, EntryStep, CurrentActor, Handle, Browse, GetOrder, GetOrderCode,
           EntryFail, LoginBody, LoginStep, LoginRefuse, LoginAnswer, LoginFails, AppStep,
           SiteCrash, Quiet, site, allVars
<1> QED
  BY <1>1, <1>2, SiteSpecConsistent, PTL DEF SiteSpec

\* Whatever becomes of a refused login, its 401 never goes out without its row,
\* nor is its row ever written without its line.
THEOREM SiteFailedLoginsAudited == SiteSpec => []FailedLoginsAudited
<1>1. SiteInit => LoginsOK
  BY DEF SiteInit, LoginsOK, Refusing, Answering, Nobody
<1>2. SiteConsistent /\ LoginsOK /\ [SiteNext]_allVars => LoginsOK'
  <2> SUFFICES ASSUME SiteTypeOK, LoginsOK, [SiteNext]_allVars
               PROVE  LoginsOK'
    BY DEF SiteConsistent
  <2>0. /\ failed = [lines |-> failed.lines, rows |-> failed.rows,
                     answers |-> failed.answers, logins |-> failed.logins]
        /\ failed.lines \in Nat /\ failed.rows \in Nat
        /\ failed.answers \in Nat /\ failed.logins \in Nat
    BY DEF SiteTypeOK, Failed
  <2>1. CASE UNCHANGED <<failed, login>>
    BY <2>1 DEF LoginsOK, Refusing, Answering
  <2>2. ASSUME NEW c, NEW p, LoginBody(c, p)
        PROVE  LoginsOK'
    <3>0. login.pc \notin {"refuse", "answer"}
      BY <2>2 DEF LoginBody, Nobody
    <3>1. CASE login' = [pc |-> "open", account |-> c, at |-> now]
               /\ failed' = [failed EXCEPT !.logins = @ + 1]
      <4>1. /\ login'.pc = "open"
            /\ failed'.rows = failed.rows /\ failed'.answers = failed.answers
            /\ failed'.lines = failed.lines
        BY <2>0, <3>1
      <4> QED
        BY <2>0, <3>0, <4>1 DEF LoginsOK, Refusing, Answering
    <3>2. CASE login' = [pc |-> "refuse"]
               /\ failed' = [failed EXCEPT !.logins = @ + 1, !.lines = @ + 1]
      <4>1. /\ login'.pc = "refuse"
            /\ failed'.rows = failed.rows /\ failed'.answers = failed.answers
            /\ failed'.lines = failed.lines + 1
        BY <2>0, <3>2
      <4> QED
        BY <2>0, <3>0, <4>1 DEF LoginsOK, Refusing, Answering
    <3> QED
      BY <2>2, <3>1, <3>2 DEF LoginBody
  <2>3. CASE LoginRefuse
    BY <2>0, <2>3 DEF LoginRefuse, LoginsOK, Refusing, Answering, Nobody
  <2>4. CASE LoginAnswer
    BY <2>0, <2>4 DEF LoginAnswer, LoginsOK, Refusing, Answering, Nobody
  <2>5. CASE UNCHANGED failed /\ login' = Nobody
    BY <2>0, <2>5 DEF LoginsOK, Refusing, Answering, Nobody
  <2> QED
    BY <2>1, <2>2, <2>3, <2>4, <2>5
       DEF SiteNext, EntryStep, CurrentActor, Handle, Browse, GetOrder, GetOrderCode,
           Logout, LogoutCommit, EntryFail, LoginStep, LoginOpen, LoginFails, AppStep,
           SiteCrash, Quiet, site, allVars
<1>3. SiteConsistent /\ LoginsOK => FailedLoginsAudited
  BY DEF SiteConsistent, SiteTypeOK, Failed, LoginsOK, Refusing, Answering, FailedLoginsAudited
<1> QED
  BY <1>1, <1>2, <1>3, SiteSpecConsistent, PTL DEF SiteSpec

-----------------------------------------------------------------------------
(* What an owner is shown. *)

\* Rows are never deleted, nor given to someone else.
Kept ==
  /\ \A o \in DOMAIN orders :
       o \in DOMAIN orders' /\ orders'[o].account = orders[o].account
  /\ \A c \in DOMAIN codes :
       /\ c \in DOMAIN codes'
       /\ codes'[c].order_id = codes[c].order_id
       /\ codes'[c].owner = codes[c].owner

LEMMA CommitKept ==
  ASSUME Consistent, NEW w \in Worker, Commit(w)
  PROVE  Kept
<1>0. TypeOK
  BY DEF Consistent
<1>1. CASE CommitCreate(w)
  <2>1. PICK o \in OrderId \ DOMAIN orders : orders' = Insert(orders, o, task[w].work.draft)
    BY <1>1 DEF CommitCreate
  <2>2. UNCHANGED codes
          \/ \E row : \E c \in CodeId \ DOMAIN codes : codes' = Insert(codes, c, row)
    BY <1>1 DEF CommitCreate
  <2> QED
    BY <2>1, <2>2 DEF Insert, Kept
<1>2. ASSUME NEW o, NEW s, NEW a,
             orders' = [orders EXCEPT ![o].state = s, ![o].approved_by = a]
      PROVE  \A x \in DOMAIN orders :
               x \in DOMAIN orders' /\ orders'[x].account = orders[x].account
  BY <1>0, <1>2 DEF TypeOK, Order
<1>3. CASE CommitApprove(w)
  <2>1. \A x \in DOMAIN orders :
          x \in DOMAIN orders' /\ orders'[x].account = orders[x].account
    BY <1>2, <1>3 DEF CommitApprove
  <2>2. UNCHANGED codes
          \/ \E row : \E c \in CodeId \ DOMAIN codes : codes' = Insert(codes, c, row)
    BY <1>3 DEF CommitApprove
  <2> QED
    BY <2>1, <2>2 DEF Insert, Kept
<1>4. CASE CommitReject(w)
  BY <1>2, <1>4 DEF CommitReject, Kept
<1>5. CASE CommitCollect(w)
  <2>1. PICK o, at : orders' = [orders EXCEPT ![o].state = "collected",
                                              ![o].collected_at = at]
    BY <1>5 DEF CommitCollect
  <2>2. \A x \in DOMAIN orders :
          x \in DOMAIN orders' /\ orders'[x].account = orders[x].account
    BY <1>0, <2>1 DEF TypeOK, Order
  <2>3. PICK c : codes' = [codes EXCEPT ![c].used = TRUE]
    BY <1>5 DEF CommitCollect
  <2>4. \A x \in DOMAIN codes :
          /\ x \in DOMAIN codes'
          /\ codes'[x].order_id = codes[x].order_id
          /\ codes'[x].owner = codes[x].owner
    BY <1>0, <2>3 DEF TypeOK, PickupCode
  <2> QED
    BY <2>2, <2>4 DEF Kept
<1>6. CASE CommitRefuse(w)
  BY <1>6 DEF CommitRefuse, Kept
<1> QED
  BY <1>1, <1>3, <1>4, <1>5, <1>6 DEF Commit

LEMMA StepKept ==
  ASSUME Consistent, [Next]_vars
  PROVE  Kept
<1>1. CASE UNCHANGED <<orders, codes>>
  BY <1>1 DEF Kept
<1>2. ASSUME NEW w \in Worker, Advance(w) PROVE Kept
  BY <1>1, <1>2, CommitKept DEF Advance, ReadOrder, ReadUncollectable, ReadPart, Flush,
                                BusyTimeout, Rollback, tables
<1>3. ASSUME NEW w \in Worker, NEW a \in Account, SecureRequest(w, a)
      PROVE  UNCHANGED <<orders, codes>>
  BY <1>3 DEF SecureRequest, WorkflowRequest, ApproveOrder, RejectOrder,
              DecisionForbidden, PresentCode, PresentBadCode, CreateRequest, CreateOrder,
              StageOrder, CreateForbidden, Forbid, tables
<1> QED
  BY <1>1, <1>2, <1>3 DEF Next, WorkflowStep, Fail, Rollback, Crash, Tick, AtBound, vars,
                          tables

LEMMA DetailKept ==
  ASSUME DetailOK, Kept, UNCHANGED shown,
         \A w \in Worker : entry'[w] = entry[w] \/ entry'[w].pc # "detail"
  PROVE  DetailOK'
<1>1. OwnerSeesCode'
  BY DEF DetailOK, Kept, OwnerSeesCode
<1>2. ASSUME NEW w \in Worker, entry'[w].pc = "detail"
      PROVE  /\ entry'[w].order \in DOMAIN orders'
             /\ orders'[entry'[w].order].account = entry'[w].actor
             /\ HasCode(entry[w].order)'
  <2>1. entry'[w] = entry[w]
    BY <1>2
  <2> QED
    BY <1>2, <2>1 DEF DetailOK, Kept, HasCode
<1> QED
  BY <1>1, <1>2 DEF DetailOK

LEMMA GetOrderDetail ==
  ASSUME SiteConsistent, DetailOK, NEW w \in Worker, GetOrder(w)
  PROVE  DetailOK'
<1>0. entry \in [Worker -> Entry] /\ UNCHANGED <<orders, codes, shown>>
  BY DEF SiteConsistent, SiteTypeOK, GetOrder, vars
<1>1. PICK o \in DOMAIN orders :
        /\ ShowsCode(entry[w].actor, o)
        /\ entry' = [entry EXCEPT ![w] =
                      [pc |-> "detail", actor |-> entry[w].actor, order |-> o]]
  BY DEF GetOrder
<1>2. orders[o].account = entry[w].actor /\ HasCode(o)
  BY <1>1 DEF ShowsCode, SiteConsistent, Consistent, TablesOK, CodeFollowsRelease
<1> QED
  BY <1>0, <1>1, <1>2 DEF DetailOK, OwnerSeesCode, HasCode

LEMMA GetOrderCodeDetail ==
  ASSUME SiteConsistent, DetailOK, NEW w \in Worker, GetOrderCode(w)
  PROVE  DetailOK'
<1> DEFINE o == entry[w].order
           found == {c \in DOMAIN codes : codes[c].order_id = o}
<1>0. /\ entry \in [Worker -> Entry] /\ entry' = [entry EXCEPT ![w] = Nobody]
      /\ UNCHANGED <<orders, codes>>
  BY DEF SiteConsistent, SiteTypeOK, GetOrderCode, vars
<1>1. PICK c \in IF found = {} THEN {None} ELSE found :
        shown' = shown \cup {[account |-> entry[w].actor, order |-> o, code |-> c]}
  BY DEF GetOrderCode
<1>2. orders[o].account = entry[w].actor /\ found # {}
  BY DEF GetOrderCode, DetailOK, HasCode
<1>3. c \in DOMAIN codes /\ codes[c].order_id = o
  BY <1>1, <1>2
<1>4. codes[c].owner = entry[w].actor
  BY <1>2, <1>3 DEF SiteConsistent, Consistent, TablesOK, CodeFollowsRelease
<1>5. OwnerSeesCode'
  BY <1>0, <1>1, <1>3, <1>4 DEF DetailOK, OwnerSeesCode
<1> QED
  BY <1>0, <1>5 DEF DetailOK, Nobody, HasCode

\* An owner shown a released order is shown its code, and only an owner is,
\* although the code is read by a later statement than the order.
THEOREM SiteOwnerSeesCode == SiteSpec => []OwnerSeesCode
<1>1. SiteInit => DetailOK
  BY DEF SiteInit, DetailOK, OwnerSeesCode, Nobody
<1>2. SiteConsistent /\ DetailOK /\ [SiteNext]_allVars => DetailOK'
  <2> SUFFICES ASSUME SiteConsistent, DetailOK, [SiteNext]_allVars
               PROVE  DetailOK'
    OBVIOUS
  <2>0. Kept /\ entry \in [Worker -> Entry]
    BY SiteStepIsStep, StepKept DEF SiteConsistent, SiteTypeOK
  <2>1. CASE UNCHANGED <<entry, shown>>
    BY <2>0, <2>1, DetailKept
  <2>2. ASSUME NEW w \in Worker, EntryStep(w) PROVE DetailOK'
    <3>1. ASSUME NEW e, e.pc # "detail", entry' = [entry EXCEPT ![w] = e], UNCHANGED shown
          PROVE  DetailOK'
      BY <2>0, <3>1, DetailKept
    <3>2. CASE CurrentActor(w)
      <4>1. PICK e : e.pc = "actor" /\ entry' = [entry EXCEPT ![w] = e]
        BY <3>2 DEF CurrentActor
      <4> QED
        BY <3>1, <3>2, <4>1 DEF CurrentActor
    <3>3. CASE Handle(w) \/ Browse(w) \/ LogoutCommit(w) \/ EntryFail(w)
      BY <3>1, <3>3 DEF Handle, Browse, LogoutCommit, EntryFail, Nobody
    <3>4. CASE Logout(w)
      <4>1. CASE UNCHANGED entry
        BY <2>1, <3>4, <4>1 DEF Logout
      <4>2. CASE ~UNCHANGED entry
        <5>1. PICK e : e.pc = "logout" /\ entry' = [entry EXCEPT ![w] = e]
          BY <3>4, <4>2 DEF Logout
        <5> QED
          BY <3>1, <3>4, <5>1 DEF Logout
      <4> QED
        BY <4>1, <4>2
    <3> QED
      BY <2>2, <3>2, <3>3, <3>4, GetOrderDetail, GetOrderCodeDetail DEF EntryStep
  <2>3. CASE SiteCrash
    BY <2>0, <2>3, DetailKept DEF SiteCrash, Nobody
  <2> QED
    BY <2>1, <2>2, <2>3 DEF SiteNext, LoginBody, LoginStep, LoginOpen, LoginRefuse,
                            LoginAnswer, LoginFails, AppStep, Quiet, site, allVars
<1>3. DetailOK => OwnerSeesCode
  BY DEF DetailOK
<1> QED
  BY <1>1, <1>2, <1>3, SiteSpecConsistent, PTL DEF SiteSpec

\* Behind its door, too, a site that serves requests one at a time is the abstract
\* parts desk: logins, look-ups, reads and restarts are invisible to it.
THEOREM SiteImplementsDesk ==
  ASSUME SingleThread
  PROVE  SiteSpec => ImplementsDesk
BY SiteImplementsSecureApp, SerialImplementsDesk, PTL DEF ImplementsSecureApp
=============================================================================
