------------------------- MODULE KeyjackInvariants --------------------------
(***************************************************************************)
(* The inductive invariants of the whole site: who is behind what is on    *)
(* the desk or on its way there, and what the door remembers.              *)
(***************************************************************************)
EXTENDS KeyjackApp, SecureInvariants

\* An orders table, and threads' units of work, in the name of people only.
OrdersBy(table, people) ==
  \A o \in DOMAIN table :
    table[o].account \in people /\ table[o].approved_by \in people \cup {None}

WorkBy(u, people) ==
  /\ u.reason = "order_created" =>
       u.draft.account \in people /\ u.draft.approved_by = None
  /\ u.reason \in {"order_approved", "order_rejected"} => u.actor \in people

TasksBy(tasks, people) ==
  \A w \in Worker :
    tasks[w].pc \in {"flush", "commit"} => WorkBy(tasks[w].work, people)

\* Sessions, requests and the login under way belong to people who presented
\* their password.
DoorBy(people) ==
  /\ \A t \in DOMAIN sessions : sessions[t].account \in people
  /\ \A w \in Worker : entry[w].pc \in {"actor", "detail"} => entry[w].actor \in people
  /\ login.pc = "open" => login.account \in people

SignedIn ==
  /\ OrdersBy(orders, proven)
  /\ TasksBy(task, proven)
  /\ DoorBy(proven)

\* The refusal under way has its line and not yet its row, or its row and not
\* yet its answer.
Refusing == IF login.pc = "refuse" THEN 1 ELSE 0

Answering == IF login.pc = "answer" THEN 1 ELSE 0

LoginsOK ==
  /\ failed.answers + Answering <= failed.rows
  /\ failed.rows + Refusing <= failed.lines

\* The order whose code an owner waits for is theirs, and has one.
DetailOK ==
  /\ OwnerSeesCode
  /\ \A w \in Worker :
       entry[w].pc = "detail" =>
         /\ entry[w].order \in DOMAIN orders
         /\ orders[entry[w].order].account = entry[w].actor
         /\ HasCode(entry[w].order)

SiteConsistent == SiteTypeOK /\ Consistent

=============================================================================
