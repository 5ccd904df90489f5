----------------------------- MODULE PartsDesk ------------------------------
(***************************************************************************)
(* What the parts desk promises, with no threads, codes or clock: an order *)
(* is released at once or by a supervisor's decision, its parts are handed *)
(* out at most once, and the shelf count follows the hand-outs.            *)
(***************************************************************************)
EXTENDS Integers

CONSTANTS
  OrderId,    \* orders that may be placed
  Part,       \* parts on the shelf
  SeedStock,  \* Part -> count at opening
  Item,       \* what an order may be for: records with fields part, quantity
  AutoItem,   \* the items that are released without a supervisor
  NoItem      \* stands for the item of an order not placed

VARIABLES
  status,  \* OrderId -> how far the order is
  item,    \* OrderId -> what it is for
  shelf    \* Part -> count

desk == <<status, item, shelf>>

Open ==
  /\ status = [o \in OrderId |-> "absent"]
  /\ item = [o \in OrderId |-> NoItem]
  /\ shelf = SeedStock

Move(o, from, to) ==
  /\ status[o] = from
  /\ status' = [status EXCEPT ![o] = to]

Place(o, i) ==
  /\ Move(o, "absent", IF i \in AutoItem THEN "ready" ELSE "waiting")
  /\ item' = [item EXCEPT ![o] = i]
  /\ UNCHANGED shelf

Approve(o) == Move(o, "waiting", "ready") /\ UNCHANGED <<item, shelf>>

Reject(o) == Move(o, "waiting", "rejected") /\ UNCHANGED <<item, shelf>>

HandOut(o) ==
  /\ Move(o, "ready", "collected")
  /\ shelf' = [shelf EXCEPT ![item[o].part] = @ - item[o].quantity]
  /\ UNCHANGED item

DeskNext ==
  \E o \in OrderId : \/ \E i \in Item : Place(o, i)
                     \/ Approve(o)
                     \/ Reject(o)
                     \/ HandOut(o)

DeskSpec == Open /\ [][DeskNext]_desk
=============================================================================
