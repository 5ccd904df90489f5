--------------------------- MODULE BodyTrustingApp --------------------------
(***************************************************************************)
(* The two contrast applications: the shared workflow with the create_order*)
(* of apps/bodytrusting.py, which checks the signature of a posted body    *)
(* and then takes every fact from it.  The vulnerable application runs it  *)
(* with EnforcePickupOwner = FALSE, the half-fixed one with TRUE.          *)
(***************************************************************************)
EXTENDS WorkflowProperties, Signing

CONSTANTS
  WorkOrder,       \* rows of the work_orders table
  WorkOrderOwner,  \* WorkOrder -> the account it is assigned to
  Forms            \* the forms clients sign and post

Bodies == {Parsed(form) : form \in Forms}

\* What the schema SignedOrderRequest lets through: a form has the required
\* fields, of the types it names once it is read, and any of its optional fields
\* may be null.  JavaScript writes something of every value, of a flag a flag.
ASSUME FormsAssumption ==
  /\ WorkOrderOwner \in [WorkOrder -> Account]
  /\ None \notin Bodies /\ None \notin BOOLEAN /\ None \notin Int
  /\ \A form \in Forms :
       /\ Required \subseteq DOMAIN form /\ DOMAIN form \subseteq Fields
       /\ \A f \in DOMAIN form : Stated(form)[f] # None
       /\ \A f \in Flags \cap DOMAIN form : Stated(form)[f] \in BOOLEAN
  /\ \A body \in Bodies :
       /\ body.quantity \in Nat \ {0} /\ body.line_total_cents \in Int
       /\ body.restricted \in BOOLEAN
       /\ body.within_limit \in BOOLEAN \cup {None}
       /\ body.requires_supervisor \in BOOLEAN \cup {None}
       /\ body.pickup_code \in CodeValue \cup {None}
       /\ body.created_at_epoch \in Int \cup {None}

VARIABLES
  signed,  \* history: the order stated by the text whose signature a thread's
           \* create_order accepted
  basis,   \* history: the order that an order's client signed
  refused  \* history: forms that were refused for the signature made over them

bodyVars == <<vars, signed, basis, refused>>

BodyTypeOK ==
  /\ TypeOK
  /\ signed \in [Worker -> Bodies \cup {None}]
  /\ basis \in [OrderId -> Bodies \cup {None}]
  /\ refused \subseteq Forms
-----------------------------------------------------------------------------
\* Mutant: half a verdict is a verdict.
VerdictPostedInPart(body) ==
  body.within_limit # None \/ body.requires_supervisor # None

VerdictPosted(body) ==
  body.within_limit # None /\ body.requires_supervisor # None

\* The verdict an order is routed on: the posted one, or one computed from the
\* posted price and restriction.
TrustedVerdict(a, body) ==
  IF VerdictPosted(body)
  THEN [within_limit |-> body.within_limit,
        requires_supervisor |-> body.requires_supervisor]
  ELSE ComputeAuthorization(Limit[a], body.restricted, body.line_total_cents)

\* The time an order is said to be created at: an epoch of zero is no epoch.
CreatedAt(body) ==
  IF body.created_at_epoch \in {None, 0} THEN now ELSE body.created_at_epoch

\* What is checked: the actor, the signature over the body, the references.
MayOrder(a, body, signature) ==
  /\ RoleOf[a] = "technician"
  /\ Limit[a] # None
  /\ Verify(CanonicalOrderString(body), signature)
  /\ body.part_number \in Part
  /\ body.work_order_id \in WorkOrder
  /\ WorkOrderOwner[body.work_order_id] = a

TrustedOrder(a, body) ==
  [account |-> a, part |-> body.part_number, quantity |-> body.quantity,
   line_total |-> body.line_total_cents, restricted |-> body.restricted,
   state |-> RouteState(TrustedVerdict(a, body)),
   approved_by |-> None, collected_at |-> None]

\* Mutant: the code is left to the client altogether.
CodeOfBodyOnly(body, state) == body.pickup_code

\* The code an order starts with: the posted one, verbatim, or the server's if
\* the order is released at once.
CodeOfBody(body, state) ==
  IF body.pickup_code # None THEN body.pickup_code
  ELSE IF state = "auto_approved" THEN Fresh ELSE None

CreateOrder(w, a, body, form) ==
  /\ MayOrder(a, body, ClientCanonical(form))
  /\ LET draft == TrustedOrder(a, body)
         code == CodeOfBody(body, draft.state)
     IN  StageOrder(w, draft, code, IF code = Fresh THEN now ELSE CreatedAt(body))
  /\ signed' = [signed EXCEPT ![w] = Stated(form)]
  /\ UNCHANGED <<basis, refused>>

(* 403 or, for the signature, 400: nothing is written.                      *)
CreateForbidden(w, a, body, form) ==
  /\ Forbid(w)
  /\ ~MayOrder(a, body, ClientCanonical(form))
  /\ refused' = IF body = Parsed(form)
                     /\ ~Verify(CanonicalOrderString(body), ClientCanonical(form))
                 THEN refused \cup {form} ELSE refused
  /\ UNCHANGED <<signed, basis>>

\* A minted code is known before its order is committed: a pickup may have taken
\* its clock any time before it finds the row.
OtherRequest(w, a) ==
  /\ \E at \in 0 .. now : WorkflowRequest(w, a, at)
  /\ UNCHANGED <<signed, basis, refused>>

\* The history follows the threads: a body belongs to its order once that is
\* committed.
Record ==
  /\ signed' = [w \in Worker |-> IF task'[w].pc = "idle" THEN None ELSE signed[w]]
  /\ basis' = [o \in OrderId |-> IF o \in DOMAIN orders' \ DOMAIN orders
                                 THEN signed[writer] ELSE basis[o]]
  /\ UNCHANGED refused

BodyInit ==
  /\ WorkflowInit
  /\ signed = [w \in Worker |-> None]
  /\ basis = [o \in OrderId |-> None]
  /\ refused = {}

BodyNext ==
  \/ \E w \in Worker, a \in Account :
       \/ OtherRequest(w, a)
       \/ \E body \in Bodies, form \in Forms :
            CreateOrder(w, a, body, form) \/ CreateForbidden(w, a, body, form)
  \/ WorkflowStep /\ Record
  \/ AtBound /\ UNCHANGED <<signed, basis, refused>>

BodySpec == BodyInit /\ [][BodyNext]_bodyVars
-----------------------------------------------------------------------------
\* A request that nobody touched is refused for the signature its own client made
\* over it only if it has a null or a value the schema converts: but for those,
\* client and server write the same text, whichever optional fields there are.
ClientAgreesWithServer ==
  \A form \in refused : \E f \in DOMAIN form : form[f] \in Loose \cup {None}

\* What is on the desk is what was signed: no order differs from the one its
\* client's text states in part, quantity, total or restriction, and a minted code and
\* its time (but for an epoch of zero) are the signed ones, before, during and
\* after its approval and its collection.
StoredAsSigned ==
  \A o \in DOMAIN orders :
    /\ basis[o] # None
    /\ orders[o].part = basis[o].part_number
    /\ orders[o].quantity = basis[o].quantity
    /\ orders[o].line_total = basis[o].line_total_cents
    /\ orders[o].restricted = basis[o].restricted
    /\ basis[o].pickup_code # None =>
         \A c \in DOMAIN codes :
           codes[c].order_id = o =>
             /\ codes[c].code = basis[o].pickup_code
             /\ basis[o].created_at_epoch \notin {None, 0} =>
                  codes[c].created_at = basis[o].created_at_epoch

\* An order no supervisor decided on was released because its signed body said
\* so: by a full verdict, or else by facts within the technician's limit.
ReleasedAsSigned ==
  \A o \in DOMAIN orders :
    orders[o].state \in {"auto_approved", "collected"} /\ orders[o].approved_by = None =>
      IF None \in {basis[o].within_limit, basis[o].requires_supervisor}
      THEN /\ ~basis[o].restricted
           /\ basis[o].line_total_cents <= Limit[orders[o].account]
      ELSE ~basis[o].requires_supervisor

\* An order that may be collected has a code, minted or drawn: nobody is told
\* an order is approved and left without the means to fetch it.
ReleasedHasCode ==
  \A o \in DOMAIN orders : orders[o].state \in COLLECTABLE_STATES => HasCode(o)

\* Parts leave within the lifetime of the code presented for them, although that
\* lifetime runs from a time the client chose.
CollectedBeforeExpiry ==
  \A c \in DOMAIN codes :
    codes[c].used => orders[codes[c].order_id].collected_at <= codes[c].expires_at
=============================================================================
