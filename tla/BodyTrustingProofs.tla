------------------------- MODULE BodyTrustingProofs -------------------------
(***************************************************************************)
(* Proofs about the contrast applications, with and without the check of   *)
(* the owner at pickup: what they keep of the secure application's promises*)
(* although every fact of an order is its client's.                        *)
(***************************************************************************)
EXTENDS BodyRefinement, WorkflowProofs, SequenceTheorems

-----------------------------------------------------------------------------
(***************************************************************************)
(* The inductive invariant of the workflow, whatever orders feed it.       *)
(***************************************************************************)

TablesOK ==
  /\ OneCodePerOrder
  /\ \A c \in DOMAIN codes : codes[c].order_id \in DOMAIN orders
  /\ UsedIffCollected
  /\ ReleasedHasCode
  /\ CollectedBeforeExpiry
  /\ \A o \in DOMAIN orders : orders[o].collected_at # None => HasCode(o)

\* An order not yet inserted is untouched, and brings a code if it is released.
CreateOK(u) ==
  u.reason = "order_created" =>
    /\ u.draft.approved_by = None
    /\ u.draft.collected_at = None
    /\ u.draft.state \in COLLECTABLE_STATES => u.code # None

DecisionOK(u) ==
  u.reason \in {"order_approved", "order_rejected"} => u.order \in DOMAIN orders

CollectOK(u) ==
  u.reason = "order_collected" =>
    /\ u.order \in DOMAIN orders
    /\ u.row \in DOMAIN codes
    /\ codes[u.row].order_id = u.order
    /\ u.at <= codes[u.row].expires_at

ReadOK(t) ==
  t.pc \in {"order", "part"} =>
    t.row \in DOMAIN codes /\ t.at <= codes[t.row].expires_at

WorkOK(t) ==
  t.pc \in {"flush", "commit"} =>
    CreateOK(t.work) /\ DecisionOK(t.work) /\ CollectOK(t.work)

TaskOK(w) == ReadOK(task[w]) /\ WorkOK(task[w]) /\ IssueOK(task[w])

Sound == TypeOK /\ LockOK /\ TablesOK /\ \A w \in Worker : TaskOK(w)
-----------------------------------------------------------------------------
(***************************************************************************)
(* What ties an order to the body its client signed, from the check of the *)
(* signature to the collection.                                            *)
(***************************************************************************)

Carries(row, body) ==
  /\ row.part = body.part_number
  /\ row.quantity = body.quantity
  /\ row.line_total = body.line_total_cents
  /\ row.restricted = body.restricted

\* The signed body releases the order without a supervisor.
SignedRelease(row, body) ==
  IF None \in {body.within_limit, body.requires_supervisor}
  THEN ~body.restricted /\ body.line_total_cents <= Limit[row.account]
  ELSE ~body.requires_supervisor

\* The code and the time that go with the order are the signed ones, if any.
MintedAs(body, code, at) ==
  body.pickup_code # None =>
    /\ code = body.pickup_code
    /\ body.created_at_epoch \notin {None, 0} => at = body.created_at_epoch

Entitled(o) ==
  orders[o].approved_by = None => SignedRelease(orders[o], basis[o])

TablesSigned ==
  \A o \in DOMAIN orders :
    /\ basis[o] \in Bodies
    /\ Carries(orders[o], basis[o])
    /\ basis[o].pickup_code # None => HasCode(o)
    /\ \A c \in DOMAIN codes :
         codes[c].order_id = o => MintedAs(basis[o], codes[c].code, codes[c].created_at)
    /\ orders[o].state \in COLLECTABLE_STATES \cup {"collected"} => Entitled(o)

\* A new order that is not committed yet is as its thread's body says.
DraftSigned(t, body) ==
  t.pc \in {"flush", "commit"} /\ t.work.reason = "order_created" =>
    /\ body \in Bodies
    /\ Carries(t.work.draft, body)
    /\ MintedAs(body, t.work.code, t.work.at)
    /\ t.work.draft.state \in COLLECTABLE_STATES \cup {"collected"} =>
         SignedRelease(t.work.draft, body)

\* A pickup that has read its order's state serves a released order.
PickupEntitled(t) ==
  /\ t.pc = "part" => Entitled(codes[t.row].order_id)
  /\ t.pc \in {"flush", "commit"} /\ t.work.reason = "order_collected" =>
       Entitled(t.work.order)

TaskSigned(w) == DraftSigned(task[w], signed[w]) /\ PickupEntitled(task[w])

\* Only forms with a null or a converted value were refused for their own
\* signature.
RefusedOK ==
  /\ refused \subseteq Forms
  /\ ClientAgreesWithServer

HistoryOK ==
  /\ signed \in [Worker -> Bodies \cup {None}]
  /\ basis \in [OrderId -> Bodies \cup {None}]
  /\ RefusedOK

Bound ==
  /\ HistoryOK
  /\ TablesSigned
  /\ \A w \in Worker : TaskSigned(w)
-----------------------------------------------------------------------------
(***************************************************************************)
(* The signature.  A text is compared by the set of its lines: every line  *)
(* begins with its field's name.                                           *)
(***************************************************************************)

LinesOf(text) == {text[i] : i \in DOMAIN text}

IsText(text) == text \in Seq(LinesOf(text))

LEMMA FieldNames ==
  /\ Required = {"part_number", "quantity", "work_order_id", "unit_price_cents",
                 "restricted", "line_total_cents"}
  /\ Fields = Required \cup {"within_limit", "requires_supervisor", "pickup_code",
                             "created_at_epoch"}
  /\ Flags = {"restricted", "within_limit", "requires_supervisor"}
<1>1. Required = {"part_number", "quantity", "work_order_id", "unit_price_cents",
                  "restricted", "line_total_cents"}
  <2>1. 1 .. 6 = {1, 2, 3, 4, 5, 6}
    OBVIOUS
  <2> QED
    BY <2>1 DEF Required, FieldOrder
<1>2. Fields = Required \cup {"within_limit", "requires_supervisor", "pickup_code",
                              "created_at_epoch"}
  <2>1. DOMAIN FieldOrder = {1, 2, 3, 4, 5, 6, 7, 8, 9, 10}
    BY DEF FieldOrder
  <2> QED
    BY <1>1, <2>1 DEF Fields, FieldOrder
<1> QED
  BY <1>1, <1>2 DEF Flags

LEMMA LineBegins == ASSUME NEW o, NEW f PROVE Line(o, f)[1] = f
BY DEF Line

LEMMA TableIsSeq ==
  ASSUME NEW S, NEW n \in Nat, NEW t \in [1 .. n -> S]
  PROVE  t \in Seq(S)
OBVIOUS

\* The six lines every text begins with.
LEMMA RequiredLines ==
  ASSUME NEW o, NEW text, text = [i \in 1 .. 6 |-> Line(o, FieldOrder[i])]
  PROVE  IsText(text) /\ LinesOf(text) = {Line(o, f) : f \in Required}
<1>1. DOMAIN text = 1 .. 6 /\ \A i \in 1 .. 6 : text[i] = Line(o, FieldOrder[i])
  OBVIOUS
<1>2. LinesOf(text) = {Line(o, f) : f \in Required}
  BY <1>1 DEF LinesOf, Required
<1>3. text \in [1 .. 6 -> LinesOf(text)]
  BY <1>1 DEF LinesOf
<1> QED
  BY <1>2, <1>3, TableIsSeq DEF IsText

LEMMA AppendedLine ==
  ASSUME NEW S, NEW text \in Seq(S), NEW line \in S
  PROVE  /\ text \o <<line>> \in Seq(S)
         /\ Len(text \o <<line>>) = Len(text) + 1
         /\ \A i \in 1 .. Len(text) : (text \o <<line>>)[i] = text[i]
         /\ (text \o <<line>>)[Len(text) + 1] = line
<1>1. PICK one \in Seq(S) : one = <<line>> /\ Len(one) = 1 /\ one[1] = line
  <2>1. <<line>> \in Seq(S) /\ Len(<<line>>) = 1 /\ <<line>>[1] = line
    OBVIOUS
  <2> QED
    BY <2>1
<1>2. /\ text \o one \in Seq(S)
      /\ Len(text \o one) = Len(text) + 1
      /\ \A i \in 1 .. Len(text) + 1 :
           (text \o one)[i] = IF i <= Len(text) THEN text[i] ELSE one[i - Len(text)]
  BY <1>1, ConcatProperties
<1>3. Len(text) \in Nat
  BY LenProperties
<1>4. (text \o one)[Len(text) + 1] = line
  BY <1>1, <1>2, <1>3
<1> QED
  BY <1>1, <1>2, <1>3, <1>4

\* What follows a text: one more line, or nothing.
LineOrNothing(more, line, lines) ==
  \/ more = <<>> /\ lines = {}
  \/ more = <<line>> /\ lines = {line}

LEMMA OneMoreLine ==
  ASSUME NEW text, IsText(text), NEW more, NEW line, NEW lines,
         LineOrNothing(more, line, lines)
  PROVE  /\ IsText(text \o more)
         /\ LinesOf(text \o more) = LinesOf(text) \cup lines
<1>0. PICK longer : longer = text \o more
  OBVIOUS
<1>1. PICK S : S = LinesOf(text) \cup {line}
  OBVIOUS
<1>2. text \in Seq(S) /\ DOMAIN text = 1 .. Len(text) /\ Len(text) \in Nat
  BY <1>1 DEF IsText
<1>3. CASE more = <<>> /\ lines = {}
  BY <1>2, <1>3, ConcatEmptySeq
<1>4. CASE more = <<line>> /\ lines = {line}
  <2>1. /\ longer \in Seq(S) /\ Len(longer) = Len(text) + 1
        /\ \A i \in 1 .. Len(text) : longer[i] = text[i]
        /\ longer[Len(text) + 1] = line
    BY <1>0, <1>1, <1>2, <1>4, AppendedLine
  <2>2. DOMAIN longer = 1 .. Len(text) + 1
    BY <2>1, LenProperties
  <2>3. ASSUME NEW i \in DOMAIN longer PROVE longer[i] \in S
    BY <2>1, ElementOfSeq, <2>2
  <2>4. ASSUME NEW x \in S PROVE x \in LinesOf(longer)
    <3>1. CASE x = line
      BY <1>2, <2>1, <2>2, <3>1 DEF LinesOf
    <3>2. CASE x \in LinesOf(text)
      <4>1. PICK i \in DOMAIN text : x = text[i]
        BY <3>2 DEF LinesOf
      <4> QED
        BY <1>2, <2>1, <2>2, <4>1 DEF LinesOf
    <3> QED
      BY <1>1, <3>1, <3>2
  <2>5. LinesOf(longer) = S
    BY <2>3, <2>4 DEF LinesOf
  <2> QED
    BY <1>0, <1>1, <1>4, <2>1, <2>5 DEF IsText
<1> QED
  BY <1>3, <1>4 DEF LineOrNothing

\* A text has its six lines, and those of the optional fields it is given.
LEMMA TextLines ==
  ASSUME NEW o, NEW m1, NEW m2, NEW m3, NEW m4, NEW l1, NEW l2, NEW l3, NEW l4,
         LineOrNothing(m1, Line(o, "within_limit"), l1),
         LineOrNothing(m2, Line(o, "requires_supervisor"), l2),
         LineOrNothing(m3, Line(o, "pickup_code"), l3),
         LineOrNothing(m4, Line(o, "created_at_epoch"), l4)
  PROVE  LinesOf([i \in 1 .. 6 |-> Line(o, FieldOrder[i])] \o m1 \o m2 \o m3 \o m4) =
           {Line(o, f) : f \in Required} \cup l1 \cup l2 \cup l3 \cup l4
<1>1. PICK base : base = [i \in 1 .. 6 |-> Line(o, FieldOrder[i])]
  OBVIOUS
<1>2. IsText(base) /\ LinesOf(base) = {Line(o, f) : f \in Required}
  BY <1>1, RequiredLines
<1>3. PICK t1 : t1 = base \o m1
  OBVIOUS
<1>4. PICK t2 : t2 = t1 \o m2
  OBVIOUS
<1>5. PICK t3 : t3 = t2 \o m3
  OBVIOUS
<1>6. IsText(t1) /\ LinesOf(t1) = LinesOf(base) \cup l1
  BY <1>2, <1>3, OneMoreLine
<1>7. IsText(t2) /\ LinesOf(t2) = LinesOf(t1) \cup l2
  BY <1>4, <1>6, OneMoreLine
<1>8. IsText(t3) /\ LinesOf(t3) = LinesOf(t2) \cup l3
  BY <1>5, <1>7, OneMoreLine
<1>9. LinesOf(t3 \o m4) = LinesOf(t3) \cup l4
  BY <1>8, OneMoreLine
<1> QED
  BY <1>1, <1>2, <1>3, <1>4, <1>5, <1>6, <1>7, <1>8, <1>9

\* The line of an optional field, if the field is one of those given.
LineIf(o, f, given) == IF f \in given THEN <<Line(o, f)>> ELSE <<>>

GivenText(o, given) ==
  [i \in 1 .. 6 |-> Line(o, FieldOrder[i])]
    \o LineIf(o, "within_limit", given) \o LineIf(o, "requires_supervisor", given)
    \o LineIf(o, "pickup_code", given) \o LineIf(o, "created_at_epoch", given)

LEMMA GivenLines ==
  ASSUME NEW o, NEW given
  PROVE  LinesOf(GivenText(o, given)) =
           {Line(o, f) : f \in Required \cup (given \cap (Fields \ Required))}
<1> DEFINE lines(f) == {Line(o, g) : g \in given \cap {f}}
<1>1. \A f : LineOrNothing(LineIf(o, f, given), Line(o, f), lines(f))
  BY DEF LineOrNothing, LineIf
<1>2. LinesOf(GivenText(o, given)) =
        {Line(o, f) : f \in Required}
          \cup lines("within_limit") \cup lines("requires_supervisor")
          \cup lines("pickup_code") \cup lines("created_at_epoch")
  <2> HIDE DEF lines
  <2> QED
    BY <1>1, TextLines DEF GivenText
<1>3. Fields \ Required = {"within_limit", "requires_supervisor", "pickup_code",
                           "created_at_epoch"}
  BY FieldNames
<1> QED
  BY <1>2, <1>3

\* The lines of the server's text of a body, and of the client's of a form.
LEMMA ServerLines ==
  ASSUME NEW body
  PROVE  LinesOf(CanonicalOrderString(body)) =
           {Line(body, f) : f \in Required \cup {g \in Fields : body[g] # None}}
<1>1. PICK given : given = {g \in Fields : body[g] # None}
  OBVIOUS
<1>2. \A f \in Fields :
        (IF body[f] = None THEN <<>> ELSE <<Line(body, f)>>) = LineIf(body, f, given)
  BY <1>1 DEF LineIf
<1>3. CanonicalOrderString(body) = GivenText(body, given)
  BY <1>2, FieldNames DEF CanonicalOrderString, GivenText
<1> QED
  BY <1>1, <1>3, GivenLines

\* A line gives its value away.
LEMMA LineValue ==
  ASSUME NEW o, NEW p, NEW f, Line(o, f) = Line(p, f),
         f \in Flags => o[f] \in BOOLEAN /\ p[f] \in BOOLEAN
  PROVE  o[f] = p[f]
<1>1. Line(o, f)[2] = Line(p, f)[2]
  OBVIOUS
<1>2. CASE f \notin Flags
  BY <1>1, <1>2 DEF Line
<1>3. CASE f \in Flags
  <2>1. (IF o[f] THEN "true" ELSE "false") = (IF p[f] THEN "true" ELSE "false")
    BY <1>1, <1>3 DEF Line
  <2> QED
    BY <1>3, <2>1
<1> QED
  BY <1>2, <1>3

\* The fields a text of the order o has a line for.
LinesFor(o) == Required \cup {f \in Fields : o[f] # None}

\* Flags are flags where there is a line for them.
FlagsOK(o) == \A f \in Flags \cap LinesFor(o) : o[f] \in BOOLEAN

\* A text gives the whole order away: orders that differ in any field, be it only
\* in whether an optional one is there, have different texts.
LEMMA TextIsOrder ==
  ASSUME NEW o, NEW p, FlagsOK(o), FlagsOK(p),
         CanonicalOrderString(o) = CanonicalOrderString(p)
  PROVE  \A f \in Fields : o[f] = p[f]
<1>1. {Line(o, f) : f \in LinesFor(o)} = {Line(p, f) : f \in LinesFor(p)}
  BY ServerLines DEF LinesFor
<1>2. ASSUME NEW f \in LinesFor(o)
      PROVE  f \in LinesFor(p) /\ Line(o, f) = Line(p, f)
  <2>1. PICK g \in LinesFor(p) : Line(o, f) = Line(p, g)
    BY <1>1
  <2>2. f = g
    BY <2>1, LineBegins
  <2> QED
    BY <2>1, <2>2
<1>3. ASSUME NEW f \in LinesFor(p) PROVE f \in LinesFor(o)
  <2>1. PICK g \in LinesFor(o) : Line(p, f) = Line(o, g)
    BY <1>1
  <2>2. f = g
    BY <2>1, LineBegins
  <2> QED
    BY <2>2
<1>4. ASSUME NEW f \in LinesFor(o) PROVE o[f] = p[f]
  BY <1>2, <1>4, LineValue DEF FlagsOK
<1>5. ASSUME NEW f \in Fields, f \notin LinesFor(o) PROVE o[f] = p[f]
  BY <1>3, <1>5 DEF LinesFor
<1> QED
  BY <1>4, <1>5

\* The client's text of a form is the text the server would write of the order
\* it states.
LEMMA ClientStates ==
  ASSUME NEW form \in Forms
  PROVE  ClientCanonical(form) = CanonicalOrderString(Stated(form))
<1>1. PICK o : o = Stated(form)
  OBVIOUS
<1>2. ASSUME NEW f \in Fields PROVE f \in DOMAIN form <=> o[f] # None
  BY <1>1, FormsAssumption DEF Stated
<1>3. /\ "within_limit" \in Fields /\ "requires_supervisor" \in Fields
      /\ "pickup_code" \in Fields /\ "created_at_epoch" \in Fields
  BY FieldNames
<1>4. /\ "within_limit" \in DOMAIN form <=> o["within_limit"] # None
      /\ "requires_supervisor" \in DOMAIN form <=> o["requires_supervisor"] # None
      /\ "pickup_code" \in DOMAIN form <=> o["pickup_code"] # None
      /\ "created_at_epoch" \in DOMAIN form <=> o["created_at_epoch"] # None
  BY <1>2, <1>3
<1> DEFINE base == [i \in 1 .. 6 |-> Line(o, FieldOrder[i])]
           pushed(f) == IF f \in DOMAIN form THEN <<Line(o, f)>> ELSE <<>>
           optional(f) == IF o[f] = None THEN <<>> ELSE <<Line(o, f)>>
<1>5. ClientCanonical(form) =
        base \o pushed("within_limit") \o pushed("requires_supervisor")
          \o pushed("pickup_code") \o pushed("created_at_epoch")
  BY <1>1 DEF ClientCanonical
<1>6. CanonicalOrderString(o) =
        base \o optional("within_limit") \o optional("requires_supervisor")
          \o optional("pickup_code") \o optional("created_at_epoch")
  BY DEF CanonicalOrderString
<1>7. /\ pushed("within_limit") = optional("within_limit")
      /\ pushed("requires_supervisor") = optional("requires_supervisor")
      /\ pushed("pickup_code") = optional("pickup_code")
      /\ pushed("created_at_epoch") = optional("created_at_epoch")
  BY <1>4
<1> HIDE DEF base, pushed, optional
<1> QED
  BY <1>1, <1>5, <1>6, <1>7

LEMMA StatedFlags ==
  ASSUME NEW form \in Forms
  PROVE  FlagsOK(Stated(form))
<1>1. ASSUME NEW f \in Flags, f \in LinesFor(Stated(form)) PROVE f \in DOMAIN form
  <2>1. CASE f \in Required
    BY <2>1, FormsAssumption
  <2>2. CASE f \in Fields /\ Stated(form)[f] # None
    BY <2>2 DEF Stated
  <2> QED
    BY <1>1, <2>1, <2>2 DEF LinesFor
<1> QED
  BY <1>1, FormsAssumption DEF FlagsOK

LEMMA BodyFlags ==
  ASSUME NEW body \in Bodies
  PROVE  FlagsOK(body)
<1>1. ASSUME NEW f \in Flags, f \in LinesFor(body) PROVE body[f] \in BOOLEAN
  <2>1. CASE f = "restricted"
    BY <2>1, FormsAssumption
  <2>2. CASE f \in {"within_limit", "requires_supervisor"}
    <3>1. f \notin Required
      BY <2>2, FieldNames
    <3>2. body[f] # None
      BY <1>1, <3>1 DEF LinesFor
    <3> QED
      BY <2>2, <3>2, FormsAssumption
  <2> QED
    BY <1>1, <2>1, <2>2, FieldNames
<1> QED
  BY <1>1 DEF FlagsOK

\* The signature covers the whole body: it passes the check exactly under the
\* signatures made over a text that states it, field by field, be it only in
\* whether an optional one is there.  So no body passes under a signature made
\* over another order (texts whose values are single lines), and a form passes
\* untouched unless its text states another order than the schema reads from it.
THEOREM SignatureBindsBody ==
  ASSUME NEW form \in Forms, NEW body \in Bodies
  PROVE  Verify(CanonicalOrderString(body), ClientCanonical(form)) <=> body = Stated(form)
<1>1. body = [f \in Fields |-> body[f]]
  BY DEF Bodies, Parsed
<1>2. Stated(form) = [f \in Fields |-> Stated(form)[f]]
  BY DEF Stated
<1>3. ASSUME Verify(CanonicalOrderString(body), ClientCanonical(form))
      PROVE  body = Stated(form)
  <2>1. CanonicalOrderString(body) = CanonicalOrderString(Stated(form))
    BY <1>3, ClientStates DEF Verify
  <2>2. \A f \in Fields : body[f] = Stated(form)[f]
    BY <2>1, BodyFlags, StatedFlags, TextIsOrder
  <2> QED
    BY <1>1, <1>2, <2>2
<1>4. ASSUME body = Stated(form)
      PROVE  Verify(CanonicalOrderString(body), ClientCanonical(form))
  BY <1>4, ClientStates DEF Verify
<1> QED
  BY <1>3, <1>4

\* An untouched form passes if the schema has nothing to convert in it: what its
\* text states is what the server reads.
LEMMA UntouchedPasses ==
  ASSUME NEW form \in Forms, \A f \in DOMAIN form : form[f] \notin Loose \cup {None}
  PROVE  Verify(CanonicalOrderString(Parsed(form)), ClientCanonical(form))
<1>1. \A f \in DOMAIN form : Said(f, form[f]) = Read(form[f])
  BY DEF Said, Read
<1>2. Parsed(form) = Stated(form)
  BY <1>1 DEF Parsed, Stated
<1>3. Parsed(form) \in Bodies
  BY DEF Bodies
<1> QED
  BY <1>2, <1>3, SignatureBindsBody

-----------------------------------------------------------------------------
(* The shapes of bodies and of what they make pending. *)

USE DEF Reason

LEMMA BodyType ==
  ASSUME NEW body \in Bodies
  PROVE  /\ body.quantity \in Nat \ {0} /\ body.line_total_cents \in Int
         /\ body.restricted \in BOOLEAN
         /\ body.within_limit \in BOOLEAN \cup {None}
         /\ body.requires_supervisor \in BOOLEAN \cup {None}
         /\ body.pickup_code \in CodeValue \cup {None}
         /\ body.created_at_epoch \in Int \cup {None}
BY FormsAssumption

\* What create_order makes pending once it has accepted a body.
LEMMA Drafted ==
  ASSUME Sound, NEW w \in Worker, NEW a \in Account, NEW body \in Bodies,
         NEW form \in Forms, CreateOrder(w, a, body, form)
  PROVE  \E draft \in Order, code \in CodeValue \cup {None, Fresh}, at \in Int :
           /\ Start(w, [pc |-> "flush",
                        work |-> [reason |-> "order_created", draft |-> draft,
                                  code |-> code, at |-> at]])
           /\ EmitLine("order_created")
           /\ UNCHANGED <<tables, writer, now, handed>>
           /\ draft.approved_by = None /\ draft.collected_at = None
           /\ draft.state \in COLLECTABLE_STATES \cup {"collected"} =>
                code # None /\ SignedRelease(draft, body)
           /\ Carries(draft, body)
           /\ MintedAs(body, code, at)
<1> DEFINE draft == TrustedOrder(a, body)
           code == CodeOfBody(body, draft.state)
           at == IF code = Fresh THEN now ELSE CreatedAt(body)
<1>1. /\ body.part_number \in Part /\ Limit[a] \in Nat
  BY AccountsAssumption DEF CreateOrder, MayOrder
<1>2. StageOrder(w, draft, code, at)
  BY DEF CreateOrder
<1>3. /\ draft.account = a /\ draft.approved_by = None /\ draft.collected_at = None
      /\ draft.state = RouteState(TrustedVerdict(a, body))
      /\ Carries(draft, body)
  BY DEF TrustedOrder, Carries
<1>4. draft.state \in {"auto_approved", "pending_supervisor"}
  BY <1>3 DEF RouteState
<1>5. draft \in Order
  BY <1>1, <1>4, BodyType DEF TrustedOrder, Order, OrderState
<1>6. draft.state = "auto_approved" => SignedRelease(draft, body)
  <2>1. ASSUME draft.state = "auto_approved" PROVE SignedRelease(draft, body)
    <3>1. ~TrustedVerdict(a, body).requires_supervisor
      BY <1>3, <2>1 DEF RouteState
    <3>2. CASE VerdictPosted(body)
      BY <3>1, <3>2 DEF TrustedVerdict, VerdictPosted, SignedRelease
    <3>3. CASE ~VerdictPosted(body)
      <4>1. TrustedVerdict(a, body) =
              ComputeAuthorization(Limit[a], body.restricted, body.line_total_cents)
        BY <3>3 DEF TrustedVerdict
      <4>2. ~body.restricted /\ body.line_total_cents <= Limit[a]
        <5>1. PICK within \in BOOLEAN : within <=> body.line_total_cents <= Limit[a]
          OBVIOUS
        <5>2. TrustedVerdict(a, body).requires_supervisor = (body.restricted \/ ~within)
          BY <4>1, <5>1 DEF ComputeAuthorization
        <5>3. body.restricted \in BOOLEAN
          BY BodyType
        <5>4. ~(body.restricted \/ ~within)
          BY <3>1, <5>2
        <5> QED
          BY <5>1, <5>4
      <4> QED
        BY <1>3, <3>3, <4>2 DEF SignedRelease, VerdictPosted
    <3> QED
      BY <3>2, <3>3
  <2> QED
    BY <2>1
<1>7. code \in CodeValue \cup {None, Fresh}
  BY BodyType DEF CodeOfBody
<1>8. draft.state = "auto_approved" => code # None
  BY TablesAssumption, BodyType DEF CodeOfBody
<1>9. at \in Int
  BY BodyType DEF CreatedAt, Sound, TypeOK
<1>10. MintedAs(body, code, at)
  BY BodyType, TablesAssumption DEF MintedAs, CodeOfBody, CreatedAt
<1> HIDE DEF draft, code, at
<1>11. draft.state \in COLLECTABLE_STATES \cup {"collected"} => draft.state = "auto_approved"
  BY <1>4 DEF COLLECTABLE_STATES
<1> QED
  BY <1>2, <1>3, <1>5, <1>6, <1>7, <1>8, <1>9, <1>10, <1>11 DEF StageOrder

-----------------------------------------------------------------------------
LEMMA InitSound == BodyInit => Sound
<1> SUFFICES ASSUME BodyInit PROVE Sound
  OBVIOUS
<1> USE DEF BodyInit, WorkflowInit
<1>0. DOMAIN orders = {} /\ DOMAIN codes = {}
  OBVIOUS
<1>1. TypeOK
  BY <1>0, IdleType, TablesAssumption DEF TypeOK
<1>2. \A w \in Worker : task[w].pc = "idle"
  BY DEF Idle
<1>3. LockOK
  BY <1>2, AccountsAssumption DEF LockOK
<1>4. TablesOK
  BY <1>0 DEF TablesOK, OneCodePerOrder, UsedIffCollected, ReleasedHasCode,
              CollectedBeforeExpiry
<1>5. \A w \in Worker : TaskOK(w)
  BY <1>2 DEF TaskOK, ReadOK, WorkOK, IssueOK
<1> QED
  BY <1>1, <1>3, <1>4, <1>5 DEF Sound

-----------------------------------------------------------------------------
(* Steps that write no table of the database. *)

LEMMA QuietTables ==
  ASSUME Sound, UNCHANGED <<orders, codes>>
  PROVE  TablesOK'
BY DEF Sound, TablesOK, OneCodePerOrder, UsedIffCollected, ReleasedHasCode,
       CollectedBeforeExpiry, HasCode

LEMMA QuietTask ==
  ASSUME Sound, UNCHANGED <<orders, codes>>, NEW w \in Worker, task'[w] = task[w]
  PROVE  TaskOK(w)'
<1> DEFINE t == task[w]
<1>1. ReadOK(t)'
  BY DEF Sound, TaskOK, ReadOK
<1>2. ASSUME t.pc \in {"flush", "commit"}
      PROVE  CreateOK(t.work)' /\ DecisionOK(t.work)' /\ CollectOK(t.work)'
  BY <1>2 DEF Sound, TaskOK, WorkOK, CreateOK, DecisionOK, CollectOK
<1>3. IssueOK(t)'
  BY DEF Sound, TaskOK, IssueOK, HasCode
<1> QED
  BY <1>1, <1>2, <1>3 DEF TaskOK, WorkOK

\* A thread with nothing pending.
LEMMA IdleTask ==
  ASSUME NEW w \in Worker, task'[w] = Idle
  PROVE  TaskOK(w)'
BY DEF TaskOK, ReadOK, WorkOK, IssueOK, Idle

\* A step of thread w alone that writes no table: what is left to show is
\* about w.
LEMMA QuietStep ==
  ASSUME Sound, TypeOK', UNCHANGED <<orders, codes>>,
         NEW w \in Worker,
         \A v \in Worker \ {w} : task'[v] = task[v] /\ (writer' = v <=> writer = v),
         TaskOK(w)', (task[w].pc = "commit" <=> writer = w)'
  PROVE  Sound'
<1>1. TablesOK'
  BY QuietTables
<1>2. \A v \in Worker : TaskOK(v)'
  BY QuietTask
<1>3. LockOK'
  BY DEF Sound, LockOK
<1> QED
  BY <1>1, <1>2, <1>3 DEF Sound

\* The frame of a request's first step: thread w takes on task t.
LEMMA StartFrame ==
  ASSUME Sound, NEW w \in Worker, NEW t \in Task, Start(w, t),
         UNCHANGED writer
  PROVE  /\ task' \in [Worker -> Task] /\ served' \in Nat
         /\ task'[w] = t
         /\ writer # w
         /\ \A v \in Worker \ {w} : task'[v] = task[v] /\ (writer' = v <=> writer = v)
BY DEF Start, Sound, TypeOK, LockOK

LEMMA ForbidStep ==
  ASSUME Sound, NEW w \in Worker, Forbid(w)
  PROVE  Sound'
<1> USE DEF Forbid, tables
<1>1. TypeOK'
  BY IdleType, StartFrame DEF Sound, TypeOK
<1>2. TaskOK(w)'
  BY IdleType, StartFrame, IdleTask
<1>3. (task[w].pc = "commit" <=> writer = w)'
  BY IdleType, StartFrame DEF Idle
<1> QED
  BY <1>1, <1>2, <1>3, IdleType, StartFrame, QuietStep

\* Thread w makes a unit of work pending, which then waits for the lock.
LEMMA PendingStep ==
  ASSUME Sound, NEW w \in Worker, NEW u \in Work,
         task' = [task EXCEPT ![w] = [pc |-> "flush", work |-> u]],
         task[w].pc # "commit",
         log' \in [Reason -> Nat], served' \in Nat,
         UNCHANGED <<tables, writer, now, handed>>,
         (CreateOK(u) /\ DecisionOK(u) /\ CollectOK(u))'
  PROVE  Sound'
<1> DEFINE t == [pc |-> "flush", work |-> u]
<1> USE DEF tables
<1>0. t \in Task /\ t.pc = "flush" /\ t.work = u
  BY StagedType
<1>1. task' = [task EXCEPT ![w] = t]
  OBVIOUS
<1> HIDE DEF t
<1>2. /\ task' \in [Worker -> Task]
      /\ task'[w] = t
      /\ \A v \in Worker \ {w} : task'[v] = task[v]
  BY <1>0, <1>1 DEF Sound, TypeOK
<1>3. TypeOK'
  BY <1>2 DEF Sound, TypeOK
<1>4. TaskOK(w)'
  BY <1>0, <1>2 DEF TaskOK, ReadOK, WorkOK, IssueOK
<1>5. (task[w].pc = "commit" <=> writer = w)'
  BY <1>0, <1>2 DEF Sound, LockOK
<1> QED
  BY <1>2, <1>3, <1>4, <1>5, QuietStep

LEMMA StageStep ==
  ASSUME Sound, NEW w \in Worker, NEW u \in Work,
         Start(w, [pc |-> "flush", work |-> u]),
         log' \in [Reason -> Nat],
         UNCHANGED <<tables, writer, now, handed>>,
         (CreateOK(u) /\ DecisionOK(u) /\ CollectOK(u))'
  PROVE  Sound'
<1>1. /\ task' = [task EXCEPT ![w] = [pc |-> "flush", work |-> u]]
      /\ task[w].pc # "commit"
      /\ served' \in Nat
  BY DEF Start, Sound, TypeOK
<1> QED
  BY <1>1, PendingStep

LEMMA CreateOrderStep ==
  ASSUME Sound, NEW w \in Worker, NEW a \in Account, NEW body \in Bodies,
         NEW form \in Forms, CreateOrder(w, a, body, form)
  PROVE  Sound'
<1>1. PICK draft \in Order, code \in CodeValue \cup {None, Fresh}, at \in Int :
        /\ Start(w, [pc |-> "flush",
                     work |-> [reason |-> "order_created", draft |-> draft,
                               code |-> code, at |-> at]])
        /\ EmitLine("order_created")
        /\ UNCHANGED <<tables, writer, now, handed>>
        /\ draft.approved_by = None /\ draft.collected_at = None
        /\ draft.state \in COLLECTABLE_STATES \cup {"collected"} => code # None
  BY Drafted
<1>2. PICK u \in Work :
        /\ u = [reason |-> "order_created", draft |-> draft, code |-> code, at |-> at]
        /\ u.reason = "order_created" /\ u.draft = draft /\ u.code = code
  <2>1. [reason |-> "order_created", draft |-> draft, code |-> code, at |-> at] \in Work
    BY DEF Work, Create
  <2> QED
    BY <2>1
<1>3. log' \in [Reason -> Nat]
  BY <1>1, EmitLineType DEF Sound
<1>4. (CreateOK(u) /\ DecisionOK(u) /\ CollectOK(u))'
  BY <1>1, <1>2 DEF CreateOK, DecisionOK, CollectOK
<1> QED
  BY <1>1, <1>2, <1>3, <1>4, StageStep

LEMMA ApproveOrderStep ==
  ASSUME Sound, NEW w \in Worker, NEW a \in Account, NEW o \in OrderId,
         ApproveOrder(w, a, o)
  PROVE  Sound'
<1>0. PICK at \in Nat : at = now
  BY DEF Sound, TypeOK
<1> DEFINE u == [reason |-> "order_approved", order |-> o, actor |-> a, at |-> at,
                 issue |-> FALSE]
<1>1. u \in Work
  BY DEF Work, Approve
<1>2. /\ Start(w, [pc |-> "flush", work |-> u])
      /\ log' \in [Reason -> Nat]
      /\ UNCHANGED <<tables, writer, now, handed>>
  BY <1>0 DEF ApproveOrder, Sound, TypeOK
<1>3. o \in DOMAIN orders'
  BY <1>2 DEF ApproveOrder, MayDecide, tables
<1>4. (CreateOK(u) /\ DecisionOK(u) /\ CollectOK(u))'
  BY <1>3 DEF CreateOK, DecisionOK, CollectOK
<1> HIDE DEF u
<1> QED
  BY <1>1, <1>2, <1>4, StageStep

LEMMA RejectOrderStep ==
  ASSUME Sound, NEW w \in Worker, NEW a \in Account, NEW o \in OrderId,
         RejectOrder(w, a, o)
  PROVE  Sound'
<1> DEFINE u == [reason |-> "order_rejected", order |-> o, actor |-> a]
<1>1. u \in Work
  BY DEF Work, Reject
<1>2. /\ Start(w, [pc |-> "flush", work |-> u])
      /\ log' \in [Reason -> Nat]
      /\ UNCHANGED <<tables, writer, now, handed>>
  BY EmitLineType DEF RejectOrder, Sound
<1>3. o \in DOMAIN orders'
  BY <1>2 DEF RejectOrder, MayDecide, tables
<1>4. (CreateOK(u) /\ DecisionOK(u) /\ CollectOK(u))'
  BY <1>3 DEF CreateOK, DecisionOK, CollectOK
<1> HIDE DEF u
<1> QED
  BY <1>1, <1>2, <1>4, StageStep

LEMMA PresentBadCodeStep ==
  ASSUME Sound, NEW w \in Worker, NEW a \in Account, NEW v \in CodeValue,
         NEW at, PresentBadCode(w, a, v, at)
  PROVE  Sound'
<1> DEFINE u == [reason |-> "pickup_refused"]
<1>1. u \in Work
  BY DEF Work, Refuse
<1>2. /\ Start(w, [pc |-> "flush", work |-> u])
      /\ log' \in [Reason -> Nat]
      /\ UNCHANGED <<tables, writer, now, handed>>
  BY EmitLineType DEF PresentBadCode, RefusedPickup, Sound
<1>3. (CreateOK(u) /\ DecisionOK(u) /\ CollectOK(u))'
  BY DEF CreateOK, DecisionOK, CollectOK
<1> HIDE DEF u
<1> QED
  BY <1>1, <1>2, <1>3, StageStep

LEMMA PresentCodeStep ==
  ASSUME Sound, NEW w \in Worker, NEW a \in Account, NEW v \in CodeValue,
         NEW at \in 0 .. now, PresentCode(w, a, v, at)
  PROVE  Sound'
<1>1. at \in Nat
  BY DEF Sound, TypeOK
<1>2. PICK c, t :
        /\ c \in Matches(v)
        /\ CodeAccepted(c, a, at)
        /\ t = [pc |-> "order", actor |-> a, at |-> at, row |-> c]
        /\ Start(w, t)
  BY DEF PresentCode
<1>3. c \in DOMAIN codes /\ c \in CodeId
  BY <1>2 DEF Matches, Sound, TypeOK
<1>4. t \in Task /\ t.pc = "order" /\ t.row = c /\ t.at = at
  BY <1>1, <1>2, <1>3 DEF Task
<1>5. UNCHANGED <<tables, log, writer, now, handed>>
  BY DEF PresentCode
<1>6. task'[w] = t
  BY <1>2, <1>4, <1>5, StartFrame
<1>7. TypeOK'
  BY <1>2, <1>4, <1>5, StartFrame DEF Sound, TypeOK, tables
<1>8. at <= codes[c].expires_at
  <2>1. codes[c] \in PickupCode
    BY <1>3 DEF Sound, TypeOK
  <2> QED
    BY <1>1, <1>2, <2>1 DEF CodeAccepted, PickupCode
<1>9. TaskOK(w)'
  BY <1>3, <1>4, <1>5, <1>6, <1>8 DEF TaskOK, ReadOK, WorkOK, IssueOK, tables
<1>10. (task[w].pc = "commit" <=> writer = w)'
  BY <1>2, <1>4, <1>5, <1>6, StartFrame
<1> QED
  BY <1>2, <1>4, <1>5, <1>7, <1>9, <1>10, StartFrame, QuietStep DEF tables

LEMMA ReadOrderStep ==
  ASSUME Sound, NEW w \in Worker, ReadOrder(w)
  PROVE  Sound'
<1> USE DEF tables
<1> DEFINE t == [task[w] EXCEPT !.pc = "part"]
<1>1. task[w] \in Task /\ task[w].pc = "order"
  BY DEF ReadOrder, Sound, TypeOK
<1>2. /\ t \in Task /\ t.row = task[w].row /\ t.at = task[w].at
      /\ t.pc = "part"
  BY <1>1, ReadingType DEF Task
<1>3. task' = [task EXCEPT ![w] = t]
  BY DEF ReadOrder
<1>4. UNCHANGED <<tables, log, writer, now, served, handed>>
  BY DEF ReadOrder
<1>5. ReadOK(task[w])
  BY DEF Sound, TaskOK
<1> HIDE DEF t
<1>6. /\ task' \in [Worker -> Task]
      /\ task'[w] = t
      /\ \A v \in Worker \ {w} : task'[v] = task[v]
  BY <1>2, <1>3 DEF Sound, TypeOK
<1>7. TypeOK'
  BY <1>4, <1>6 DEF Sound, TypeOK
<1>8. TaskOK(w)'
  BY <1>1, <1>2, <1>4, <1>5, <1>6 DEF TaskOK, ReadOK, WorkOK, IssueOK
<1>9. (task[w].pc = "commit" <=> writer = w)'
  BY <1>1, <1>2, <1>4, <1>6 DEF Sound, LockOK
<1> QED
  BY <1>4, <1>6, <1>7, <1>8, <1>9, QuietStep

LEMMA ReadUncollectableStep ==
  ASSUME Sound, NEW w \in Worker, ReadUncollectable(w)
  PROVE  Sound'
<1> DEFINE u == [reason |-> "pickup_refused"]
<1>1. u \in Work
  BY DEF Work, Refuse
<1>2. /\ task' = [task EXCEPT ![w] = [pc |-> "flush", work |-> u]]
      /\ task[w].pc # "commit"
      /\ log' \in [Reason -> Nat] /\ served' \in Nat
      /\ UNCHANGED <<tables, writer, now, handed>>
  BY EmitLineType DEF ReadUncollectable, RefusedPickup, Sound, TypeOK
<1>3. (CreateOK(u) /\ DecisionOK(u) /\ CollectOK(u))'
  BY DEF CreateOK, DecisionOK, CollectOK
<1> HIDE DEF u
<1> QED
  BY <1>1, <1>2, <1>3, PendingStep

LEMMA ReadPartStep ==
  ASSUME Sound, NEW w \in Worker, ReadPart(w)
  PROVE  Sound'
<1>0. PICK c \in CodeId, at \in Nat :
        /\ c = task[w].row /\ at = task[w].at
        /\ c \in DOMAIN codes /\ at <= codes[c].expires_at
  <2>1. task[w] \in Task /\ task[w].pc = "part"
    BY DEF ReadPart, Sound, TypeOK
  <2>2. task[w].row \in CodeId /\ task[w].at \in Nat
    BY <2>1, ReadingType
  <2> QED
    BY <2>1, <2>2 DEF Sound, TaskOK, ReadOK
<1>1. PICK o \in OrderId : o = codes[c].order_id /\ o \in DOMAIN orders
  BY <1>0 DEF Sound, TablesOK, TypeOK
<1>2. PICK n \in Int : n = stock[orders[o].part] - orders[o].quantity
  BY <1>1 DEF Sound, TypeOK, Order
<1> DEFINE u == [reason |-> "order_collected", order |-> o, row |-> c, at |-> at,
                 stock |-> n]
<1>3. u \in Work
  BY <1>0, <1>1, <1>2 DEF Work, Collect
<1>4. /\ task' = [task EXCEPT ![w] = [pc |-> "flush", work |-> u]]
      /\ task[w].pc # "commit"
      /\ log' \in [Reason -> Nat] /\ served' \in Nat
      /\ UNCHANGED <<tables, writer, now, handed>>
  BY <1>0, <1>1, <1>2, EmitLineType DEF ReadPart, Sound, TypeOK
<1>5. (CreateOK(u) /\ DecisionOK(u) /\ CollectOK(u))'
  BY <1>0, <1>1, <1>4 DEF CreateOK, DecisionOK, CollectOK, tables
<1> HIDE DEF u
<1> QED
  BY <1>3, <1>4, <1>5, PendingStep

-----------------------------------------------------------------------------
(* Taking the lock, and giving it up. *)

LEMMA FlushStep ==
  ASSUME Sound, NEW w \in Worker, Flush(w)
  PROVE  Sound'
<1> USE DEF tables
<1> DEFINE u == task[w].work
<1>1. task[w] \in Task /\ task[w].pc = "flush"
  BY DEF Flush, Sound, TypeOK
<1>2. u \in Work /\ task[w] = [pc |-> "flush", work |-> u]
  BY <1>1, WorkingType
<1>3. PICK v \in Work :
        /\ task' = [task EXCEPT ![w] = [pc |-> "commit", work |-> v]]
        /\ v.reason = u.reason
        /\ u.reason # "order_approved" => v = u
        /\ u.reason = "order_approved" =>
             \E t \in u.at .. now :
               v = [u EXCEPT !.at = t, !.issue = ~HasCode(u.order)]
  <2>1. CASE u.reason = "order_approved"
    <3>1. u \in Approve
      BY <1>2, <2>1, WorkType
    <3>2. PICK t \in u.at .. now :
            task' = [task EXCEPT ![w] = [pc |-> "commit",
              work |-> [u EXCEPT !.at = t, !.issue = ~HasCode(u.order)]]]
      BY <2>1 DEF Flush
    <3>3. u.at \in Nat /\ now \in Nat /\ t \in Nat
      BY <3>1 DEF Approve, Sound, TypeOK
    <3> DEFINE v == [u EXCEPT !.at = t, !.issue = ~HasCode(u.order)]
    <3>4. v \in Approve /\ v.reason = u.reason
      BY <3>1, <3>3 DEF Approve, HasCode
    <3>5. task' = [task EXCEPT ![w] = [pc |-> "commit", work |-> v]]
      BY <3>2
    <3> HIDE DEF v
    <3> QED
      BY <2>1, <3>4, <3>5 DEF Work, v
  <2>2. CASE u.reason # "order_approved"
    BY <1>2, <2>2 DEF Flush
  <2> QED
    BY <2>1, <2>2
<1>4. /\ UNCHANGED <<tables, now, served, handed>>
      /\ writer = None /\ writer' = w
      /\ log' \in [Reason -> Nat]
  BY EmitLineType DEF Flush, Sound, TypeOK
<1>5. CreateOK(u) /\ DecisionOK(u) /\ CollectOK(u)
  BY <1>1 DEF Sound, TaskOK, WorkOK
<1>6. /\ task' \in [Worker -> Task]
      /\ task'[w] = [pc |-> "commit", work |-> v]
      /\ \A x \in Worker \ {w} : task'[x] = task[x]
  BY <1>3, StagedType DEF Sound, TypeOK
<1>7. TypeOK'
  BY <1>4, <1>6 DEF Sound, TypeOK
<1>8. CASE u.reason = "order_approved"
  <2>1. u \in Approve
    BY <1>2, <1>8, WorkType
  <2>2. PICK t \in u.at .. now : v = [u EXCEPT !.at = t, !.issue = ~HasCode(u.order)]
    BY <1>3, <1>8
  <2>7. u.at \in Nat /\ now \in Nat
    BY <2>1 DEF Approve, Sound, TypeOK
  <2>8. /\ v.order = u.order
        /\ v.issue = ~HasCode(u.order)
    BY <2>1, <2>2, <2>7 DEF Approve
  <2>3. (CreateOK(v) /\ DecisionOK(v) /\ CollectOK(v))'
    BY <1>3, <1>4, <1>5, <1>8, <2>8 DEF CreateOK, DecisionOK, CollectOK
  <2>4. HasCode(v.order)' <=> HasCode(v.order)
    BY <1>4 DEF HasCode
  <2>5. (v.issue <=> ~HasCode(v.order))'
    BY <2>8, <2>4
  <2> HIDE DEF u
  <2>6. TaskOK(w)'
    BY <1>6, <2>3, <2>5 DEF TaskOK, ReadOK, WorkOK, IssueOK
  <2> QED
    BY <1>4, <1>6, <1>7, <2>6, AccountsAssumption, QuietStep
<1>9. CASE u.reason # "order_approved"
  <2>1. v = u
    BY <1>3, <1>9
  <2>2. (CreateOK(v) /\ DecisionOK(v) /\ CollectOK(v))'
    BY <1>4, <1>5, <2>1 DEF CreateOK, DecisionOK, CollectOK
  <2>3. TaskOK(w)'
    BY <1>6, <1>9, <2>1, <2>2 DEF TaskOK, ReadOK, WorkOK, IssueOK
  <2> QED
    BY <1>4, <1>6, <1>7, <2>3, AccountsAssumption, QuietStep
<1> QED
  BY <1>8, <1>9

LEMMA RollbackStep ==
  ASSUME Sound, NEW w \in Worker, Rollback(w)
  PROVE  Sound'
<1> USE DEF Rollback, tables
<1>1. /\ task' \in [Worker -> Task]
      /\ task'[w] = Idle
      /\ \A v \in Worker \ {w} : task'[v] = task[v]
  BY IdleType DEF Sound, TypeOK
<1>2. TypeOK'
  BY <1>1 DEF Sound, TypeOK
<1>3. TaskOK(w)'
  BY <1>1, IdleTask
<1>4. /\ (task[w].pc = "commit" <=> writer = w)'
      /\ \A v \in Worker \ {w} : writer' = v <=> writer = v
  BY <1>1, AccountsAssumption DEF Idle
<1> QED
  BY <1>1, <1>2, <1>3, <1>4, QuietStep

LEMMA CrashStep ==
  ASSUME Sound, Crash
  PROVE  Sound'
<1> USE DEF Crash, tables
<1>1. \A w \in Worker : task'[w] = Idle
  OBVIOUS
<1>2. TypeOK'
  BY IdleType DEF Sound, TypeOK
<1>3. \A w \in Worker : TaskOK(w)'
  BY <1>1, IdleTask
<1>4. LockOK'
  BY <1>1, AccountsAssumption DEF LockOK, Idle
<1>5. TablesOK'
  BY QuietTables
<1> QED
  BY <1>2, <1>3, <1>4, <1>5 DEF Sound

LEMMA TickStep ==
  ASSUME Sound, Tick
  PROVE  Sound'
<1> USE DEF Tick, tables
<1>1. TypeOK' /\ LockOK'
  BY DEF Sound, TypeOK, LockOK
<1>2. TablesOK' /\ \A w \in Worker : TaskOK(w)'
  BY QuietTables, QuietTask
<1> QED
  BY <1>1, <1>2 DEF Sound

LEMMA StutterStep ==
  ASSUME Sound, UNCHANGED vars
  PROVE  Sound'
<1> USE DEF vars, tables
<1>1. TypeOK' /\ LockOK'
  BY DEF Sound, TypeOK, LockOK
<1>2. TablesOK' /\ \A w \in Worker : TaskOK(w)'
  BY QuietTables, QuietTask
<1> QED
  BY <1>1, <1>2 DEF Sound

-----------------------------------------------------------------------------
(* Commits. *)

\* What a commit of one thread leaves as other threads read it.
Grows ==
  /\ DOMAIN orders \subseteq DOMAIN orders'
  /\ \A c \in DOMAIN codes :
       /\ c \in DOMAIN codes'
       /\ codes'[c].order_id = codes[c].order_id
       /\ codes'[c].expires_at = codes[c].expires_at

LEMMA CommitFrame ==
  ASSUME Sound, NEW w \in Worker, NEW r \in Reason, CommitWork(w, r)
  PROVE  /\ task' \in [Worker -> Task] /\ writer' \in Worker \cup {None}
         /\ audit' \in [Reason -> Nat] /\ log' \in [Reason -> Nat]
         /\ now' = now /\ now \in Nat /\ served' \in Nat
         /\ task[w].work \in Work
         /\ CreateOK(task[w].work) /\ DecisionOK(task[w].work)
         /\ CollectOK(task[w].work) /\ IssueOK(task[w])
         /\ LockOK'
<1> USE DEF CommitWork, PersistEvent
<1>1. /\ task' \in [Worker -> Task] /\ writer' \in Worker \cup {None}
      /\ audit' \in [Reason -> Nat] /\ log' \in [Reason -> Nat]
      /\ now' = now /\ now \in Nat /\ served' \in Nat
  BY IdleType DEF Sound, TypeOK
<1>2. task[w].work \in Work
  BY WorkingType DEF Sound, TypeOK
<1>3. /\ CreateOK(task[w].work) /\ DecisionOK(task[w].work)
      /\ CollectOK(task[w].work) /\ IssueOK(task[w])
  BY DEF Sound, TaskOK, WorkOK
<1>4. \A v \in Worker : task'[v].pc # "commit"
  BY DEF Sound, TypeOK, LockOK, Idle
<1>5. LockOK'
  BY <1>4, AccountsAssumption DEF LockOK
<1> QED
  BY <1>1, <1>2, <1>3, <1>5

\* What the other threads remember stays true.
LEMMA CommitTasks ==
  ASSUME Sound, NEW w \in Worker, NEW r \in Reason, CommitWork(w, r), Grows
  PROVE  \A v \in Worker : TaskOK(v)'
<1> SUFFICES ASSUME NEW v \in Worker PROVE TaskOK(v)'
  OBVIOUS
<1> DEFINE t == task[v]
<1>1. CASE v = w
  BY <1>1, IdleTask DEF CommitWork, Sound, TypeOK
<1>2. CASE v # w
  <2>1. task'[v] = t /\ t.pc # "commit" /\ now' = now /\ t \in Task
    BY <1>2 DEF CommitWork, Sound, TypeOK, LockOK
  <2>2. ReadOK(t) /\ WorkOK(t)
    BY DEF Sound, TaskOK
  <2> HIDE DEF t
  <2>3. ReadOK(task[v])'
    BY <2>1, <2>2 DEF ReadOK, Grows
  <2>4. ASSUME t.pc = "flush" PROVE WorkOK(task[v])'
    <3>1. CreateOK(t.work) /\ DecisionOK(t.work) /\ CollectOK(t.work)
      BY <2>2, <2>4 DEF WorkOK
    <3>2. CreateOK(task[v].work)'
      BY <2>1, <3>1 DEF CreateOK
    <3>3. DecisionOK(task[v].work)'
      BY <2>1, <3>1 DEF DecisionOK, Grows
    <3>4. CollectOK(task[v].work)'
      BY <2>1, <3>1 DEF CollectOK, Grows
    <3> QED
      BY <3>2, <3>3, <3>4 DEF WorkOK
  <2>5. WorkOK(task[v])'
    BY <2>1, <2>4 DEF WorkOK
  <2>6. IssueOK(task[v])'
    BY <2>1 DEF IssueOK
  <2> QED
    BY <2>3, <2>5, <2>6 DEF TaskOK
<1> QED
  BY <1>1, <1>2

LEMMA CommitRefuseStep ==
  ASSUME Sound, NEW w \in Worker, CommitRefuse(w)
  PROVE  Sound'
<1> USE DEF CommitRefuse
<1>1. Grows
  BY DEF Grows
<1>2. TablesOK'
  BY CommitFrame, QuietTables
<1>3. TypeOK'
  BY CommitFrame DEF Sound, TypeOK
<1> QED
  BY <1>1, <1>2, <1>3, CommitFrame, CommitTasks DEF Sound

\* What an order was placed for.
SameFacts(o) ==
  /\ orders'[o].account = orders[o].account
  /\ orders'[o].part = orders[o].part
  /\ orders'[o].quantity = orders[o].quantity
  /\ orders'[o].line_total = orders[o].line_total
  /\ orders'[o].restricted = orders[o].restricted

\* Commits write one order, and insert one code or none.
OrdersBut(o) ==
  /\ DOMAIN orders' = DOMAIN orders \cup {o}
  /\ orders' \in [DOMAIN orders' -> Order]
  /\ \A x \in DOMAIN orders : x # o => orders'[x] = orders[x]

CodeBrought(c, o) ==
  /\ DOMAIN codes' = DOMAIN codes \cup {c}
  /\ codes' \in [DOMAIN codes' -> PickupCode]
  /\ \A x \in DOMAIN codes : codes'[x] = codes[x] /\ x # c
  /\ codes'[c].order_id = o
  /\ codes'[c].used = FALSE

LEMMA NewCodeBrought ==
  ASSUME TypeOK, NEW c \in CodeId \ DOMAIN codes, NEW value \in CodeValue,
         NEW o \in OrderId, NEW a \in Account, NEW at \in Int,
         codes' = Insert(codes, c, NewCode(value, o, a, at))
  PROVE  CodeBrought(c, o) /\ codes'[c].code = value /\ codes'[c].created_at = at
<1>1. PICK new : new = NewCode(value, o, a, at)
  OBVIOUS
<1>2. /\ new \in PickupCode /\ new.order_id = o /\ new.used = FALSE
      /\ new.code = value /\ new.created_at = at
  BY <1>1, TablesAssumption DEF NewCode, PickupCode
<1>3. /\ DOMAIN codes' = DOMAIN codes \cup {c}
      /\ codes' \in [DOMAIN codes' -> PickupCode]
      /\ \A x \in DOMAIN codes : codes'[x] = codes[x] /\ x # c
      /\ codes'[c] = new
  BY <1>1, <1>2 DEF Insert, TypeOK
<1> QED
  BY <1>2, <1>3 DEF CodeBrought

LEMMA CreateEffect ==
  ASSUME Sound, NEW w \in Worker, CommitCreate(w)
  PROVE  \E u \in Create, o \in OrderId \ DOMAIN orders :
           /\ u = task[w].work /\ CreateOK(u)
           /\ OrdersBut(o) /\ orders'[o] = u.draft
           /\ ~HasCode(o)
           /\ \/ u.code = None /\ UNCHANGED codes
              \/ /\ u.code # None
                 /\ \E c \in CodeId :
                      /\ CodeBrought(c, o)
                      /\ codes'[c].code = CodeOfRow(c, u.code)
                      /\ codes'[c].created_at = u.at
<1>1. CommitWork(w, "order_created")
  BY DEF CommitCreate
<1>2. PICK u \in Create : u = task[w].work /\ CreateOK(u)
  BY <1>1, CommitFrame, WorkType DEF CommitWork
<1>3. PICK row \in Order, code \in CodeValue \cup {None, Fresh}, at \in Int :
        row = u.draft /\ code = u.code /\ at = u.at
  BY DEF Create
<1>4. PICK o \in OrderId \ DOMAIN orders :
        /\ orders' = Insert(orders, o, row)
        /\ \/ code = None /\ UNCHANGED codes
           \/ /\ code # None
              /\ \E c \in CodeId \ DOMAIN codes :
                   codes' = Insert(codes, c,
                              NewCode(CodeOfRow(c, code), o, row.account, at))
  BY <1>2, <1>3 DEF CommitCreate
<1>5. OrdersBut(o) /\ orders'[o] = row
  BY <1>4 DEF Insert, OrdersBut, Sound, TypeOK
<1>6. ~HasCode(o)
  BY DEF HasCode, Sound, TablesOK
<1>7. CASE code = None
  BY <1>2, <1>3, <1>4, <1>5, <1>6, <1>7
<1>8. CASE code # None
  <2>1. PICK c \in CodeId \ DOMAIN codes :
          codes' = Insert(codes, c, NewCode(CodeOfRow(c, code), o, row.account, at))
    BY <1>4, <1>8
  <2>2. PICK value \in CodeValue : value = CodeOfRow(c, code)
    BY <1>8, TablesAssumption DEF CodeOfRow
  <2>3. PICK a \in Account : a = row.account
    BY DEF Order
  <2>4. CodeBrought(c, o) /\ codes'[c].code = value /\ codes'[c].created_at = at
    BY <2>1, <2>2, <2>3, NewCodeBrought DEF Sound
  <2> QED
    BY <1>2, <1>3, <1>5, <1>6, <1>8, <2>2, <2>4
<1> QED
  BY <1>7, <1>8

\* What a decision's UPDATE leaves of the orders table.
LEMMA DecidedFacts ==
  ASSUME TypeOK, NEW o \in DOMAIN orders, NEW a \in Account, NEW s \in OrderState,
         orders' = [orders EXCEPT ![o].state = s, ![o].approved_by = a]
  PROVE  /\ OrdersBut(o) /\ SameFacts(o)
         /\ orders'[o].collected_at = orders[o].collected_at
         /\ orders'[o].state = s /\ orders'[o].approved_by = a
<1> DEFINE row == [orders[o] EXCEPT !.state = s, !.approved_by = a]
<1>1. orders \in [DOMAIN orders -> Order] /\ orders[o] \in Order
  BY DEF TypeOK
<1>2. /\ row \in Order
      /\ row.account = orders[o].account /\ row.part = orders[o].part
      /\ row.quantity = orders[o].quantity
      /\ row.line_total = orders[o].line_total
      /\ row.restricted = orders[o].restricted
      /\ row.collected_at = orders[o].collected_at
      /\ row.state = s /\ row.approved_by = a
  BY <1>1 DEF Order
<1>3. orders' = [orders EXCEPT ![o] = row]
  BY <1>1
<1> HIDE DEF row
<1>4. OrdersBut(o) /\ orders'[o] = row
  BY <1>1, <1>2, <1>3 DEF OrdersBut
<1> QED
  BY <1>2, <1>4 DEF SameFacts

LEMMA DecisionEffect ==
  ASSUME Sound, NEW w \in Worker, CommitApprove(w) \/ CommitReject(w)
  PROVE  \E o \in DOMAIN orders, a \in Account, s \in {"approved", "rejected"} :
           /\ OrdersBut(o) /\ SameFacts(o)
           /\ orders'[o].collected_at = orders[o].collected_at
           /\ orders'[o].state = s /\ orders'[o].approved_by = a
           /\ \/ UNCHANGED codes /\ (s = "approved" => HasCode(o))
              \/ ~HasCode(o) /\ \E c \in CodeId : CodeBrought(c, o)
<1>1. "approved" \in OrderState /\ "rejected" \in OrderState
  BY DEF OrderState
<1>2. CASE CommitReject(w)
  <2>1. CommitWork(w, "order_rejected") /\ UNCHANGED codes
    BY <1>2 DEF CommitReject
  <2>2. PICK u \in Reject, o \in DOMAIN orders : u = task[w].work /\ o = u.order
    BY <2>1, CommitFrame, WorkType DEF CommitWork, DecisionOK
  <2>3. PICK a \in Account : a = u.actor
    BY DEF Reject
  <2>4. orders' = [orders EXCEPT ![o].state = "rejected", ![o].approved_by = a]
    BY <1>2, <2>2, <2>3 DEF CommitReject
  <2> QED
    BY <1>1, <2>1, <2>4, DecidedFacts DEF Sound
<1>3. CASE CommitApprove(w)
  <2>1. CommitWork(w, "order_approved")
    BY <1>3 DEF CommitApprove
  <2>2. PICK u \in Approve, o \in DOMAIN orders :
          u = task[w].work /\ o = u.order /\ (u.issue <=> ~HasCode(o))
    <3>1. task[w].work \in Approve
      BY <2>1, CommitFrame, WorkType DEF CommitWork
    <3>2. DecisionOK(task[w].work) /\ IssueOK(task[w])
      BY <2>1, CommitFrame
    <3> QED
      BY <2>1, <3>1, <3>2 DEF CommitWork, DecisionOK, IssueOK
  <2>3. PICK a \in Account, at \in Int : a = u.actor /\ at = u.at
    BY DEF Approve
  <2>4. orders' = [orders EXCEPT ![o].state = "approved", ![o].approved_by = a]
    BY <1>3, <2>2, <2>3 DEF CommitApprove
  <2>5. /\ OrdersBut(o) /\ SameFacts(o)
        /\ orders'[o].collected_at = orders[o].collected_at
        /\ orders'[o].state = "approved" /\ orders'[o].approved_by = a
    BY <1>1, <2>4, DecidedFacts DEF Sound
  <2>6. CASE ~u.issue
    <3>1. UNCHANGED codes /\ HasCode(o)
      BY <1>3, <2>2, <2>6 DEF CommitApprove
    <3> QED
      BY <2>5, <3>1
  <2>7. CASE u.issue
    <3>1. PICK owner \in Account : owner = orders[o].account
      BY DEF Sound, TypeOK, Order
    <3>2. PICK c \in CodeId \ DOMAIN codes :
            codes' = Insert(codes, c, NewCode(c, o, owner, at))
      BY <1>3, <2>2, <2>3, <2>7, <3>1 DEF CommitApprove
    <3>3. c \in CodeValue /\ o \in OrderId
      BY TablesAssumption DEF Sound, TypeOK
    <3>4. CodeBrought(c, o)
      BY <3>2, <3>3, NewCodeBrought DEF Sound
    <3> QED
      BY <2>2, <2>5, <2>7, <3>4
  <2> QED
    BY <2>6, <2>7 DEF Approve
<1> QED
  BY <1>2, <1>3

\* The code is used up, with the order, and nothing else of its row changes.
CodeUsed(c) ==
  /\ DOMAIN codes' = DOMAIN codes
  /\ codes' \in [DOMAIN codes' -> PickupCode]
  /\ \A x \in DOMAIN codes :
       /\ codes'[x].code = codes[x].code
       /\ codes'[x].order_id = codes[x].order_id
       /\ codes'[x].created_at = codes[x].created_at
       /\ codes'[x].expires_at = codes[x].expires_at
       /\ x # c => codes'[x] = codes[x]
  /\ codes'[c].used = TRUE

LEMMA CollectEffect ==
  ASSUME Sound, NEW w \in Worker, CommitCollect(w)
  PROVE  \E o \in DOMAIN orders, c \in DOMAIN codes, at \in Nat :
           /\ o = task[w].work.order
           /\ codes[c].order_id = o /\ at <= codes[c].expires_at
           /\ OrdersBut(o) /\ SameFacts(o)
           /\ orders'[o].state = "collected" /\ orders'[o].collected_at = at
           /\ orders'[o].approved_by = orders[o].approved_by
           /\ CodeUsed(c)
           /\ stock' \in [Part -> Int] /\ handed' \in [OrderId -> Nat]
<1>1. CommitWork(w, "order_collected")
  BY DEF CommitCollect
<1>2. PICK u \in Collect : u = task[w].work /\ CollectOK(u)
  BY <1>1, CommitFrame, WorkType DEF CommitWork
<1>3. PICK o \in OrderId, c \in CodeId, at \in Nat, n \in Int :
        u.order = o /\ u.row = c /\ u.at = at /\ u.stock = n
  BY DEF Collect
<1>4. /\ o \in DOMAIN orders /\ c \in DOMAIN codes /\ codes[c].order_id = o
      /\ at <= codes[c].expires_at
  BY <1>2, <1>3 DEF CollectOK, Collect
<1>5. /\ stock' = [stock EXCEPT ![orders[o].part] = n]
      /\ codes' = [codes EXCEPT ![c].used = TRUE]
      /\ orders' = [orders EXCEPT ![o].state = "collected", ![o].collected_at = at]
      /\ handed' = [handed EXCEPT ![o] = @ + 1]
  BY <1>2, <1>3 DEF CommitCollect
<1>6. /\ OrdersBut(o) /\ SameFacts(o)
      /\ orders'[o].state = "collected" /\ orders'[o].collected_at = at
      /\ orders'[o].approved_by = orders[o].approved_by
  <2> DEFINE row == [orders[o] EXCEPT !.state = "collected", !.collected_at = at]
  <2>1. orders \in [DOMAIN orders -> Order] /\ orders[o] \in Order
    BY <1>4 DEF Sound, TypeOK
  <2>2. /\ row \in Order
        /\ row.account = orders[o].account /\ row.part = orders[o].part
        /\ row.quantity = orders[o].quantity
        /\ row.line_total = orders[o].line_total
        /\ row.restricted = orders[o].restricted
        /\ row.approved_by = orders[o].approved_by
        /\ row.state = "collected" /\ row.collected_at = at
    BY <2>1 DEF Order, OrderState
  <2>3. orders' = [orders EXCEPT ![o] = row]
    BY <1>5, <2>1
  <2> HIDE DEF row
  <2>4. OrdersBut(o) /\ orders'[o] = row
    BY <1>4, <2>1, <2>2, <2>3 DEF OrdersBut
  <2> QED
    BY <2>2, <2>4 DEF SameFacts
<1>7. CodeUsed(c)
  <2> DEFINE row == [codes[c] EXCEPT !.used = TRUE]
  <2>1. codes \in [DOMAIN codes -> PickupCode] /\ codes[c] \in PickupCode
    BY <1>4 DEF Sound, TypeOK
  <2>2. /\ row \in PickupCode
        /\ row.code = codes[c].code /\ row.order_id = codes[c].order_id
        /\ row.created_at = codes[c].created_at
        /\ row.expires_at = codes[c].expires_at
        /\ row.used = TRUE
    BY <2>1 DEF PickupCode
  <2>3. codes' = [codes EXCEPT ![c] = row]
    BY <1>5, <2>1
  <2> HIDE DEF row
  <2> QED
    BY <1>4, <2>1, <2>2, <2>3 DEF CodeUsed
<1>8. stock' \in [Part -> Int] /\ handed' \in [OrderId -> Nat]
  <2>1. stock' \in [Part -> Int]
    BY <1>5 DEF Sound, TypeOK
  <2>2. handed' \in [OrderId -> Nat]
    BY <1>5 DEF Sound, TypeOK
  <2> QED
    BY <2>1, <2>2
<1> QED
  BY <1>2, <1>3, <1>4, <1>6, <1>7, <1>8

\* A commit that brings an order its code keeps the tables consistent, whatever
\* it does to that order.
LEMMA BroughtTables ==
  ASSUME Sound, NEW o \in OrderId, ~HasCode(o), OrdersBut(o),
         orders'[o].collected_at = None, NEW c, CodeBrought(c, o)
  PROVE  TablesOK'
<1> USE DEF OrdersBut, CodeBrought
<1>1. \A x \in DOMAIN codes : codes[x].order_id # o /\ codes[x].order_id \in DOMAIN orders
  BY DEF HasCode, Sound, TablesOK
<1>2. OneCodePerOrder'
  BY <1>1 DEF Sound, TablesOK, OneCodePerOrder
<1>3. \A x \in DOMAIN codes' : codes'[x].order_id \in DOMAIN orders'
  BY <1>1
<1>4. UsedIffCollected' /\ CollectedBeforeExpiry'
  BY <1>1 DEF Sound, TablesOK, UsedIffCollected, CollectedBeforeExpiry
<1>5. ReleasedHasCode'
  BY DEF Sound, TablesOK, ReleasedHasCode, HasCode
<1>6. \A x \in DOMAIN orders' : orders'[x].collected_at # None => HasCode(x)'
  BY DEF Sound, TablesOK, HasCode
<1> QED
  BY <1>2, <1>3, <1>4, <1>5, <1>6 DEF TablesOK

\* So does one that brings none, if the order is not released without one.
LEMMA CodelessTables ==
  ASSUME Sound, UNCHANGED codes, NEW o \in OrderId, OrdersBut(o),
         o \in DOMAIN orders => orders'[o].collected_at = orders[o].collected_at,
         o \notin DOMAIN orders => orders'[o].collected_at = None,
         orders'[o].state \in COLLECTABLE_STATES => HasCode(o)
  PROVE  TablesOK'
<1> USE DEF OrdersBut
<1>1. \A c \in DOMAIN codes : codes[c].order_id \in DOMAIN orders
  BY DEF Sound, TablesOK
<1>2. OneCodePerOrder' /\ UsedIffCollected' /\ CollectedBeforeExpiry'
  BY <1>1 DEF Sound, TablesOK, OneCodePerOrder, UsedIffCollected, CollectedBeforeExpiry
<1>3. ReleasedHasCode'
  BY DEF Sound, TablesOK, ReleasedHasCode, HasCode
<1>4. \A c \in DOMAIN codes' : codes'[c].order_id \in DOMAIN orders'
  BY <1>1
<1>5. \A x \in DOMAIN orders' : orders'[x].collected_at # None => HasCode(x)'
  BY DEF Sound, TablesOK, HasCode
<1> QED
  BY <1>2, <1>3, <1>4, <1>5 DEF TablesOK

LEMMA CommitCreateStep ==
  ASSUME Sound, NEW w \in Worker, CommitCreate(w)
  PROVE  Sound'
<1>1. CommitWork(w, "order_created") /\ UNCHANGED <<stock, handed>>
  BY DEF CommitCreate
<1>2. PICK u \in Create, o \in OrderId \ DOMAIN orders :
        /\ CreateOK(u) /\ OrdersBut(o) /\ orders'[o] = u.draft /\ ~HasCode(o)
        /\ \/ u.code = None /\ UNCHANGED codes
           \/ \E c \in CodeId : CodeBrought(c, o)
  BY CreateEffect
<1>3. /\ u.draft.collected_at = None
      /\ u.draft.state \in COLLECTABLE_STATES => u.code # None
  BY <1>2 DEF CreateOK, Create
<1>4. Grows /\ TypeOK'
  BY <1>1, <1>2, CommitFrame DEF Grows, OrdersBut, CodeBrought, Sound, TypeOK
<1>5. TablesOK'
  BY <1>2, <1>3, BroughtTables, CodelessTables
<1> QED
  BY <1>1, <1>4, <1>5, CommitFrame, CommitTasks DEF Sound

LEMMA DecisionStep ==
  ASSUME Sound, NEW w \in Worker, CommitApprove(w) \/ CommitReject(w)
  PROVE  Sound'
<1>1. PICK r \in Reason : CommitWork(w, r) /\ UNCHANGED <<stock, handed>>
  BY DEF CommitApprove, CommitReject
<1>2. PICK o \in DOMAIN orders, s \in {"approved", "rejected"} :
        /\ OrdersBut(o) /\ orders'[o].state = s
        /\ orders'[o].collected_at = orders[o].collected_at
        /\ \/ UNCHANGED codes /\ (s = "approved" => HasCode(o))
           \/ ~HasCode(o) /\ \E c \in CodeId : CodeBrought(c, o)
  BY DecisionEffect
<1>3. o \in OrderId
  BY DEF Sound, TypeOK
<1>4. Grows /\ TypeOK'
  BY <1>1, <1>2, CommitFrame DEF Grows, OrdersBut, CodeBrought, Sound, TypeOK
<1>5. TablesOK'
  <2>1. s \in COLLECTABLE_STATES => s = "approved"
    BY DEF COLLECTABLE_STATES
  <2>2. ~HasCode(o) => orders[o].collected_at = None
    BY DEF Sound, TablesOK
  <2> QED
    BY <1>2, <1>3, <2>1, <2>2, BroughtTables, CodelessTables
<1> QED
  BY <1>1, <1>4, <1>5, CommitFrame, CommitTasks DEF Sound

LEMMA CommitCollectStep ==
  ASSUME Sound, NEW w \in Worker, CommitCollect(w)
  PROVE  Sound'
<1>1. CommitWork(w, "order_collected") /\ "order_collected" \in Reason
  BY DEF CommitCollect
<1>2. PICK o \in DOMAIN orders, c \in DOMAIN codes, at \in Nat :
        /\ codes[c].order_id = o /\ at <= codes[c].expires_at
        /\ OrdersBut(o)
        /\ orders'[o].state = "collected" /\ orders'[o].collected_at = at
        /\ CodeUsed(c)
        /\ stock' \in [Part -> Int] /\ handed' \in [OrderId -> Nat]
  BY CollectEffect
<1>3. Grows /\ TypeOK'
  BY <1>1, <1>2, CommitFrame DEF Grows, OrdersBut, CodeUsed, Sound, TypeOK
<1>4. TablesOK'
  <2> USE DEF OrdersBut, CodeUsed
  <2>1. \A x \in DOMAIN codes : x # c => codes[x].order_id # o
    BY <1>2 DEF Sound, TablesOK, OneCodePerOrder
  <2>2. \A x \in DOMAIN codes : codes[x].order_id \in DOMAIN orders
    BY DEF Sound, TablesOK
  <2>3. OneCodePerOrder'
    BY <1>2 DEF Sound, TablesOK, OneCodePerOrder
  <2>4. \A x \in DOMAIN codes' : codes'[x].order_id \in DOMAIN orders'
    BY <1>2, <2>2
  <2>5. UsedIffCollected'
    BY <1>2, <2>1, <2>2, AccountsAssumption DEF Sound, TablesOK, UsedIffCollected
  <2>6. CollectedBeforeExpiry'
    BY <1>2, <2>1, <2>2 DEF Sound, TablesOK, CollectedBeforeExpiry
  <2>7. ReleasedHasCode'
    BY <1>2 DEF Sound, TablesOK, ReleasedHasCode, HasCode, COLLECTABLE_STATES
  <2>8. \A x \in DOMAIN orders' : orders'[x].collected_at # None => HasCode(x)'
    BY <1>2 DEF Sound, TablesOK, HasCode
  <2> QED
    BY <2>3, <2>4, <2>5, <2>6, <2>7, <2>8 DEF TablesOK
<1> QED
  BY <1>1, <1>3, <1>4, CommitFrame, CommitTasks DEF Sound

-----------------------------------------------------------------------------
LEMMA NextSound ==
  ASSUME Sound, [BodyNext]_bodyVars
  PROVE  Sound'
<1>1. ASSUME NEW w \in Worker, NEW a \in Account, OtherRequest(w, a)
      PROVE  Sound'
  BY <1>1, ApproveOrderStep, RejectOrderStep, ForbidStep, PresentCodeStep,
     PresentBadCodeStep DEF OtherRequest, WorkflowRequest, DecisionForbidden
<1>2. ASSUME NEW w \in Worker, Commit(w) PROVE Sound'
  BY <1>2, CommitCreateStep, DecisionStep, CommitCollectStep, CommitRefuseStep
     DEF Commit
<1>3. ASSUME NEW w \in Worker, Advance(w) PROVE Sound'
  BY <1>2, <1>3, ReadOrderStep, ReadUncollectableStep, ReadPartStep, FlushStep,
     RollbackStep DEF Advance, BusyTimeout
<1>4. ASSUME NEW w \in Worker, Fail(w) PROVE Sound'
  BY <1>4, RollbackStep DEF Fail
<1>5. ASSUME NEW w \in Worker, NEW a \in Account, NEW body \in Bodies,
             NEW form \in Forms, CreateOrder(w, a, body, form)
      PROVE  Sound'
  BY <1>5, CreateOrderStep
<1>6. ASSUME NEW w \in Worker, NEW a \in Account, NEW body \in Bodies,
             NEW form \in Forms, CreateForbidden(w, a, body, form)
      PROVE  Sound'
  BY <1>6, ForbidStep DEF CreateForbidden
<1>7. WorkflowStep => Sound'
  BY <1>3, <1>4, CrashStep, TickStep DEF WorkflowStep
<1>8. CASE AtBound \/ UNCHANGED bodyVars
  BY <1>8, StutterStep DEF AtBound, bodyVars
<1> QED
  BY <1>1, <1>5, <1>6, <1>7, <1>8 DEF BodyNext

-----------------------------------------------------------------------------
(* From the signed body to the desk. *)

\* What every step leaves of the facts an order was placed with.
Follows ==
  /\ \A o \in DOMAIN orders :
       /\ o \in DOMAIN orders'
       /\ basis'[o] = basis[o]
       /\ SameFacts(o)
       /\ orders'[o].approved_by = None => orders[o].approved_by = None
  /\ \A c \in DOMAIN codes : codes'[c].order_id = codes[c].order_id

LEMMA EntitledKept ==
  ASSUME Follows, NEW o \in DOMAIN orders, Entitled(o)
  PROVE  Entitled(o)'
BY DEF Follows, Entitled, SignedRelease, SameFacts

LEMMA TaskSignedKept ==
  ASSUME Sound, Bound, Follows, NEW w \in Worker, task'[w] = task[w],
         task[w].pc # "idle" => signed'[w] = signed[w]
  PROVE  TaskSigned(w)'
<1> DEFINE t == task[w]
<1>1. DraftSigned(t, signed[w]) /\ PickupEntitled(t)
  BY DEF Bound, TaskSigned
<1>2. DraftSigned(task[w], signed[w])'
  BY <1>1 DEF DraftSigned, Carries, MintedAs, SignedRelease
<1>3. ASSUME t.pc = "part" PROVE Entitled(codes[t.row].order_id)'
  <2>1. PICK c \in DOMAIN codes : c = t.row
    BY <1>3 DEF Sound, TaskOK, ReadOK
  <2>2. PICK o \in DOMAIN orders : o = codes[c].order_id /\ codes'[c].order_id = o
    BY DEF Follows, Sound, TablesOK
  <2>3. Entitled(o)
    BY <1>1, <1>3, <2>1, <2>2 DEF PickupEntitled
  <2>4. Entitled(o)'
    BY <2>3, EntitledKept
  <2> QED
    BY <2>1, <2>2, <2>4
<1>4. ASSUME t.pc \in {"flush", "commit"}, t.work.reason = "order_collected"
      PROVE  Entitled(t.work.order)'
  <2>1. PICK o \in DOMAIN orders : o = t.work.order
    BY <1>4 DEF Sound, TaskOK, WorkOK, CollectOK
  <2>2. Entitled(o)
    BY <1>1, <1>4, <2>1 DEF PickupEntitled
  <2> QED
    BY <2>1, <2>2, EntitledKept
<1>5. PickupEntitled(task[w])'
  BY <1>3, <1>4 DEF PickupEntitled
<1> QED
  BY <1>2, <1>5 DEF TaskSigned

LEMMA UnwrittenTables ==
  ASSUME Sound, Bound, UNCHANGED <<orders, codes, basis>>
  PROVE  Follows /\ TablesSigned'
<1>1. Follows
  BY DEF Follows, SameFacts
<1>2. TablesSigned'
  <2>1. SUFFICES ASSUME NEW o \in DOMAIN orders
        PROVE  /\ basis[o] \in Bodies
               /\ Carries(orders[o], basis[o])
               /\ basis[o].pickup_code # None => HasCode(o)'
               /\ \A c \in DOMAIN codes : codes[c].order_id = o =>
                    MintedAs(basis[o], codes[c].code, codes[c].created_at)
               /\ orders[o].state \in COLLECTABLE_STATES \cup {"collected"} => Entitled(o)'
    BY DEF TablesSigned, Carries, MintedAs
  <2>2. HasCode(o)' <=> HasCode(o)
    BY DEF HasCode
  <2> QED
    BY <1>1, <2>2, EntitledKept DEF Bound, TablesSigned
<1> QED
  BY <1>1, <1>2

LEMMA RefusedKept == RefusedOK /\ UNCHANGED refused => RefusedOK'
BY DEF RefusedOK, ClientAgreesWithServer

\* Thread w alone moves on to task t, and writes no table.
LEMMA MoveBound ==
  ASSUME Sound, Bound, NEW w \in Worker, NEW t, task' = [task EXCEPT ![w] = t],
         UNCHANGED <<orders, codes, basis, refused>>,
         signed' \in [Worker -> Bodies \cup {None}],
         \A v \in Worker \ {w} : task[v].pc # "idle" => signed'[v] = signed[v],
         DraftSigned(t, signed'[w]), PickupEntitled(t)
  PROVE  Bound'
<1>1. Follows /\ TablesSigned'
  BY UnwrittenTables
<1>2. task'[w] = t /\ \A v \in Worker \ {w} : task'[v] = task[v]
  BY DEF Sound, TypeOK
<1>3. TaskSigned(w)'
  BY <1>2 DEF TaskSigned, DraftSigned, PickupEntitled, Entitled, SignedRelease,
              Carries, MintedAs
<1>4. \A v \in Worker : TaskSigned(v)'
  BY <1>1, <1>2, <1>3, TaskSignedKept
<1> QED
  BY <1>1, <1>4, RefusedKept DEF Bound, HistoryOK

\* A task that neither carries an order to be placed nor one to be handed out.
Harmless(t) ==
  \/ t.pc \in {"idle", "order"}
  \/ t.pc \in {"flush", "commit"} /\ t.work.reason \notin {"order_created", "order_collected"}

LEMMA HarmlessSigned ==
  ASSUME NEW t, Harmless(t), NEW body
  PROVE  DraftSigned(t, body) /\ PickupEntitled(t)
BY DEF Harmless, DraftSigned, PickupEntitled

LEMMA RequestTask ==
  ASSUME NEW w \in Worker, NEW a \in Account, OtherRequest(w, a)
  PROVE  \E t : task' = [task EXCEPT ![w] = t] /\ Harmless(t) /\ UNCHANGED <<orders, codes>>
<1> USE DEF Harmless, Start, tables
<1>1. PICK at \in 0 .. now : WorkflowRequest(w, a, at)
  BY DEF OtherRequest
<1>2. ASSUME NEW o \in OrderId, ApproveOrder(w, a, o)
      PROVE  \E t : task' = [task EXCEPT ![w] = t] /\ Harmless(t) /\ UNCHANGED <<orders, codes>>
  BY <1>2 DEF ApproveOrder
<1>3. ASSUME NEW o \in OrderId, RejectOrder(w, a, o)
      PROVE  \E t : task' = [task EXCEPT ![w] = t] /\ Harmless(t) /\ UNCHANGED <<orders, codes>>
  BY <1>3 DEF RejectOrder
<1>4. ASSUME Forbid(w)
      PROVE  \E t : task' = [task EXCEPT ![w] = t] /\ Harmless(t) /\ UNCHANGED <<orders, codes>>
  BY <1>4 DEF Forbid, Idle
<1>5. ASSUME NEW v \in CodeValue, PresentCode(w, a, v, at)
      PROVE  \E t : task' = [task EXCEPT ![w] = t] /\ Harmless(t) /\ UNCHANGED <<orders, codes>>
  BY <1>5 DEF PresentCode
<1>6. ASSUME NEW v \in CodeValue, PresentBadCode(w, a, v, at)
      PROVE  \E t : task' = [task EXCEPT ![w] = t] /\ Harmless(t) /\ UNCHANGED <<orders, codes>>
  BY <1>6 DEF PresentBadCode, RefusedPickup
<1> HIDE DEF Harmless, Start, tables
<1> QED
  BY <1>1, <1>2, <1>3, <1>4, <1>5, <1>6 DEF WorkflowRequest, DecisionForbidden

LEMMA RequestBound ==
  ASSUME Sound, Bound, NEW w \in Worker, NEW a \in Account, OtherRequest(w, a)
  PROVE  Bound'
<1>1. PICK t : task' = [task EXCEPT ![w] = t] /\ Harmless(t) /\ UNCHANGED <<orders, codes>>
  BY RequestTask
<1>2. UNCHANGED <<signed, basis, refused>>
  BY DEF OtherRequest
<1> QED
  BY <1>1, <1>2, HarmlessSigned, MoveBound DEF Bound, HistoryOK

\* The signature is what ties the draft to the body kept for it.
LEMMA CreateBound ==
  ASSUME Sound, Bound, NEW w \in Worker, NEW a \in Account, NEW body \in Bodies,
         NEW form \in Forms, CreateOrder(w, a, body, form)
  PROVE  Bound'
<1>1. body = Stated(form)
  BY SignatureBindsBody DEF CreateOrder, MayOrder
<1>2. signed' = [signed EXCEPT ![w] = body] /\ UNCHANGED <<basis, refused>>
  BY <1>1 DEF CreateOrder
<1>3. PICK draft \in Order, code \in CodeValue \cup {None, Fresh}, at \in Int :
        /\ Start(w, [pc |-> "flush",
                     work |-> [reason |-> "order_created", draft |-> draft,
                               code |-> code, at |-> at]])
        /\ UNCHANGED <<tables, writer, now, handed>>
        /\ draft.state \in COLLECTABLE_STATES \cup {"collected"} => SignedRelease(draft, body)
        /\ Carries(draft, body)
        /\ MintedAs(body, code, at)
  BY Drafted
<1>4. PICK t : t = [pc |-> "flush",
                    work |-> [reason |-> "order_created", draft |-> draft,
                              code |-> code, at |-> at]]
  OBVIOUS
<1>5. task' = [task EXCEPT ![w] = t] /\ UNCHANGED <<orders, codes>>
  BY <1>3, <1>4 DEF Start, tables
<1>6. signed'[w] = body /\ \A v \in Worker \ {w} : signed'[v] = signed[v]
  BY <1>2 DEF Bound, HistoryOK
<1>7. signed' \in [Worker -> Bodies \cup {None}]
  BY <1>2 DEF Bound, HistoryOK
<1>8. DraftSigned(t, signed'[w]) /\ PickupEntitled(t)
  BY <1>3, <1>4, <1>6 DEF DraftSigned, PickupEntitled
<1> QED
  BY <1>2, <1>5, <1>6, <1>7, <1>8, MoveBound

\* A refusal that blames the signature for a body nobody touched needs a form the
\* schema converts something in.
LEMMA ForbiddenBound ==
  ASSUME Sound, Bound, NEW w \in Worker, NEW a \in Account, NEW body \in Bodies,
         NEW form \in Forms, CreateForbidden(w, a, body, form)
  PROVE  Bound'
<1>1. task' = [task EXCEPT ![w] = Idle] /\ UNCHANGED <<orders, codes>>
  BY DEF CreateForbidden, Forbid, Start, tables
<1>2. UNCHANGED <<signed, basis>>
  BY DEF CreateForbidden
<1>3. RefusedOK'
  <2>1. refused \subseteq Forms /\ ClientAgreesWithServer
    BY DEF Bound, HistoryOK, RefusedOK
  <2>2. CASE UNCHANGED refused
    BY <2>1, <2>2 DEF RefusedOK, ClientAgreesWithServer
  <2>3. CASE /\ refused' = refused \cup {form}
             /\ body = Parsed(form)
             /\ ~Verify(CanonicalOrderString(body), ClientCanonical(form))
    <3>1. \E f \in DOMAIN form : form[f] \in Loose \cup {None}
      BY <2>3, UntouchedPasses
    <3> QED
      BY <2>1, <2>3, <3>1 DEF RefusedOK, ClientAgreesWithServer
  <2> QED
    BY <2>2, <2>3 DEF CreateForbidden
<1>4. Follows /\ TablesSigned'
  BY <1>1, <1>2, UnwrittenTables
<1>5. task'[w] = Idle /\ \A v \in Worker \ {w} : task'[v] = task[v]
  BY <1>1 DEF Sound, TypeOK
<1>6. TaskSigned(w)'
  BY <1>5 DEF TaskSigned, DraftSigned, PickupEntitled, Idle
<1>7. \A v \in Worker : TaskSigned(v)'
  BY <1>2, <1>4, <1>5, <1>6, TaskSignedKept
<1> QED
  BY <1>2, <1>3, <1>4, <1>7 DEF Bound, HistoryOK

-----------------------------------------------------------------------------
(* A thread's own steps, with the history that follows them. *)

LEMMA RecordType ==
  ASSUME Sound, Bound, Record
  PROVE  /\ signed' \in [Worker -> Bodies \cup {None}]
         /\ UNCHANGED refused
         /\ \A w \in Worker : task'[w].pc # "idle" => signed'[w] = signed[w]
         /\ UNCHANGED orders => UNCHANGED basis
BY DEF Record, Bound, HistoryOK

\* The moves of one thread that write no table.
LEMMA OwnMoveBound ==
  ASSUME Sound, Bound, Record, NEW w \in Worker, NEW t, task' = [task EXCEPT ![w] = t],
         UNCHANGED <<orders, codes>>,
         t.pc # "idle" => DraftSigned(t, signed[w]),
         PickupEntitled(t)
  PROVE  Bound'
<1>1. task'[w] = t /\ \A v \in Worker \ {w} : task'[v] = task[v]
  BY DEF Sound, TypeOK
<1>2. \A v \in Worker \ {w} : task[v].pc # "idle" => signed'[v] = signed[v]
  BY <1>1, RecordType
<1>3. DraftSigned(t, signed'[w])
  BY <1>1, RecordType DEF DraftSigned
<1> QED
  BY <1>2, <1>3, RecordType, MoveBound

LEMMA HarmlessBound ==
  ASSUME Sound, Bound, Record, NEW w \in Worker, NEW t, task' = [task EXCEPT ![w] = t],
         UNCHANGED <<orders, codes>>, Harmless(t)
  PROVE  Bound'
BY HarmlessSigned, OwnMoveBound

LEMMA ReadOrderBound ==
  ASSUME Sound, Bound, Record, NEW w \in Worker, ReadOrder(w)
  PROVE  Bound'
<1>1. task[w] \in Task /\ task[w].pc = "order"
  BY DEF ReadOrder, Sound, TypeOK
<1>2. PICK t : t = [task[w] EXCEPT !.pc = "part"]
  OBVIOUS
<1>3. t.pc = "part" /\ t.row = task[w].row
  BY <1>1, <1>2, ReadingType
<1>4. task' = [task EXCEPT ![w] = t] /\ UNCHANGED <<orders, codes>>
  BY <1>2 DEF ReadOrder, tables
<1>5. PICK c \in DOMAIN codes : c = task[w].row
  BY <1>1 DEF Sound, TaskOK, ReadOK
<1>6. PICK o \in DOMAIN orders : o = codes[c].order_id
  BY DEF Sound, TablesOK
<1>7. Entitled(o)
  BY <1>5, <1>6 DEF ReadOrder, Bound, TablesSigned
<1>8. PickupEntitled(t) /\ DraftSigned(t, signed[w])
  BY <1>3, <1>5, <1>6, <1>7 DEF PickupEntitled, DraftSigned
<1> QED
  BY <1>4, <1>8, OwnMoveBound

LEMMA ReadUncollectableBound ==
  ASSUME Sound, Bound, Record, NEW w \in Worker, ReadUncollectable(w)
  PROVE  Bound'
<1>1. task' = [task EXCEPT ![w] = RefusedPickup] /\ UNCHANGED <<orders, codes>>
  BY DEF ReadUncollectable, tables
<1>2. Harmless(RefusedPickup)
  BY DEF Harmless, RefusedPickup
<1> QED
  BY <1>1, <1>2, HarmlessBound

LEMMA ReadPartBound ==
  ASSUME Sound, Bound, Record, NEW w \in Worker, ReadPart(w)
  PROVE  Bound'
<1>1. PICK o : o = codes[task[w].row].order_id
  OBVIOUS
<1>2. PICK t : t = [pc |-> "flush",
                    work |-> [reason |-> "order_collected", order |-> o,
                              row |-> task[w].row, at |-> task[w].at,
                              stock |-> stock[orders[o].part] - orders[o].quantity]]
  OBVIOUS
<1>3. task' = [task EXCEPT ![w] = t] /\ UNCHANGED <<orders, codes>>
  BY <1>1, <1>2 DEF ReadPart, tables
<1>4. Entitled(o)
  BY <1>1 DEF ReadPart, Bound, TaskSigned, PickupEntitled
<1>5. t.pc = "flush" /\ t.work.reason = "order_collected" /\ t.work.order = o
  BY <1>2
<1>6. PickupEntitled(t) /\ DraftSigned(t, signed[w])
  BY <1>4, <1>5 DEF PickupEntitled, DraftSigned
<1> QED
  BY <1>3, <1>6, OwnMoveBound

LEMMA FlushBound ==
  ASSUME Sound, Bound, Record, NEW w \in Worker, Flush(w)
  PROVE  Bound'
<1>1. task[w] \in Task /\ task[w].pc = "flush" /\ UNCHANGED <<orders, codes>>
  BY DEF Flush, Sound, TypeOK, tables
<1>2. PICK u \in Work : u = task[w].work /\ task[w] = [pc |-> "flush", work |-> u]
  BY <1>1, WorkingType
<1>3. CASE u.reason = "order_approved"
  <2>1. u \in Approve
    BY <1>3, WorkType
  <2>2. PICK at, t :
          /\ t = [pc |-> "commit", work |-> [u EXCEPT !.at = at, !.issue = ~HasCode(u.order)]]
          /\ task' = [task EXCEPT ![w] = t]
    BY <1>2, <1>3 DEF Flush
  <2>3. t.pc = "commit" /\ t.work.reason = "order_approved"
    BY <1>3, <2>1, <2>2 DEF Approve
  <2> QED
    BY <1>1, <2>2, <2>3, HarmlessBound DEF Harmless
<1>4. CASE u.reason # "order_approved"
  <2>1. PICK t : t = [task[w] EXCEPT !.pc = "commit"]
    OBVIOUS
  <2>2. t.pc = "commit" /\ t.work = u
    BY <1>2, <2>1
  <2>3. task' = [task EXCEPT ![w] = t]
    BY <1>2, <1>4, <2>1 DEF Flush
  <2>4. DraftSigned(t, signed[w]) /\ PickupEntitled(t)
    BY <1>1, <1>2, <2>2 DEF Bound, TaskSigned, DraftSigned, PickupEntitled
  <2> QED
    BY <1>1, <2>3, <2>4, OwnMoveBound
<1> QED
  BY <1>3, <1>4

LEMMA RollbackBound ==
  ASSUME Sound, Bound, Record, NEW w \in Worker, Rollback(w)
  PROVE  Bound'
<1>1. task' = [task EXCEPT ![w] = Idle] /\ UNCHANGED <<orders, codes>>
  BY DEF Rollback, tables
<1>2. Harmless(Idle)
  BY DEF Harmless, Idle
<1> QED
  BY <1>1, <1>2, HarmlessBound

LEMMA RestBound ==
  ASSUME Sound, Bound, Record, Crash \/ Tick
  PROVE  Bound'
<1>1. UNCHANGED <<orders, codes>>
  BY DEF Crash, Tick, tables
<1>2. Follows /\ TablesSigned'
  BY <1>1, RecordType, UnwrittenTables
<1>3. ASSUME NEW w \in Worker PROVE TaskSigned(w)'
  <2>1. CASE Crash
    <3>1. task'[w].pc = "idle"
      BY <2>1 DEF Crash, Idle
    <3> QED
      BY <3>1 DEF TaskSigned, DraftSigned, PickupEntitled
  <2>2. CASE Tick
    <3>1. task'[w] = task[w]
      BY <2>2 DEF Tick
    <3> QED
      BY <1>2, <3>1, RecordType, TaskSignedKept
  <2> QED
    BY <2>1, <2>2
<1> QED
  BY <1>1, <1>2, <1>3, RecordType, RefusedKept DEF Bound, HistoryOK

-----------------------------------------------------------------------------
(* Commits. *)

\* The commit of w: who was inserted, and by whom.
LEMMA CommitRecord ==
  ASSUME Sound, Bound, Record, NEW w \in Worker, NEW r \in Reason, CommitWork(w, r)
  PROVE  /\ writer = w /\ task'[w].pc = "idle"
         /\ \A v \in Worker \ {w} : task'[v] = task[v]
         /\ \A o \in OrderId : basis'[o] = IF o \in DOMAIN orders' \ DOMAIN orders
                                           THEN signed[w] ELSE basis[o]
         /\ basis' \in [OrderId -> Bodies \cup {None}]
         /\ DraftSigned(task[w], signed[w]) /\ PickupEntitled(task[w])
<1>1. writer = w
  BY DEF CommitWork, Sound, LockOK
<1>2. task'[w].pc = "idle" /\ \A v \in Worker \ {w} : task'[v] = task[v]
  BY DEF CommitWork, Sound, TypeOK, Idle
<1>3. /\ \A o \in OrderId : basis'[o] = IF o \in DOMAIN orders' \ DOMAIN orders
                                        THEN signed[w] ELSE basis[o]
      /\ basis' \in [OrderId -> Bodies \cup {None}]
  BY <1>1 DEF Record, Bound, HistoryOK
<1> QED
  BY <1>1, <1>2, <1>3 DEF Bound, TaskSigned

LEMMA CommitBound ==
  ASSUME Sound, Bound, Record, NEW w \in Worker, NEW r \in Reason, CommitWork(w, r),
         Follows, TablesSigned'
  PROVE  Bound'
<1>1. ASSUME NEW v \in Worker PROVE TaskSigned(v)'
  <2>1. CASE v = w
    <3>1. task'[w].pc = "idle"
      BY CommitRecord
    <3> QED
      BY <2>1, <3>1 DEF TaskSigned, DraftSigned, PickupEntitled
  <2>2. CASE v # w
    BY <2>2, CommitRecord, RecordType, TaskSignedKept
  <2> QED
    BY <2>1, <2>2
<1>2. HistoryOK'
  BY CommitRecord, RecordType, RefusedKept DEF Bound, HistoryOK
<1> QED
  BY <1>1, <1>2 DEF Bound

LEMMA CreateCommitBound ==
  ASSUME Sound, Bound, Record, NEW w \in Worker, CommitCreate(w)
  PROVE  Bound'
<1>1. CommitWork(w, "order_created") /\ task[w].pc = "commit"
  BY DEF CommitCreate, CommitWork
<1>2. PICK u \in Create, o \in OrderId \ DOMAIN orders :
        /\ u = task[w].work
        /\ OrdersBut(o) /\ orders'[o] = u.draft
        /\ \/ u.code = None /\ UNCHANGED codes
           \/ /\ u.code # None
              /\ \E c \in CodeId :
                   /\ CodeBrought(c, o)
                   /\ codes'[c].code = CodeOfRow(c, u.code)
                   /\ codes'[c].created_at = u.at
  BY CreateEffect
<1>3. PICK row \in Order, code \in CodeValue \cup {None, Fresh}, at \in Int :
        row = u.draft /\ code = u.code /\ at = u.at
  BY DEF Create
<1>4. PICK body \in Bodies :
        /\ body = signed[w]
        /\ Carries(row, body) /\ MintedAs(body, code, at)
        /\ row.state \in COLLECTABLE_STATES \cup {"collected"} => SignedRelease(row, body)
  BY <1>1, <1>2, <1>3, CommitRecord DEF DraftSigned, CommitWork
<1>5. /\ DOMAIN orders' = DOMAIN orders \cup {o}
      /\ \A x \in DOMAIN orders : x # o /\ orders'[x] = orders[x] /\ basis'[x] = basis[x]
      /\ orders'[o] = row /\ basis'[o] = body
  <2>1. DOMAIN orders \subseteq OrderId
    BY DEF Sound, TypeOK
  <2> QED
    BY <1>1, <1>2, <1>3, <1>4, <2>1, CommitRecord DEF OrdersBut
<1>6. \A c \in DOMAIN codes : c \in DOMAIN codes' /\ codes'[c] = codes[c]
                              /\ codes[c].order_id \in DOMAIN orders
  BY <1>2 DEF CodeBrought, Sound, TablesOK
<1>7. Follows
  BY <1>5, <1>6 DEF Follows, SameFacts
<1>8. \A c \in DOMAIN codes' \ DOMAIN codes :
        /\ codes'[c].order_id = o
        /\ MintedAs(body, codes'[c].code, codes'[c].created_at)
  <2>1. SUFFICES ASSUME NEW c \in DOMAIN codes' \ DOMAIN codes
        PROVE /\ codes'[c].order_id = o
              /\ MintedAs(body, codes'[c].code, codes'[c].created_at)
    OBVIOUS
  <2>2. /\ CodeBrought(c, o)
        /\ codes'[c].code = CodeOfRow(c, code) /\ codes'[c].created_at = at
    BY <1>2, <1>3, <2>1 DEF CodeBrought
  <2>3. body.pickup_code # None => codes'[c].code = code
    BY <1>4, <2>2, BodyType, TablesAssumption DEF MintedAs, CodeOfRow
  <2> QED
    BY <1>4, <2>2, <2>3 DEF MintedAs, CodeBrought
<1>9. body.pickup_code # None => HasCode(o)'
  <2>1. ASSUME body.pickup_code # None PROVE \E c \in DOMAIN codes' : codes'[c].order_id = o
    <3>1. code # None
      BY <1>4, <2>1 DEF MintedAs
    <3> QED
      BY <1>2, <1>3, <3>1 DEF CodeBrought
  <2> QED
    BY <2>1 DEF HasCode
<1>10. TablesSigned'
  <2>1. SUFFICES ASSUME NEW x \in DOMAIN orders'
        PROVE  /\ basis'[x] \in Bodies
               /\ Carries(orders'[x], basis'[x])
               /\ basis'[x].pickup_code # None => HasCode(x)'
               /\ \A c \in DOMAIN codes' : codes'[c].order_id = x =>
                    MintedAs(basis'[x], codes'[c].code, codes'[c].created_at)
               /\ orders'[x].state \in COLLECTABLE_STATES \cup {"collected"} => Entitled(x)'
    BY DEF TablesSigned, Carries, MintedAs
  <2>2. CASE x = o
    <3>1. \A c \in DOMAIN codes' : codes'[c].order_id = x =>
            MintedAs(basis'[x], codes'[c].code, codes'[c].created_at)
      BY <1>2, <1>5, <1>6, <1>8, <2>2
    <3>2. orders'[x].state \in COLLECTABLE_STATES \cup {"collected"} => Entitled(x)'
      BY <1>4, <1>5, <2>2 DEF Entitled, SignedRelease
    <3> QED
      BY <1>4, <1>5, <1>9, <2>2, <3>1, <3>2
  <2>3. CASE x \in DOMAIN orders
    <3>1. /\ basis[x] \in Bodies /\ Carries(orders[x], basis[x])
          /\ basis[x].pickup_code # None => HasCode(x)
          /\ \A c \in DOMAIN codes : codes[c].order_id = x =>
               MintedAs(basis[x], codes[c].code, codes[c].created_at)
          /\ orders[x].state \in COLLECTABLE_STATES \cup {"collected"} => Entitled(x)
      BY <2>3 DEF Bound, TablesSigned
    <3>2. HasCode(x) => HasCode(x)'
      BY <1>6 DEF HasCode
    <3>3. \A c \in DOMAIN codes' : codes'[c].order_id = x =>
            c \in DOMAIN codes /\ codes'[c] = codes[c]
      BY <1>5, <1>6, <1>8, <2>3
    <3>4. orders'[x].state \in COLLECTABLE_STATES \cup {"collected"} => Entitled(x)'
      BY <1>5, <1>7, <2>3, <3>1, EntitledKept
    <3> QED
      BY <1>5, <2>3, <3>1, <3>2, <3>3, <3>4
  <2> QED
    BY <1>5, <2>2, <2>3
<1> QED
  BY <1>1, <1>7, <1>10, CommitBound

\* A commit that writes one order, and no part of what it was placed for.
LEMMA WrittenTables ==
  ASSUME Sound, Bound, NEW o \in DOMAIN orders, OrdersBut(o), Follows,
         \A c \in DOMAIN codes :
           /\ c \in DOMAIN codes'
           /\ codes'[c].code = codes[c].code
           /\ codes'[c].order_id = codes[c].order_id
           /\ codes'[c].created_at = codes[c].created_at,
         \A c \in DOMAIN codes' \ DOMAIN codes : codes'[c].order_id = o /\ ~HasCode(o),
         Entitled(o)'
  PROVE  TablesSigned'
<1>1. SUFFICES ASSUME NEW x \in DOMAIN orders
      PROVE  /\ basis'[x] \in Bodies
             /\ Carries(orders'[x], basis'[x])
             /\ basis'[x].pickup_code # None => HasCode(x)'
             /\ \A c \in DOMAIN codes' : codes'[c].order_id = x =>
                  MintedAs(basis'[x], codes'[c].code, codes'[c].created_at)
             /\ orders'[x].state \in COLLECTABLE_STATES \cup {"collected"} => Entitled(x)'
  BY DEF TablesSigned, Carries, MintedAs, OrdersBut
<1>2. /\ basis[x] \in Bodies /\ Carries(orders[x], basis[x])
      /\ basis[x].pickup_code # None => HasCode(x)
      /\ \A c \in DOMAIN codes : codes[c].order_id = x =>
           MintedAs(basis[x], codes[c].code, codes[c].created_at)
      /\ orders[x].state \in COLLECTABLE_STATES \cup {"collected"} => Entitled(x)
  BY DEF Bound, TablesSigned
<1>3. basis'[x] = basis[x] /\ SameFacts(x)
  BY DEF Follows
<1>4. Carries(orders'[x], basis'[x])
  BY <1>2, <1>3 DEF Carries, SameFacts
<1>5. HasCode(x) => HasCode(x)'
  BY DEF HasCode
<1>6. ASSUME NEW c \in DOMAIN codes', codes'[c].order_id = x
      PROVE  MintedAs(basis'[x], codes'[c].code, codes'[c].created_at)
  <2>1. CASE c \in DOMAIN codes
    BY <1>2, <1>3, <1>6, <2>1
  <2>2. CASE c \notin DOMAIN codes
    <3>1. ~HasCode(x)
      BY <1>6, <2>2
    <3> QED
      BY <1>2, <1>3, <3>1 DEF MintedAs
  <2> QED
    BY <2>1, <2>2
<1>7. orders'[x].state \in COLLECTABLE_STATES \cup {"collected"} => Entitled(x)'
  <2>1. CASE x = o
    BY <2>1
  <2>2. CASE x # o
    <3>1. orders'[x] = orders[x]
      BY <2>2 DEF OrdersBut
    <3> QED
      BY <1>2, <3>1, EntitledKept
  <2> QED
    BY <2>1, <2>2
<1> QED
  BY <1>2, <1>3, <1>4, <1>5, <1>6, <1>7

LEMMA KeptBasis ==
  ASSUME Sound, Bound, Record, NEW w \in Worker, NEW r \in Reason, CommitWork(w, r),
         DOMAIN orders' = DOMAIN orders
  PROVE  \A o \in DOMAIN orders : basis'[o] = basis[o]
<1>1. DOMAIN orders \subseteq OrderId
  BY DEF Sound, TypeOK
<1> QED
  BY <1>1, CommitRecord

LEMMA DecisionBound ==
  ASSUME Sound, Bound, Record, NEW w \in Worker, CommitApprove(w) \/ CommitReject(w)
  PROVE  Bound'
<1>1. PICK r \in Reason : CommitWork(w, r)
  BY DEF CommitApprove, CommitReject
<1>2. PICK o \in DOMAIN orders, a \in Account :
        /\ OrdersBut(o) /\ SameFacts(o) /\ orders'[o].approved_by = a
        /\ \/ UNCHANGED codes
           \/ ~HasCode(o) /\ \E c \in CodeId : CodeBrought(c, o)
  BY DecisionEffect
<1>3. a # None
  BY AccountsAssumption
<1>4. DOMAIN orders' = DOMAIN orders
  BY <1>2 DEF OrdersBut
<1>5. /\ \A c \in DOMAIN codes : c \in DOMAIN codes' /\ codes'[c] = codes[c]
      /\ \A c \in DOMAIN codes' \ DOMAIN codes : codes'[c].order_id = o /\ ~HasCode(o)
  BY <1>2 DEF CodeBrought
<1>6. Follows
  <2>1. \A x \in DOMAIN orders : SameFacts(x) /\
          (orders'[x].approved_by = None => orders[x].approved_by = None)
    BY <1>2, <1>3 DEF OrdersBut, SameFacts
  <2> QED
    BY <1>1, <1>4, <1>5, <2>1, KeptBasis DEF Follows
<1>7. Entitled(o)'
  BY <1>2, <1>3 DEF Entitled
<1> QED
  BY <1>1, <1>2, <1>5, <1>6, <1>7, WrittenTables, CommitBound

LEMMA CollectBound ==
  ASSUME Sound, Bound, Record, NEW w \in Worker, CommitCollect(w)
  PROVE  Bound'
<1>1. CommitWork(w, "order_collected") /\ "order_collected" \in Reason
  BY DEF CommitCollect
<1>2. PICK o \in DOMAIN orders, c \in DOMAIN codes :
        /\ o = task[w].work.order
        /\ OrdersBut(o) /\ SameFacts(o)
        /\ orders'[o].approved_by = orders[o].approved_by
        /\ CodeUsed(c)
  BY CollectEffect
<1>3. DOMAIN orders' = DOMAIN orders
  BY <1>2 DEF OrdersBut
<1>4. /\ \A x \in DOMAIN codes :
           /\ x \in DOMAIN codes'
           /\ codes'[x].code = codes[x].code
           /\ codes'[x].order_id = codes[x].order_id
           /\ codes'[x].created_at = codes[x].created_at
      /\ DOMAIN codes' \ DOMAIN codes = {}
  BY <1>2 DEF CodeUsed
<1>5. Follows
  <2>1. \A x \in DOMAIN orders : SameFacts(x) /\
          (orders'[x].approved_by = None => orders[x].approved_by = None)
    BY <1>2 DEF OrdersBut, SameFacts
  <2> QED
    BY <1>1, <1>3, <1>4, <2>1, KeptBasis DEF Follows
<1>6. Entitled(o)
  BY <1>1, <1>2, CommitRecord DEF PickupEntitled, CommitWork
<1>7. Entitled(o)'
  BY <1>5, <1>6, EntitledKept
<1> QED
  BY <1>1, <1>2, <1>4, <1>5, <1>7, WrittenTables, CommitBound

LEMMA RefuseBound ==
  ASSUME Sound, Bound, Record, NEW w \in Worker, CommitRefuse(w)
  PROVE  Bound'
<1>1. CommitWork(w, "pickup_refused") /\ UNCHANGED <<orders, codes>>
  BY DEF CommitRefuse
<1> QED
  BY <1>1, RecordType, UnwrittenTables, CommitBound

-----------------------------------------------------------------------------
LEMMA InitBound == BodyInit => Bound
<1> SUFFICES ASSUME BodyInit PROVE Bound
  OBVIOUS
<1>1. HistoryOK
  BY DEF BodyInit, HistoryOK, RefusedOK, ClientAgreesWithServer
<1>2. TablesSigned
  BY DEF BodyInit, WorkflowInit, TablesSigned
<1>3. \A w \in Worker : task[w].pc = "idle"
  BY DEF BodyInit, WorkflowInit, Idle
<1> QED
  BY <1>1, <1>2, <1>3 DEF Bound, TaskSigned, DraftSigned, PickupEntitled

LEMMA NextBound ==
  ASSUME Sound, Bound, [BodyNext]_bodyVars
  PROVE  Bound'
<1>1. ASSUME NEW w \in Worker, NEW a \in Account, OtherRequest(w, a) PROVE Bound'
  BY <1>1, RequestBound
<1>2. ASSUME NEW w \in Worker, NEW a \in Account, NEW body \in Bodies, NEW form \in Forms,
             CreateOrder(w, a, body, form) \/ CreateForbidden(w, a, body, form)
      PROVE  Bound'
  BY <1>2, CreateBound, ForbiddenBound
<1>3. ASSUME Record, NEW w \in Worker, Commit(w) PROVE Bound'
  BY <1>3, CreateCommitBound, DecisionBound, CollectBound, RefuseBound DEF Commit
<1>4. ASSUME Record, NEW w \in Worker, Advance(w) \/ Fail(w) PROVE Bound'
  BY <1>3, <1>4, ReadOrderBound, ReadUncollectableBound, ReadPartBound, FlushBound,
     RollbackBound DEF Advance, BusyTimeout, Fail
<1>5. CASE WorkflowStep /\ Record
  BY <1>4, <1>5, RestBound DEF WorkflowStep
<1>6. ASSUME UNCHANGED bodyVars PROVE Bound'
  <2>1. UNCHANGED <<orders, codes, task, signed, basis, refused>>
    BY <1>6 DEF bodyVars, vars
  <2>2. Follows /\ TablesSigned'
    BY <2>1, UnwrittenTables
  <2>3. \A w \in Worker : TaskSigned(w)'
    BY <2>1, <2>2, TaskSignedKept
  <2> QED
    BY <2>1, <2>2, <2>3, RefusedKept DEF Bound, HistoryOK
<1>7. CASE AtBound /\ UNCHANGED <<signed, basis, refused>>
  BY <1>6, <1>7 DEF AtBound, bodyVars
<1> QED
  BY <1>1, <1>2, <1>5, <1>6, <1>7 DEF BodyNext

\* The invariant the others follow from: the tables agree with each other, what a
\* thread remembers of its reads stays true of them, and every order carries the
\* body its client signed from the check of the signature to its collection.
THEOREM BodySpecInvariant == BodySpec => [](Sound /\ Bound)
<1>1. BodyInit => Sound /\ Bound
  BY InitSound, InitBound
<1>2. Sound /\ Bound /\ [BodyNext]_bodyVars => (Sound /\ Bound)'
  BY NextSound, NextBound
<1> QED
  BY <1>1, <1>2, PTL DEF BodySpec

\* Every table, task and history variable keeps its type.
THEOREM BodySpecTypeOK == BodySpec => []BodyTypeOK
<1>1. Sound /\ Bound => BodyTypeOK
  BY DEF Sound, Bound, HistoryOK, RefusedOK, BodyTypeOK
<1> QED
  BY <1>1, BodySpecInvariant, PTL

\* An untouched request is refused for its signature only if it has a null or a
\* value the schema converts, whichever optional fields it has.
THEOREM BodyClientAgrees == BodySpec => []ClientAgreesWithServer
<1>1. Sound /\ Bound => ClientAgreesWithServer
  BY DEF Bound, HistoryOK, RefusedOK
<1> QED
  BY <1>1, BodySpecInvariant, PTL

\* What is on the desk is what was signed, and a minted code with its time is
\* stored verbatim: approvals and collections by other threads change neither.
THEOREM BodyStoredAsSigned == BodySpec => []StoredAsSigned
<1>1. ASSUME Sound, Bound PROVE StoredAsSigned
  <2>1. SUFFICES ASSUME NEW o \in DOMAIN orders
        PROVE  /\ basis[o] # None
               /\ Carries(orders[o], basis[o])
               /\ basis[o].pickup_code # None =>
                    \A c \in DOMAIN codes : codes[c].order_id = o =>
                      /\ codes[c].code = basis[o].pickup_code
                      /\ basis[o].created_at_epoch \notin {None, 0} =>
                           codes[c].created_at = basis[o].created_at_epoch
    BY DEF StoredAsSigned, Carries
  <2>2. basis[o] # None
    BY <1>1, FormsAssumption DEF Bound, TablesSigned
  <2>3. Carries(orders[o], basis[o])
    BY <1>1 DEF Bound, TablesSigned
  <2>4. \A c \in DOMAIN codes : codes[c].order_id = o =>
          MintedAs(basis[o], codes[c].code, codes[c].created_at)
    BY <1>1 DEF Bound, TablesSigned
  <2> QED
    BY <2>2, <2>3, <2>4 DEF MintedAs
<1> QED
  BY <1>1, BodySpecInvariant, PTL

\* A code is marked used exactly when its order has been collected.
THEOREM BodyUsedIffCollected == BodySpec => []UsedIffCollected
<1>1. Sound /\ Bound => UsedIffCollected
  BY DEF Sound, TablesOK
<1> QED
  BY <1>1, BodySpecInvariant, PTL

\* An order no supervisor decided on was released because its signed body said
\* so; in particular a rejection that races with a pickup never hides that.
THEOREM BodyReleasedAsSigned == BodySpec => []ReleasedAsSigned
<1>1. ASSUME Sound, Bound PROVE ReleasedAsSigned
  <2>1. \A o \in DOMAIN orders :
          orders[o].state \in COLLECTABLE_STATES \cup {"collected"} => Entitled(o)
    BY <1>1 DEF Bound, TablesSigned
  <2> QED
    BY <2>1 DEF ReleasedAsSigned, Entitled, SignedRelease, COLLECTABLE_STATES
<1> QED
  BY <1>1, BodySpecInvariant, PTL

\* An order that may be collected has a code, minted or drawn.
THEOREM BodyReleasedHasCode == BodySpec => []ReleasedHasCode
<1>1. Sound /\ Bound => ReleasedHasCode
  BY DEF Sound, TablesOK
<1> QED
  BY <1>1, BodySpecInvariant, PTL

\* Parts leave within the lifetime of the code presented for them, whatever time
\* its client let it start at and however long the pickup took to commit.
THEOREM BodyCollectedBeforeExpiry == BodySpec => []CollectedBeforeExpiry
<1>1. Sound /\ Bound => CollectedBeforeExpiry
  BY DEF Sound, TablesOK
<1> QED
  BY <1>1, BodySpecInvariant, PTL

\* An order never has two codes, even when its client minted one, a supervisor
\* approves it twice at a time and the server has a code to issue.
THEOREM BodyOneCodePerOrder == BodySpec => []OneCodePerOrder
<1>1. Sound /\ Bound => OneCodePerOrder
  BY DEF Sound, TablesOK
<1> QED
  BY <1>1, BodySpecInvariant, PTL

-----------------------------------------------------------------------------
(* The audit trail and the shelf: the workflow's steps keep them, and so    *)
(* does a creation from a signed body.                                      *)

LEMMA SoundKnown == ASSUME Sound PROVE Known
<1>1. \A w \in Worker : TaskKnown(task[w])
  BY DEF Sound, TaskOK, ReadOK, WorkOK, CreateOK, DecisionOK, CollectOK,
         TaskKnown, WorkKnown
<1> QED
  BY <1>1 DEF Sound, TablesOK, Known

LEMMA NextAccounted ==
  ASSUME Sound, Accounted, [BodyNext]_bodyVars
  PROVE  Accounted'
<1>0. TypeOK /\ Known
  BY SoundKnown DEF Sound
<1>1. ASSUME NEW w \in Worker, NEW a \in Account, OtherRequest(w, a) PROVE Accounted'
  BY <1>0, <1>1, RequestAccounted DEF OtherRequest
<1>2. ASSUME NEW w \in Worker, NEW a, NEW body, NEW form,
             CreateOrder(w, a, body, form) \/ CreateForbidden(w, a, body, form)
      PROVE  Accounted'
  BY <1>0, <1>2, ForbidAccounted, StageAccounted DEF CreateOrder, CreateForbidden
<1> QED
  BY <1>0, <1>1, <1>2, StepAccounted DEF BodyNext, bodyVars

LEMMA NextStock ==
  ASSUME Sound, StockOK, [BodyNext]_bodyVars
  PROVE  StockOK'
<1>0. Known
  BY SoundKnown
<1>1. ASSUME NEW w \in Worker, NEW a \in Account, OtherRequest(w, a) PROVE StockOK'
  BY <1>0, <1>1, RequestStock DEF OtherRequest
<1>2. ASSUME NEW w \in Worker, NEW a, NEW body, NEW form,
             CreateOrder(w, a, body, form) \/ CreateForbidden(w, a, body, form)
      PROVE  StockOK'
  BY <1>0, <1>2, ForbidStock, StageStock DEF CreateOrder, CreateForbidden
<1> QED
  BY <1>0, <1>1, <1>2, StepStock DEF BodyNext, bodyVars

\* The contrast applications' audit table, too, accounts for every order, decision
\* and collection whatever the client put into its order, and no row lacks its log
\* line.
THEOREM BodyAuditAccountsForTables == BodySpec => []AuditAccountsForTables
<1>1. BodyInit => Accounted
  BY InitAccounted DEF BodyInit
<1>2. Sound /\ Accounted /\ [BodyNext]_bodyVars => Accounted'
  BY NextAccounted
<1>3. Sound /\ Accounted => AuditAccountsForTables
  BY AccountedForTables DEF Sound
<1> QED
  BY <1>1, <1>2, <1>3, BodySpecInvariant, PTL DEF BodySpec

\* Whatever quantities clients sign and whatever codes they mint, stale reads of
\* the stock lose decrements and never invent one, and once something was handed
\* out at least one whole order is missing from the shelf.
THEOREM BodyStockNeverOverCounted == BodySpec => []StockNeverOverCounted
<1>1. BodyInit => StockOK
  BY InitStock DEF BodyInit
<1>2. Sound /\ StockOK /\ [BodyNext]_bodyVars => StockOK'
  BY NextStock
<1>3. StockOK => StockNeverOverCounted
  BY DEF StockOK
<1> QED
  BY <1>1, <1>2, <1>3, BodySpecInvariant, PTL DEF BodySpec
-----------------------------------------------------------------------------
(* What create_order stages is what its thread's signed body makes. *)

LEMMA TrustedDraft ==
  ASSUME NEW w \in Worker, NEW a \in Account, NEW body \in Bodies, NEW form \in Forms,
         CreateOrder(w, a, body, form)
  PROVE  LET draft == TrustedOrder(a, body)
         IN  /\ draft.account = a /\ draft.state # "collected"
             /\ ItemFor(a, body) \in SignedItems
<1>1. RoleOf[a] = "technician" /\ Limit[a] # None /\ body.part_number \in Part
  BY DEF CreateOrder, MayOrder
<1>2. ItemFor(a, body) \in SignedItems
  BY <1>1 DEF SignedItems, Buyers
<1> QED
  BY <1>2 DEF TrustedOrder, RouteState

LEMMA NextDrafts ==
  ASSUME Sound, Bound, DraftsTrusted, [BodyNext]_bodyVars
  PROVE  DraftsTrusted'
<1>0. TypeOK
  BY DEF Sound
<1> SUFFICES ASSUME NEW v \in Worker, Staged(task'[v])
             PROVE  LET draft == task'[v].work.draft
                        body == signed'[v]
                    IN  /\ ItemFor(draft.account, body) \in SignedItems
                        /\ draft = TrustedOrder(draft.account, body)
  BY DEF DraftsTrusted, Staged
<1> DEFINE Kept == Staged(task[v]) /\ task'[v].work = task[v].work
           Goal == /\ ItemFor(task'[v].work.draft.account, signed'[v]) \in SignedItems
                   /\ task'[v].work.draft = TrustedOrder(task'[v].work.draft.account, signed'[v])
<1>1. ASSUME Kept, signed'[v] = signed[v] PROVE Goal
  BY <1>1 DEF DraftsTrusted
<1>2. ASSUME NEW w \in Worker, NEW a \in Account, NEW body \in Bodies, NEW form \in Forms,
             CreateOrder(w, a, body, form)
      PROVE  Goal
  <2>1. body = Stated(form)
    BY <1>2, SignatureBindsBody DEF CreateOrder, MayOrder
  <2>2. signed' = [signed EXCEPT ![w] = body] /\ signed \in [Worker -> Bodies \cup {None}]
    BY <1>2, <2>1 DEF CreateOrder, Bound, HistoryOK
  <2>3. PICK code, at, u : /\ u = [reason |-> "order_created", draft |-> TrustedOrder(a, body),
                                   code |-> code, at |-> at]
                           /\ task' = [task EXCEPT ![w] = [pc |-> "flush", work |-> u]]
    BY <1>2 DEF CreateOrder, StageOrder, Start
  <2>4. CASE v = w
    <3>1. task'[v].work.draft = TrustedOrder(a, body) /\ signed'[v] = body
      BY <1>0, <2>2, <2>3, <2>4 DEF TypeOK
    <3>2. ItemFor(a, body) \in SignedItems /\ TrustedOrder(a, body).account = a
      BY <1>2, TrustedDraft
    <3> QED
      BY <3>1, <3>2
  <2>5. CASE v # w
    <3>1. task'[v] = task[v] /\ signed'[v] = signed[v]
      BY <1>0, <2>2, <2>3, <2>5 DEF TypeOK
    <3> QED
      BY <1>1, <3>1
  <2> QED
    BY <2>4, <2>5
<1>3. ASSUME NEW w \in Worker, NEW a, NEW body, NEW form, CreateForbidden(w, a, body, form)
      PROVE  Goal
  <2>1. Forbid(w) /\ signed' = signed
    BY <1>3 DEF CreateForbidden
  <2>2. Kept
    BY <1>0, <2>1, RequestKeepsDrafts
  <2> QED
    BY <1>1, <2>1, <2>2
<1>4. ASSUME NEW w \in Worker, NEW a \in Account, OtherRequest(w, a) PROVE Goal
  <2>1. PICK at : WorkflowRequest(w, a, at)
    BY <1>4 DEF OtherRequest
  <2>2. signed' = signed
    BY <1>4 DEF OtherRequest
  <2> QED
    BY <1>0, <1>1, <2>1, <2>2, RequestKeepsDrafts
<1>5. ASSUME WorkflowStep, Record PROVE Goal
  <2>1. Kept
    BY <1>0, <1>5, StepKeepsDrafts
  <2>2. signed'[v] = signed[v]
    BY <1>5, RecordType DEF Staged
  <2> QED
    BY <1>1, <2>1, <2>2
<1>6. ASSUME AtBound \/ UNCHANGED vars, UNCHANGED signed PROVE Goal
  BY <1>0, <1>1, <1>6, StepKeepsDrafts
<1> HIDE DEF Goal
<1>7. Goal
  BY <1>2, <1>3, <1>4, <1>5, <1>6 DEF BodyNext, bodyVars
<1> QED
  BY <1>7 DEF Goal

LEMMA SpecDrafts == BodySpec => []DraftsTrusted
<1>1. BodyInit => DraftsTrusted
  BY DEF BodyInit, WorkflowInit, Idle, DraftsTrusted, Staged
<1>2. (Sound /\ Bound) /\ DraftsTrusted /\ [BodyNext]_bodyVars => DraftsTrusted'
  BY NextDrafts
<1> QED
  BY <1>1, <1>2, BodySpecInvariant, PTL DEF BodySpec

-----------------------------------------------------------------------------
(* Requests served one at a time. *)

LEMMA NextSerial ==
  ASSUME Sound, Bound, Serial, SingleThread, [BodyNext]_bodyVars
  PROVE  /\ Serial'
         /\ (Turn /\ Record) \/ UNCHANGED <<orders, basis, stock>>
<1>0. TypeOK /\ Known
  BY SoundKnown DEF Sound
<1>1. ASSUME NEW w \in Worker, NEW a \in Account, NEW body \in Bodies, NEW form \in Forms,
             CreateOrder(w, a, body, form) \/ CreateForbidden(w, a, body, form)
      PROVE  Serial' /\ UNCHANGED <<orders, basis, stock>>
  <2>1. CASE CreateOrder(w, a, body, form)
    <3>1. TrustedOrder(a, body).state # "collected"
      BY <2>1, TrustedDraft
    <3> QED
      BY <1>0, <2>1, <3>1, StageSerial DEF CreateOrder
  <2>2. CASE CreateForbidden(w, a, body, form)
    BY <1>0, <2>2, ForbidSerial DEF CreateForbidden
  <2> QED
    BY <1>1, <2>1, <2>2
<1>2. ASSUME NEW w \in Worker, NEW a \in Account, OtherRequest(w, a)
      PROVE  Serial' /\ UNCHANGED <<orders, basis, stock>>
  BY <1>0, <1>2, RequestSerial DEF OtherRequest
<1>3. ASSUME WorkflowStep, Record
      PROVE  Serial' /\ (Turn \/ UNCHANGED <<orders, basis, stock>>)
  <2>1. Serial' /\ (Turn \/ UNCHANGED <<orders, stock>>)
    BY <1>0, <1>3, StepSerial
  <2>2. UNCHANGED orders => UNCHANGED basis
    BY <1>3, RecordType
  <2> QED
    BY <2>1, <2>2
<1>4. ASSUME AtBound \/ UNCHANGED vars, UNCHANGED basis
      PROVE  Serial' /\ UNCHANGED <<orders, basis, stock>>
  BY <1>0, <1>4, StepSerial DEF AtBound, vars
<1> QED
  BY <1>1, <1>2, <1>3, <1>4 DEF BodyNext, bodyVars

LEMMA SerialBody ==
  ASSUME SingleThread
  PROVE  BodySpec => [](Sound /\ Bound /\ Serial)
<1>1. BodyInit => Serial
  BY InitSerial DEF BodyInit
<1>2. (Sound /\ Bound) /\ Serial /\ [BodyNext]_bodyVars => Serial'
  BY NextSerial
<1> QED
  BY <1>1, <1>2, BodySpecInvariant, PTL DEF BodySpec

\* Served one at a time, not even a code the client minted, or one presented by
\* somebody else, hands an order's parts out twice.
THEOREM BodySerialSingleUse ==
  ASSUME SingleThread
  PROVE  BodySpec => []SingleUse
<1>1. Serial => SingleUse
  BY SerialHanded
<1> QED
  BY <1>1, SerialBody, PTL

\* Served one at a time, no order leaves its life cycle, whatever verdict its client
\* signed.
THEOREM BodySerialOrderLifecycle ==
  ASSUME SingleThread
  PROVE  BodySpec => OrderLifecycle
<1>1. (Sound /\ Bound /\ Serial) /\ [BodyNext]_bodyVars => [Lives]_vars
  BY NextSerial, TurnLives, SameLives
<1> QED
  BY <1>1, SerialBody, PTL DEF BodySpec, OrderLifecycle, Lives

\* Served one at a time, the shelf lacks exactly what was handed out.
THEOREM BodySerialStockExact ==
  ASSUME SingleThread
  PROVE  BodySpec => []StockExact
<1>1. BodyInit => StockOK /\ StockExact
  BY InitStock, InitExact DEF BodyInit
<1>2. (Sound /\ Bound /\ Serial) /\ StockOK /\ StockExact /\ [BodyNext]_bodyVars =>
        (StockOK /\ StockExact)'
  <2> SUFFICES ASSUME Sound, Serial, StockOK, StockExact, [BodyNext]_bodyVars
               PROVE  (StockOK /\ StockExact)'
    OBVIOUS
  <2>1. StockOK'
    BY NextStock
  <2>2. ASSUME NEW w \in Worker, NEW a, NEW at, WorkflowRequest(w, a, at) \/ Forbid(w)
        PROVE  UNCHANGED <<orders, stock, handed>>
    BY <2>2 DEF WorkflowRequest, ApproveOrder, RejectOrder, DecisionForbidden, Forbid,
                PresentCode, PresentBadCode, tables
  <2>3. ASSUME NEW w \in Worker, NEW a, NEW body, NEW form,
               CreateOrder(w, a, body, form) \/ CreateForbidden(w, a, body, form)
        PROVE  UNCHANGED <<orders, stock, handed>>
    BY <2>2, <2>3 DEF CreateOrder, StageOrder, CreateForbidden, tables
  <2>4. ASSUME NEW w \in Worker, NEW a, OtherRequest(w, a)
        PROVE  UNCHANGED <<orders, stock, handed>>
    BY <2>2, <2>4 DEF OtherRequest
  <2>5. StockExact'
    BY <2>3, <2>4, SoundKnown, SameExact, StepExact DEF BodyNext, bodyVars
  <2> QED
    BY <2>1, <2>5
<1> QED
  BY <1>1, <1>2, SerialBody, PTL DEF BodySpec

-----------------------------------------------------------------------------
(* The tables as the desk sees them. *)

Facts(row, body) ==
  [account |-> row.account, part |-> row.part, quantity |-> row.quantity, body |-> body]

\* An order's item keeps its body from the order's commit on.
LEMMA WrittenItem ==
  ASSUME Sound, Bound, Record, NEW w \in Worker, NEW o \in OrderId, Places(w, o)
  PROVE  ItemIn(orders, basis)' =
           [ItemIn(orders, basis) EXCEPT ![o] = Facts(task[w].work.draft, signed[w])]
<1> DEFINE i == Facts(task[w].work.draft, signed[w])
<1>1. /\ DOMAIN orders' = DOMAIN orders \cup {o} /\ o \notin DOMAIN orders
      /\ orders'[o] = task[w].work.draft
      /\ \A x \in DOMAIN orders : orders'[x] = orders[x]
  BY DEF Places, Writes
<1>2. writer = w /\ task[w].pc = "commit"
  BY DEF Places, Sound, LockOK
<1>3. \A x \in OrderId : basis'[x] = IF x = o THEN signed[w] ELSE basis[x]
  BY <1>1, <1>2 DEF Record
<1>4. \A x \in OrderId :
        ItemIn(orders, basis)'[x] = IF x = o THEN i ELSE ItemIn(orders, basis)[x]
  BY <1>1, <1>3 DEF ItemIn, Facts
<1> HIDE DEF i
<1>5. ItemIn(orders, basis)' = [ItemIn(orders, basis) EXCEPT ![o] = i]
  BY <1>4 DEF ItemIn
<1> QED
  BY <1>5 DEF i

LEMMA SameItems ==
  ASSUME Record, NEW o \in OrderId, Writes(o), KeepsFacts(o)
  PROVE  ItemIn(orders, basis)' = ItemIn(orders, basis)
<1>1. DOMAIN orders' = DOMAIN orders
  BY DEF Writes, KeepsFacts
<1>2. \A x \in OrderId : basis'[x] = basis[x]
  BY <1>1 DEF Record
<1>3. \A x \in DOMAIN orders : /\ orders'[x].account = orders[x].account
                               /\ orders'[x].part = orders[x].part
                               /\ orders'[x].quantity = orders[x].quantity
  BY DEF Writes, KeepsFacts
<1> QED
  BY <1>1, <1>2, <1>3 DEF ItemIn

LEMMA PlaceDesk ==
  ASSUME Sound, Bound, DraftsTrusted, Record, NEW w \in Worker, NEW o \in OrderId,
         Places(w, o)
  PROVE  Desk!DeskNext
<1>0. TypeOK
  BY DEF Sound
<1>1. PICK draft, body :
        /\ draft = task[w].work.draft /\ body = signed[w]
        /\ ItemFor(draft.account, body) \in SignedItems
        /\ draft = TrustedOrder(draft.account, body)
  BY DEF Places, DraftsTrusted
<1>2. draft.part = body.part_number /\ draft.quantity = body.quantity
      /\ draft.state = RouteState(TrustedVerdict(draft.account, body))
  <2>1. \A a : /\ TrustedOrder(a, body).part = body.part_number
               /\ TrustedOrder(a, body).quantity = body.quantity
               /\ TrustedOrder(a, body).state = RouteState(TrustedVerdict(a, body))
    BY DEF TrustedOrder
  <2> QED
    BY <1>1, <2>1
<1>3. PICK i \in SignedItems : i = ItemFor(draft.account, body)
  BY <1>1
<1>4. Facts(draft, body) = i
  BY <1>2, <1>3 DEF Facts, ItemFor
<1>5. i \in ReleasedItems <=> ~TrustedVerdict(draft.account, body).requires_supervisor
  BY <1>3 DEF ReleasedItems, ItemFor
<1>6. orders'[o].state = IF i \in ReleasedItems THEN "auto_approved" ELSE "pending_supervisor"
  BY <1>1, <1>2, <1>5 DEF Places, RouteState
<1>7. /\ StatusIn(orders)[o] = "absent"
      /\ StatusIn(orders') = [StatusIn(orders) EXCEPT
                               ![o] = IF i \in ReleasedItems THEN "ready" ELSE "waiting"]
  BY <1>0, <1>6, PlacedStatus
<1>8. ItemIn(orders, basis)' = [ItemIn(orders, basis) EXCEPT ![o] = i]
  BY <1>1, <1>4, WrittenItem
<1>9. Desk!Place(o, i)
  BY <1>7, <1>8 DEF Desk!Place, Desk!Move, Places, StatusIn
<1>10. \E j \in SignedItems : Desk!Place(o, j)
  BY <1>9
<1> QED
  BY <1>10 DEF Desk!DeskNext

LEMMA DecideDesk ==
  ASSUME TypeOK, Record, NEW o \in OrderId, Decides(o)
  PROVE  Desk!DeskNext
<1>1. ItemIn(orders, basis)' = ItemIn(orders, basis) /\ UNCHANGED stock
  BY SameItems DEF Decides
<1>2. Desk!Approve(o) \/ Desk!Reject(o)
  BY <1>1, DecidedStatus DEF Desk!Approve, Desk!Reject, Desk!Move, StatusIn
<1> QED
  BY <1>2 DEF Desk!DeskNext

LEMMA HandOutDesk ==
  ASSUME TypeOK, Record, NEW o \in OrderId, HandsOut(o)
  PROVE  Desk!DeskNext
<1>1. /\ ItemIn(orders, basis)' = ItemIn(orders, basis)
      /\ ItemIn(orders, basis)[o] = Facts(orders[o], basis[o])
      /\ stock' = [stock EXCEPT ![orders[o].part] = @ - orders[o].quantity]
  BY SameItems DEF HandsOut, KeepsFacts, ItemIn, Facts
<1>2. /\ ItemIn(orders, basis)[o].part = orders[o].part
      /\ ItemIn(orders, basis)[o].quantity = orders[o].quantity
  <2>1. /\ Facts(orders[o], basis[o]).part = orders[o].part
        /\ Facts(orders[o], basis[o]).quantity = orders[o].quantity
    BY Zenon DEF Facts
  <2> QED
    BY <1>1, <2>1
<1>3. stock' = [stock EXCEPT ![ItemIn(orders, basis)[o].part] =
                               @ - ItemIn(orders, basis)[o].quantity]
  BY <1>1, <1>2
<1>4. Desk!HandOut(o)
  BY <1>1, <1>3, HandedOutStatus DEF Desk!HandOut, Desk!Move, StatusIn
<1> QED
  BY <1>4 DEF Desk!DeskNext

\* With one thread every step of a contrast application is a step of the abstract
\* parts desk, or invisible to it: all it trusts its client with is which items are
\* released without a supervisor.
THEOREM BodySerialImplementsDesk ==
  ASSUME SingleThread
  PROVE  BodySpec => ImplementsSignedDesk
<1>1. BodyInit => Desk!Open
  <2> SUFFICES ASSUME BodyInit PROVE Desk!Open
    OBVIOUS
  <2>1. DOMAIN orders = {} /\ stock = SeedStock
    BY DEF BodyInit, WorkflowInit
  <2> QED
    BY <2>1 DEF Desk!Open, StatusIn, ItemIn
<1>2. (Sound /\ Bound /\ Serial) /\ DraftsTrusted /\ [BodyNext]_bodyVars =>
        [Desk!DeskNext]_(Desk!desk)
  <2>1. ASSUME Sound, Bound, Serial, DraftsTrusted, [BodyNext]_bodyVars
        PROVE  Desk!DeskNext \/ UNCHANGED <<orders, basis, stock>>
    BY <2>1, NextSerial, PlaceDesk, DecideDesk, HandOutDesk DEF Turn, Sound
  <2>2. UNCHANGED <<orders, basis, stock>> => UNCHANGED Desk!desk
    BY DEF Desk!desk, StatusIn, ItemIn
  <2> QED
    BY <2>1, <2>2
<1> QED
  BY <1>1, <1>2, SerialBody, SpecDrafts, PTL
     DEF BodySpec, ImplementsSignedDesk, Desk!DeskSpec
=============================================================================
