------------------------------- MODULE Signing ------------------------------
(***************************************************************************)
(* The canonical form of an order body, as the server rebuilds it          *)
(* (signing.py) and as the client builds it before signing (client.js of   *)
(* the vulnerable application).  A text is the sequence of its lines, a    *)
(* line a field with the text of its value; values are single lines.       *)
(*                                                                         *)
(* A form is what a client posts: a function from the fields it sends to   *)
(* JSON values, None among them for null.  A body is what the schema makes *)
(* of it.                                                                  *)
(***************************************************************************)
EXTENDS Domain, Sequences

CONSTANTS
  Null,       \* the text JavaScript writes of null
  Loose,      \* values of another JSON type that the schema converts: "false"
              \* for a flag, "02" or 1e21 for a number
  Converted,  \* Loose -> what the schema makes of it
  Written     \* Loose -> what the client's text says of it

\* The fields in the order both sides write them; the last four are optional.
FieldOrder ==
  <<"part_number", "quantity", "work_order_id", "unit_price_cents", "restricted",
    "line_total_cents", "within_limit", "requires_supervisor", "pickup_code",
    "created_at_epoch">>

Fields == {FieldOrder[i] : i \in DOMAIN FieldOrder}

Required == {FieldOrder[i] : i \in 1 .. 6}

Flags == {"restricted", "within_limit", "requires_supervisor"}

\* The line of a field: flags are written in lower case, other values as they are.
Line(o, f) ==
  <<f, IF f \in Flags THEN IF o[f] THEN "true" ELSE "false" ELSE o[f]>>

\* Mutant: a verdict of "no" is taken for no verdict.
CanonicalTruthyVerdict(o) ==
  LET optional(f) == IF o[f] = None THEN <<>> ELSE <<Line(o, f)>>
      truthy(f) == IF o[f] = TRUE THEN <<Line(o, f)>> ELSE <<>>
  IN  [i \in 1 .. 6 |-> Line(o, FieldOrder[i])]
        \o truthy("within_limit") \o truthy("requires_supervisor")
        \o optional("pickup_code") \o optional("created_at_epoch")

\* canonical_order_string: six lines, and one for each optional value present.
CanonicalOrderString(o) ==
  LET optional(f) == IF o[f] = None THEN <<>> ELSE <<Line(o, f)>>
  IN  [i \in 1 .. 6 |-> Line(o, FieldOrder[i])]
        \o optional("within_limit") \o optional("requires_supervisor")
        \o optional("pickup_code") \o optional("created_at_epoch")

\* What the schema makes of a posted value: null is None, the values it knows to
\* convert are converted.
Read(v) == IF v \in Loose THEN Converted[v] ELSE v

\* SignedOrderRequest: the fields the client did not send are None too.
Parsed(form) == [f \in Fields |-> IF f \in DOMAIN form THEN Read(form[f]) ELSE None]

\* What the client's text says of a posted value: to JavaScript null is no flag,
\* and elsewhere its own text.
Said(f, v) ==
  IF v \in Loose THEN Written[v]
  ELSE IF v # None THEN v ELSE IF f \in Flags THEN FALSE ELSE Null

\* The order that the text of a form states.
Stated(form) ==
  [f \in Fields |-> IF f \in DOMAIN form THEN Said(f, form[f]) ELSE None]

\* canonicalOrder of the client, whose object has the fields it sends.
ClientCanonical(form) ==
  LET o == Stated(form)
      pushed(f) == IF f \in DOMAIN form THEN <<Line(o, f)>> ELSE <<>>
  IN  [i \in 1 .. 6 |-> Line(o, FieldOrder[i])]
        \o pushed("within_limit") \o pushed("requires_supervisor")
        \o pushed("pickup_code") \o pushed("created_at_epoch")

\* sign and verify: an HMAC stands for the text it was made for.
Verify(message, signature) == signature = message
=============================================================================
