----------------------------- MODULE ReqErrors ------------------------------
(***************************************************************************)
(* The errors of both libraries (http/reqerr.go, http/cher, http/oops,     *)
(* events/eventerr.go, events/endpoint.go and the writer of                *)
(* http/examples/errorwriter).                                             *)
(*                                                                         *)
(* An error is the sequence of the nodes errors.As walks, outermost first; *)
(* nil is <<>>.  A node has its Go type, its code ("" blank), the status   *)
(* it was given (0: none), its wire reasons, how it wraps what follows     *)
(* ("one" through Unwrap() error, "many" through Unwrap() []error), the    *)
(* code its message spells and whether its Meta, a map[string]any, and its *)
(* reasons' encode as JSON.                                                *)
(***************************************************************************)
EXTENDS Integers, Sequences, SequencesExt

Node(kind, code, status, wraps, says) ==
    [kind |-> kind, code |-> code, status |-> status, reasons |-> <<>>, wraps |-> wraps, says |-> says,
     encodes |-> TRUE]

New(code) == <<Node("req", code, 0, "many", "")>>
WrapErr(err, code) == New(code) \o err
WithStatus(err, status) == [err EXCEPT ![1].status = status]
WithMeta(err, encodes) == [err EXCEPT ![1].encodes = encodes]
WithReasons(err, reasons) == [err EXCEPT ![1].reasons = @ \o reasons]

Has(err, kind) == \E i \in DOMAIN err : err[i].kind = kind

\* errors.AsType: the error from the outermost node of that type on.
AsType(err, kind) == SubSeq(err, SelectInSeq(err, LAMBDA n : n.kind = kind), Len(err))

\* errors.Unwrap, which only knows the single form: what the message under
\* the first node spells, "" without one.
Unwrapped(err) == IF err[1].wraps = "one" THEN err[2].says ELSE ""

CodeStatuses ==
    [bad_request |-> 400, invalid_request |-> 400, unauthorized |-> 401, access_denied |-> 403,
     not_found |-> 404, route_not_found |-> 404, method_not_allowed |-> 405,
     endpoint_withdrawn |-> 410, unsupported_media_type |-> 415, too_many_requests |-> 429,
     unknown |-> 500]

StatusCode(err) ==
    IF err[1].status # 0 THEN err[1].status
    ELSE IF err[1].code \in DOMAIN CodeStatuses THEN CodeStatuses[err[1].code]
    ELSE 400

-----------------------------------------------------------------------------
(* The coercers of the http side: nil in, nil out; a ReqError anywhere wins. *)

Settled(err) == err = <<>> \/ Has(err, "req")
ReqErrorOf(err) == IF err = <<>> THEN err ELSE AsType(err, "req")

DefaultCoercer(err) == IF Settled(err) THEN ReqErrorOf(err) ELSE WrapErr(err, "unknown")

\* cher's own table, which has no unsupported_media_type.
CherStatus(code) ==
    IF code \in DOMAIN CodeStatuses \ {"unsupported_media_type"} THEN CodeStatuses[code] ELSE 400

\* coerceCher: the status follows from the effective code, a blank one unknown;
\* the Meta and the reasons are copied.
CoerceCher(err) ==
    LET found == AsType(err, "cher")[1]
        code == IF found.code = "" THEN "unknown" ELSE found.code
        out == WithMeta(WrapErr(err, code), found.encodes)
    IN  WithReasons(WithStatus(out, CherStatus(code)), found.reasons)

CherCoerce(err) ==
    IF Settled(err) THEN ReqErrorOf(err)
    ELSE IF Has(err, "cher") THEN CoerceCher(err)
    ELSE WrapErr(err, "unknown")

\* serverError: an oops error's code, or what the wrapped message spells, or
\* unknown; always on a 500.
OopsCode(err) ==
    LET base == IF Has(err, "oops") THEN AsType(err, "oops") ELSE err
        own == IF Has(err, "oops") THEN base[1].code ELSE ""
        code == IF own # "" THEN own ELSE Unwrapped(base)
    IN  IF code # "" THEN code ELSE "unknown"

\* The Meta is what the oops error was given With, and nothing without one.
OopsEncodes(err) == Has(err, "oops") => AsType(err, "oops")[1].encodes

ServerError(err) == WithStatus(WithMeta(WrapErr(err, OopsCode(err)), OopsEncodes(err)), 500)

\* A slip: an oops error is a 500 even around a ReqError.
OopsCoerceFirst(err) ==
    IF err # <<>> /\ Has(err, "oops") THEN ServerError(err) ELSE DefaultCoercer(err)

OopsCoerce(err) == IF Settled(err) THEN ReqErrorOf(err) ELSE ServerError(err)

Coerce(coercer, err) ==
    CASE coercer = "default" -> DefaultCoercer(err)
      [] coercer = "cher" -> CherCoerce(err)
      [] coercer = "oops" -> OopsCoerce(err)
      [] coercer = "teapot" -> IF err = <<>> THEN err ELSE WithStatus(New("teapot"), 418)

-----------------------------------------------------------------------------
(* The events side. *)

EventNew(code) == <<Node("event", code, 0, "many", "")>>

\* DefaultCoercer of events.
EventCoercer(err) ==
    IF err = <<>> THEN err
    ELSE IF Has(err, "event") THEN AsType(err, "event")
    ELSE EventNew("unknown") \o err

\* Bus.asReqError: the caller's bad input keeps the default 400; the Meta is
\* the event error's.
AsReqError(err) ==
    LET event == EventCoercer(err)
        req == WithMeta(WrapErr(event, event[1].code), event[1].encodes)
    IN  IF event[1].code \in {"validation_failed", "invalid", "decode_failed"}
        THEN req ELSE WithStatus(req, 500)

-----------------------------------------------------------------------------
(* Error writers: the status and code of the response. *)

Response(status, code, reasons) == [status |-> status, code |-> code, reasons |-> reasons]

Bare500 == Response(500, "", <<>>)

\* writeJSON: an error that does not encode is a 500 without a body.
WriteJSON(err) ==
    IF err[1].encodes THEN Response(StatusCode(err), err[1].code, err[1].reasons) ELSE Bare500

\* DefaultErrorWriter: the coerced error as JSON.
DefaultErrorWriter(coercer, err) ==
    LET e == Coerce(coercer, err) IN IF e = <<>> THEN Bare500 ELSE WriteJSON(e)

\* The example's writeError: the service's own error first, a ReqError
\* translated, anything else an internal 500.  It takes only the strings of a
\* Meta, so what it writes encodes.
WriteError(err) ==
    IF Has(err, "api") THEN Response(AsType(err, "api")[1].status, AsType(err, "api")[1].code, <<>>)
    ELSE IF Has(err, "req")
    THEN Response(StatusCode(AsType(err, "req")), AsType(err, "req")[1].code, AsType(err, "req")[1].reasons)
    ELSE Response(500, "internal", <<>>)

\* The default, the example's, and those of the conformance suite: a problem
\* document, a teapot, one that looks for the innermost error, one that looks
\* for a ReqError.
Write(writer, coercer, err) ==
    CASE writer = "default" -> DefaultErrorWriter(coercer, err)
      [] writer = "custom" -> WriteError(err)
      [] writer = "problem" -> Response(422, err[1].says, <<>>)
      [] writer = "teapot" -> Response(418, "", <<>>)
      [] writer = "spy" -> Response(500, Last(err).says, <<>>)
      [] writer = "as" -> Response(400, IF Has(err, "req") THEN AsType(err, "req")[1].code ELSE "", <<>>)
=============================================================================
