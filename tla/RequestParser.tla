--------------------------- MODULE RequestParser ----------------------------
(***************************************************************************)
(* Request binding (http/parser.go).  A Req type is "empty" (http.Empty),  *)
(* a "struct" or "other"; a struct has the sequence of its exported fields *)
(* [in, key, kind]: in is the tag that binds the field, "path", "query" or *)
(* "json", or "lenient" for an embedded LenientBody, "none" without a tag. *)
(*                                                                         *)
(* A request has raw path and query values by key ("" absent), a content   *)
(* type, and a body: its form, "eof", "malformed" or "json", and the JSON  *)
(* values by key.                                                          *)
(***************************************************************************)
EXTENDS Integers, Sequences, FiniteSets, SequencesExt, Functions, ReqErrors

\* The parser without hooks: Setters knows no kind, and there is no DecodeBody.
DefaultRequestParser == [setters |-> {}, decodeBody |-> FALSE]

\* What a DecodeBody hook says of a body it cannot read.
DecodeError == New("bad_payload")

-----------------------------------------------------------------------------
(* stringSetter: how a path or query string is read into a field. *)

Kinds == {"string", "bool", "int", "uint8", "float", "text"}

CanSet(p, kind) == kind \in p.setters \cup Kinds

Numbers == {"0", "1", "5", "42", "300"}

\* Whether the setter of a kind takes a raw value.  The integers are parsed
\* 64 bits wide whatever the field's width.
Takes(kind, raw) ==
    CASE kind \in {"string", "list"} -> TRUE
      [] kind = "bool" -> raw \in {"0", "1", "true"}
      [] kind \in {"int", "uint8"} -> raw \in Numbers
      [] kind = "float" -> raw \in Numbers \cup {"1.5"}
      [] kind = "text" -> raw # "bad"

\* What a field keeps of it: a narrow integer is cut down without a word.
Stored(kind, raw) == IF kind = "uint8" /\ raw = "300" THEN "44" ELSE raw

\* json.Unmarshal of a value into a field: fine, a type error, another error.
Unmarshals(kind, value) ==
    CASE value = "null" -> "ok"
      [] kind = "string" /\ value = "str" -> "ok"
      [] kind \in {"int", "uint8", "float"} /\ value = "num" -> "ok"
      [] kind = "bool" /\ value = "true" -> "ok"
      [] kind = "text" /\ value = "str" -> "ok"
      [] kind = "text" /\ value = "bad" -> "invalid"
      [] OTHER -> "invalid_type"

-----------------------------------------------------------------------------
(* buildBinder: the plan for a type, or none when a field cannot be bound.  *)

\* SelectSeq with the test as a set: the elements of s in keep, in order.
Only(s, keep) ==
    LET kept[n \in 0 .. Len(s)] ==
            IF n = 0 THEN <<>>
            ELSE IF s[n] \in keep THEN Append(kept[n - 1], s[n]) ELSE kept[n - 1]
    IN  kept[Len(s)]

FieldsIn(T, in) == Only(T.fields, {f \in Range(T.fields) : f.in = in})

Bindable(p, T) ==
    \/ T.shape = "empty"
    \/ /\ T.shape = "struct"
       /\ \A f \in Range(T.fields) : f.in \in {"path", "query"} => CanSet(p, f.kind)

\* What is said of a type that is not: a field's own error is wrapped with %w.
BuildError(T) ==
    IF T.shape = "struct"
    THEN <<Node("plain", "", 0, "one", "field"), Node("plain", "", 0, "none", "unsupported_field_type")>>
    ELSE <<Node("plain", "", 0, "none", "req")>>

BuildBinder(T) ==
    [noop |-> T.shape = "empty", paths |-> FieldsIn(T, "path"), queries |-> FieldsIn(T, "query"),
     body |-> FieldsIn(T, "json"), lenient |-> FieldsIn(T, "lenient") # <<>>]

-----------------------------------------------------------------------------
(* bind: failures collect, so that one response names every bad input. *)

Reason(code, in, field) == [code |-> code, in |-> in, field |-> field]

At(values, key, absent) == IF key \in DOMAIN values THEN values[key] ELSE absent

\* One reason per field of fields whose value is there and not taken.
ParamReasons(fields, in, values) ==
    LET bad == Only(fields, {f \in Range(fields) :
                   At(values, f.key, "") # "" /\ ~Takes(f.kind, At(values, f.key, ""))})
    IN  [i \in DOMAIN bad |-> Reason("invalid", in, bad[i].key)]

UnknownKeyReasons(b, body) ==
    LET unknown == SetToSeq(DOMAIN body \ {b.body[i].key : i \in DOMAIN b.body})
    IN  [i \in DOMAIN unknown |-> Reason("unknown_field", "body", unknown[i])]

BodyReasons(b, body) ==
    LET bad == Only(b.body, {f \in Range(b.body) :
                   f.key \in DOMAIN body /\ Unmarshals(f.kind, body[f.key]) # "ok"})
    IN  [i \in DOMAIN bad |-> Reason(Unmarshals(bad[i].kind, body[bad[i].key]), "body", bad[i].key)]
            \o (IF b.lenient THEN <<>> ELSE UnknownKeyReasons(b, body))

\* bindBody: an error that preempts binding, or the reasons.
BindBody(p, b, r) ==
    LET Reasons(rs) == [err |-> <<>>, reasons |-> rs]
    IN  IF p.decodeBody
        THEN [err |-> IF r.form = "malformed" THEN DecodeError ELSE <<>>, reasons |-> <<>>]
        ELSE IF r.ctype \notin {"", "json"}
        THEN [err |-> New("unsupported_media_type"), reasons |-> <<>>]
        ELSE IF r.form = "malformed" THEN Reasons(<<Reason("malformed", "body", "")>>)
        ELSE IF r.form = "eof" THEN Reasons(<<>>)
        ELSE Reasons(BodyReasons(b, r.body))

\* A slip: the body is only looked at when path and query are fine.
BindInTurn(p, b, r) ==
    LET params == ParamReasons(b.paths, "path", r.path) \o ParamReasons(b.queries, "query", r.query)
        body == IF b.body = <<>> THEN [err |-> <<>>, reasons |-> <<>>] ELSE BindBody(p, b, r)
        all == IF params # <<>> THEN params ELSE body.reasons
    IN  IF b.noop THEN <<>>
        ELSE IF body.err # <<>> THEN body.err
        ELSE IF all # <<>> THEN WithReasons(New("invalid_request"), all) ELSE <<>>

\* bind: nil, or the error.
Bind(p, b, r) ==
    LET params == ParamReasons(b.paths, "path", r.path) \o ParamReasons(b.queries, "query", r.query)
        body == IF b.body = <<>> THEN [err |-> <<>>, reasons |-> <<>>] ELSE BindBody(p, b, r)
        all == params \o body.reasons
    IN  IF b.noop THEN <<>>
        ELSE IF body.err # <<>> THEN body.err
        ELSE IF all # <<>> THEN WithReasons(New("invalid_request"), all)
        ELSE <<>>

\* A slip: a body key of the field's name wins, whatever binds the field.
RawHijacked(p, r, f) ==
    IF f.key \in DOMAIN r.body THEN r.body[f.key]
    ELSE At(IF f.in = "path" THEN r.path ELSE r.query, f.key, "")

\* The raw value a field is bound from, "" or "null" when there is none.  A
\* hook's own reading of the body is the hook's.
Raw(p, r, f) ==
    CASE f.in = "path" -> At(r.path, f.key, "")
      [] f.in = "query" -> At(r.query, f.key, "")
      [] f.in = "json" -> IF p.decodeBody THEN "null" ELSE At(r.body, f.key, "null")

\* What bind leaves in the fields of a type, the others keeping their zero.
Bound(p, b, r) ==
    {<<f.in, f.key, Stored(f.kind, Raw(p, r, f))>> :
        f \in {g \in Range(b.paths \o b.queries \o b.body) : Raw(p, r, g) \notin {"", "null"}}}

-----------------------------------------------------------------------------
(* What is wrong with a request, read off the type alone, which is what a *)
(* response is to name.                                                   *)

BadParams(T, in, values) ==
    {f.key : f \in {g \in Range(T.fields) :
                       g.in = in /\ g.key \in DOMAIN values /\ values[g.key] # ""
                           /\ ~Takes(g.kind, values[g.key])}}

JsonFields(T) == {f \in Range(T.fields) : f.in = "json"}

BadKeys(T, body) ==
    {f.key : f \in {g \in JsonFields(T) :
                       g.key \in DOMAIN body /\ Unmarshals(g.kind, body[g.key]) # "ok"}}
    \cup (IF \E f \in Range(T.fields) : f.in = "lenient" THEN {}
          ELSE DOMAIN body \ {f.key : f \in JsonFields(T)})

BadInputs(p, T, r) ==
    {<<"path", k>> : k \in BadParams(T, "path", r.path)}
        \cup {<<"query", k>> : k \in BadParams(T, "query", r.query)}
        \cup (IF JsonFields(T) = {} \/ p.decodeBody THEN {}
              ELSE IF r.form = "malformed" THEN {<<"body", "">>}
              ELSE IF r.form = "eof" THEN {}
              ELSE {<<"body", k>> : k \in BadKeys(T, r.body)})

KeysOnce(T) ==
    \A i, j \in DOMAIN T.fields :
        T.fields[i].in = T.fields[j].in /\ T.fields[i].key = T.fields[j].key => i = j
=============================================================================
