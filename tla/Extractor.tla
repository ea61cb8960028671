----------------------------- MODULE Extractor ------------------------------
(***************************************************************************)
(* The arguments a handler can take: FromRequest for the types of          *)
(* extractor.rs, state.rs and request.rs.                                  *)
(*                                                                         *)
(* Path, Query, State and HttpRequest look at the request alone and have   *)
(* their result at once.  Json, Form, Bytes and String read the body; all  *)
(* but Bytes refuse some requests by their head, and then leave the body   *)
(* alone.  Any other type has a future the application wrote.              *)
(***************************************************************************)
EXTENDS Integers, Sequences

CONSTANTS
  Limit  \* 262_144 in the code: most bytes of a body that are read

ASSUME LimitAssumption == Limit \in Nat

BodyKinds  == {"json", "form", "bytes", "string"}
Kinds      == {"path", "query", "state", "request", "custom"} \cup BodyKinds

\* Option<T> and Result<T, _> wrap an extractor and never fail.
Extractors == [kind : Kinds, wrap : {"plain", "option", "result"}]

\* What the extractors ask of the head of a request: the content type, and
\* whether its charset is one that can be decoded.
Heads == [type : {"json", "form", "other"}, known : BOOLEAN]

\* Bytes and String come with PayloadConfig::default(), which has no type to
\* compare with, String needs a charset; what Json and Form want is for
\* JsonBody and UrlEncoded to say.
Accepts(kind, head) ==
  /\ kind = "json"   => head.type = "json"
  /\ kind = "form"   => head.type = "form" /\ head.known
  /\ kind = "string" => head.known

\* What decides how an extractor will end, besides the request's head:
\* whether a value of its type can be made of the path, of the query, of the
\* body, whether the state it asks for was configured.
Fits(kind) == IF kind \in {"bytes", "request", "custom"} THEN {TRUE} ELSE BOOLEAN

\* The future from_request returns: pending only if it is someone else's.
Futures(kind, head) ==
  [state : {"pending"}, fits : IF Accepts(kind, head) THEN Fits(kind) ELSE {TRUE}]

\* Payload::None, of which an extractor reads that found the payload taken.
\* It is no JSON, it is a text, and it may do as a form.
NoBody == [sent |-> 0, end |-> "complete"]

Parses(kind, fut, body) ==
  /\ fut.fits \/ (kind = "string" /\ body.sent = 0)
  /\ kind = "json" => body.sent > 0

\* Reading a body: all that has come, but never more than Limit.
BodyOutcome(kind, fut, body) ==
  IF body.sent > Limit \/ body.end = "gone" THEN "err"
  ELSE IF body.end = "open" THEN "pending"
  ELSE IF Parses(kind, fut, body) THEN "ok" ELSE "err"

\* What polling the extractor's future gives.
PartOutcome(kind, fut, head, body) ==
  IF kind = "custom" THEN fut.state
  ELSE IF kind \notin BodyKinds THEN IF fut.fits THEN "ok" ELSE "err"
  ELSE IF ~Accepts(kind, head) THEN "err" ELSE BodyOutcome(kind, fut, body)

\* The status of the response its error becomes: 404 for a path, 500 for a
\* state, 400 for a body that cannot be decoded, else that of the error.
Rejection(kind, head, body) ==
  IF kind = "path" THEN "not_found"
  ELSE IF kind = "state" THEN "internal"
  ELSE IF kind = "string" /\ head.known /\ body.end = "complete" /\ body.sent <= Limit
       THEN "bad_request"
  ELSE "error"
=============================================================================
