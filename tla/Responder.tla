----------------------------- MODULE Responder ------------------------------
(***************************************************************************)
(* What a handler returns, and how it becomes a response: responder.rs.    *)
(*                                                                         *)
(* A value is a sequence: what it is wrapped in, from the outside, and the *)
(* value inside.  Some, Ok and either side of Either pass the question on; *)
(* a boxed future has to complete first.  A handler of to_async is one     *)
(* that returns a future of a response.                                    *)
(***************************************************************************)
EXTENDS Integers, Sequences, SequencesExt

Wrappers == {"some", "ok", "either"}
Inner    == {"none", "err", "response", "text", "bytes", "json", "unserializable"}

\* respond_to asks what is inside until there is an answer, or a future.
Unwrapped(value) ==
  SubSeq(value, SelectInSeq(value, LAMBDA layer : layer \notin Wrappers), Len(value))

IsFuture(value) == value # << >> /\ Head(value) = "future"

\* The future of a responder: what is left of the value, and, if that is a
\* boxed future, whether it has completed.
Failed          == [value |-> <<"future", "err">>, ready |-> TRUE]
Completed(value) == {[value |-> value, ready |-> TRUE], Failed}

RespondTo(value) ==
  LET left == Unwrapped(value) IN
  IF IsFuture(left) THEN {[value |-> left, ready |-> FALSE]} \cup Completed(left)
  ELSE {[value |-> left, ready |-> TRUE]}

\* The response of an inner value: status and content type.  That of a
\* Response is its own, that of an error the error's.
Reply(inner) ==
  CASE inner = "text"     -> [status |-> "ok", type |-> "text/plain; charset=utf-8"]
    [] inner = "bytes"    -> [status |-> "ok", type |-> "application/octet-stream"]
    [] inner = "json"     -> [status |-> "ok", type |-> "application/json"]
    [] inner = "none"     -> [status |-> "not_found", type |-> "none"]
    [] inner = "response" -> [status |-> "own", type |-> "own"]
    [] inner \in {"err", "unserializable"} -> [status |-> "error", type |-> "none"]
=============================================================================
